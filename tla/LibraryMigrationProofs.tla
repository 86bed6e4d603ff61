----------------------- MODULE LibraryMigrationProofs -----------------------
(***************************************************************************)
(* For every library, every page size and whatever the owner does, and     *)
(* however many jobs die or lose a reply: no word is less known than the   *)
(* owner left it, and a rollback that finishes has put back what was.      *)
(***************************************************************************)
EXTENDS LibraryMigrationProps, FiniteSetTheorems, WellFoundedInduction, TLAPS

-----------------------------------------------------------------------------
(* The shape of the state.                                                 *)

CardDoc == [gen : Nat, rev : Int, level : Nat]
TombDoc == [gen : Nat, rev : Int]
JobFields == {"phase", "cursor", "page", "epoch", "sources", "applied", "leased"}
FenceFields == {"phase", "rev", "applied", "rolled", "live"}
GroupFields == {"page", "sources", "sealed", "taken", "tombs", "applied"}
PlanFields == {"status", "card", "tombs"}

IdsOf(w) == {id \in Ids : WordOf[id] = w}
LibShape ==
    /\ epoch \in Nat
    /\ cards \in [Ids -> CardDoc] /\ tombs \in [Ids -> TombDoc]
    /\ DOMAIN taken = Words
    /\ \A w \in Words : taken[w] \in IdsOf(w) \cup {NoId}
\* A group g of the manifest, for the word w.
GroupShape(g, w) ==
    /\ DOMAIN g = GroupFields /\ g.applied \in BOOLEAN
    /\ DOMAIN g.sources # {} /\ DOMAIN g.sources \subseteq IdsOf(w)
    /\ \A id \in DOMAIN g.sources : g.sources[id] \in CardDoc \ {NoCard}
    /\ g.sealed => /\ g.tombs \in [DOMAIN g.sources \cup {Canon[w]} -> TombDoc]
                   /\ g.taken \in IdsOf(w) \cup {NoId}
JobDoc(j) == DOMAIN j = JobFields /\ j.phase # "none"
FenceDoc(f) == /\ DOMAIN f = FenceFields /\ f.rev \in Nat /\ f.rolled \in Nat
               /\ f.phase \in {"verify", "apply", "rollback"}
JobShape ==
    /\ job = NoJob \/ JobDoc(job)
    /\ fence = NoFence \/ FenceDoc(fence)
    /\ DOMAIN groups = Words /\ DOMAIN saved = Ids /\ DOMAIN plans = Words
    /\ \A w \in Manifest : GroupShape(groups[w], w)
    /\ \A id \in Ids : saved[id] # NoCopy =>
          WordOf[id] \in Manifest /\ id \in Sources(WordOf[id])
    /\ \A w \in Words : plans[w] # NoPlan =>
          DOMAIN plans[w] = PlanFields /\ plans[w].status \in {"applied", "rolledBack"}

-----------------------------------------------------------------------------
(* The stages of a migration.                                              *)

NoPlans == \A w \in Words : plans[w] = NoPlan
AllPlanned == \A w \in Manifest : plans[w] # NoPlan
NoneBack == \A w \in Words : plans[w] # NoPlan => plans[w].status = "applied"
\* No card of a word that is not merged yet is missing from the manifest.
Complete == \A w \in Unapplied : \A id \in IdsOf(w) : Exists(id) => id \in Sources(w)

Phases ==
    /\ job.phase \in {"none", "discover", "blocked"} =>
          ~Fenced /\ NoPlans /\ ~root.kept /\ \A w \in Manifest : ~groups[w].applied
    /\ Fenced => job # NoJob /\ epoch = job.epoch /\ job.phase = fence.phase
    /\ Fenced /\ fence.phase # "rollback" => fence.applied \in Nat /\ fence.rolled = 0
    /\ Fenced /\ fence.phase = "verify" => fence.applied = 0
    /\ ~Fenced => job.phase \in {"none", "discover", "blocked", "discovered",
                                 "complete", "rolled-back"}
\* What the fence and the job tell of the plans.
Progress ==
    /\ Fenced /\ fence.phase = "apply" /\ fence.applied # 0 => Complete
    /\ Fenced /\ fence.rolled = 0 => NoneBack
    /\ Fenced /\ fence.phase # "rollback" /\ fence.applied = 0 => NoPlans
    /\ Fenced /\ fence.phase = "rollback" /\ fence.applied = 0 => AllPlanned
    /\ ~Fenced /\ job.phase = "discovered" => ~root.kept /\ NoPlans
    /\ ~Fenced /\ job.phase = "complete" => AllPlanned /\ NoneBack
\* A merged word has one card, and keeps it while the merge stands.
Plans ==
    /\ \A w \in Manifest : groups[w].applied <=> plans[w] # NoPlan
    /\ \A w \in Words : plans[w] # NoPlan =>
          w \in Manifest /\ groups[w].sealed /\ plans[w].card = Merged(w)
    /\ \A w \in Applied : /\ taken[w] = Canon[w]
                          /\ \A id \in IdsOf(w) : Exists(id) => id = Canon[w]

\* What the owner knew is still known, but for words with a leftover.
KnownKept ==
    \A w \in Words : Knows(cards, epoch, w) # known[w] =>
        w \in Manifest /\ groups[w].applied /\ Leftover(w)

-----------------------------------------------------------------------------
(* What a rollback goes back to.                                           *)

Same(w) == /\ taken[w] = before.taken[w]
           /\ \A id \in Touched(w) : /\ cards[id] = before.cards[id]
                                     /\ tombs[id] = before.tombs[id]
\* What was written down of a merged word is what was there before.
Noted(w) == /\ groups[w].taken = before.taken[w]
            /\ \A id \in Touched(w) : groups[w].tombs[id] = before.tombs[id]
            /\ \A id \in Sources(w) : groups[w].sources[id] = before.cards[id]
            /\ Canon[w] \notin Sources(w) => before.cards[Canon[w]] = NoCard
Backs ==
    /\ \A w \in Applied : Noted(w)
    /\ Fenced => \A w \in Manifest \ Applied : Same(w)

-----------------------------------------------------------------------------
(* The job under way, given what it holds in memory: r.                    *)

WorkAts == {"manifest", "root", "copy", "merge", "sealed", "restore"}
RunShape(r) ==
    /\ "at" \in DOMAIN r
    /\ r.at \in {"idle", "acquire", "read", "commit", "begin", "catch"} \cup WorkAts
    /\ "mem" \in DOMAIN r <=> r.at \in WorkAts \cup {"catch"}
    /\ r.at \in {"acquire", "read", "begin"} => DOMAIN r = {"at", "mode"}
    /\ "word" \in DOMAIN r => r.at \in {"copy", "merge", "catch"}
    /\ r.at = "commit" => \A id \in DOMAIN r.docs :
                              id \in Ids /\ r.docs[id] \in CardDoc \ {NoCard}
\* Which job is where: the apply, the rollback.
RunMode(r) ==
    /\ r.at \in WorkAts \cup {"catch"} => "was" \in DOMAIN r /\ "mode" \in DOMAIN r
    /\ r.at \in WorkAts \cup {"catch", "begin"} => r.mode \in {"apply", "rollback"}
    /\ r.at \in {"manifest", "copy", "merge"} => r.mode = "apply"
    /\ r.at \in {"sealed", "restore"} => r.mode = "rollback"
\* What it knows of the job document and of the fence.
RunKnows(r) ==
    /\ r.at \in {"read", "commit"} => job.phase = "discover"
    /\ r.at = "begin" => job # NoJob /\ (r.mode = "rollback" => root.kept)
    /\ r.at \in WorkAts => Fenced /\ r.mem = Mem(fence)
    /\ Fenced /\ r.at \in WorkAts \cup {"catch"} =>
          (fence.phase = "rollback" <=> r.mode = "rollback")
    /\ Fenced /\ r.at = "catch" /\ fence.rev = r.mem.rev => r.mem = Mem(fence)
\* What it has made sure of.
RunSure(r) ==
    /\ "word" \in DOMAIN r /\ r.at # "catch" => r.word \in Unsealed
    /\ r.at \in {"root", "copy", "merge"} /\ r.mode = "apply" => Complete
    /\ Fenced /\ r.at \in WorkAts \cup {"catch"} /\ r.mode = "rollback"
          /\ r.was = "complete" => AllPlanned
RunInv(r) == RunShape(r) /\ RunMode(r) /\ RunKnows(r) /\ RunSure(r)

LibInv == /\ LibShape /\ JobShape /\ Phases /\ Progress /\ Plans /\ KnownKept /\ Backs
          /\ RunInv(run)

-----------------------------------------------------------------------------
(* Helpers.                                                                *)

LEMMA FieldsOf ==
    ASSUME NEW g, NEW h  PROVE /\ DOMAIN (g @@ h) = DOMAIN g \cup DOMAIN h
                               /\ \A x \in DOMAIN g : (g @@ h)[x] = g[x]
                               /\ \A x \in DOMAIN h \ DOMAIN g : (g @@ h)[x] = h[x]
BY DEF @@

LEMMA SmallestSet ==
    ASSUME NEW S, IsFiniteSet(S), NEW F, F \subseteq SUBSET S, F # {}
    PROVE  \E T \in F : \A U \in F : U \subseteq T => U = T
<1>1. IsWellFoundedOn(StrictSubsetOrdering(S), SUBSET S)
  BY FS_StrictSubsetOrderingWellFounded, FS_FiniteSubsetsOfFinite
<1>2. PICK T \in F : \A U \in F : ~(<<U, T>> \in StrictSubsetOrdering(S))
  BY <1>1, WFMin
<1>3. \A U \in F : U \subseteq T => U = T
  <2> SUFFICES ASSUME NEW U \in F, U \subseteq T, U # T
               PROVE  <<U, T>> \in StrictSubsetOrdering(S)
    BY <1>2
  <2> QED BY DEF StrictSubsetOrdering
<1> QED BY <1>3

LEMMA SmallestOf ==
    ASSUME NEW S, IsFiniteSet(S), S # {}, NEW up, \A m \in S : up[m] \subseteq S
    PROVE  \E m \in S : \A n \in S : up[n] \subseteq up[m] => up[n] = up[m]
<1> DEFINE F == {up[m] : m \in S}
<1>1. /\ F \subseteq SUBSET S
      /\ F # {}
      /\ \A m \in S : up[m] \in F
      /\ \A U \in F : \E m \in S : U = up[m]
  OBVIOUS
<1> HIDE DEF F
<1>2. \E T \in F : \A U \in F : U \subseteq T => U = T
  <2>1. F \subseteq SUBSET S /\ F # {}
    BY <1>1
  <2> QED BY <2>1, SmallestSet
<1>3. PICK T \in F : \A U \in F : U \subseteq T => U = T
  BY <1>2
<1>4. PICK m \in S : T = up[m]
  BY <1>1
<1>5. \A n \in S : up[n] \subseteq up[m] => up[n] = up[m]
  <2> SUFFICES ASSUME NEW n \in S, up[n] \subseteq up[m]  PROVE up[n] = up[m]
    OBVIOUS
  <2>1. up[n] \in F
    BY <1>1
  <2> QED BY <2>1, <1>3, <1>4
<1> QED BY <1>5

\* A finite set of whole numbers that is not empty has a greatest one.
LEMMA GreatestIs ==
    ASSUME NEW S, IsFiniteSet(S), S # {}, \A n \in S : n \in Int
    PROVE  Greatest(S) \in S /\ \A n \in S : n <= Greatest(S)
<1> DEFINE up == [m \in S |-> {n \in S : m <= n}]
<1>1. PICK m \in S : \A n \in S : up[n] \subseteq up[m] => up[n] = up[m]
  <2>1. \A m \in S : up[m] \subseteq S
    OBVIOUS
  <2> HIDE DEF up
  <2> QED BY <2>1, SmallestOf
<1>2. \A n \in S : n <= m
  <2> SUFFICES ASSUME NEW n \in S, m < n  PROVE FALSE
    OBVIOUS
  <2>1. up[n] \subseteq up[m]
    <3> SUFFICES ASSUME NEW k \in S, n <= k  PROVE m <= k
      OBVIOUS
    <3>1. m \in Int /\ n \in Int /\ k \in Int
      OBVIOUS
    <3> QED BY <3>1
  <2>2. m \in up[m] /\ m \notin up[n]
    OBVIOUS
  <2> QED BY <1>1, <2>1, <2>2
<1> QED BY <1>2 DEF Greatest

LEMMA GreatestOfOne == ASSUME NEW n \in Int  PROVE Greatest({n}) = n
BY DEF Greatest

\* How well a word is known depends on its own cards only.
LEMMA KnowsSame ==
    ASSUME NEW c, NEW d, NEW e, NEW w, \A id \in IdsOf(w) : c[id] = d[id]
    PROVE  Knows(c, e, w) = Knows(d, e, w)
<1> DEFINE live(docs) == {id \in Ids : WordOf[id] = w /\ docs[id] # NoCard /\ docs[id].gen = e}
<1>1. live(c) = live(d)
  BY DEF IdsOf
<1>2. {c[id].level : id \in live(c)} = {d[id].level : id \in live(d)}
  BY <1>1 DEF IdsOf
<1> QED BY <1>1, <1>2 DEF Knows

\* The level at which a word is known that has cards, all current.
LEMMA KnowsAll ==
    ASSUME NEW c, NEW e, NEW w, NEW S \in SUBSET IdsOf(w), S # {},
           \A id \in IdsOf(w) : id \in S <=> c[id] # NoCard,
           \A id \in S : c[id].gen = e
    PROVE  Knows(c, e, w) = Greatest({c[id].level : id \in S})
<1>1. {id \in Ids : WordOf[id] = w /\ c[id] # NoCard /\ c[id].gen = e} = S
  BY DEF IdsOf
<1> QED BY <1>1 DEF Knows

-----------------------------------------------------------------------------
(* The initial states.                                                     *)

LEMMA InitInv == LibInit => LibInv
<1> SUFFICES ASSUME LibInit PROVE LibInv
  OBVIOUS
<1>1. Manifest = {} /\ Applied = {} /\ ~Fenced
  BY DEF LibInit, Manifest, Applied, Fenced, NoPlan
<1>2. cards \in [Ids -> CardDoc]
  BY CardsAssumption DEF LibInit, CardDoc
<1>3. LibShape
  BY <1>2 DEF LibInit, LibShape, TombDoc, NoTomb, Tomb, IdsOf
<1>4. JobShape
  BY <1>1 DEF LibInit, JobShape
<1>5. Phases /\ Progress
  BY <1>1 DEF LibInit, Phases, Progress, NoPlans, NoJob, NoRoot
<1>6. Plans /\ KnownKept /\ Backs
  BY <1>1 DEF LibInit, Plans, KnownKept, Backs, Manifest
<1>7. RunInv(run)
  BY <1>1 DEF LibInit, RunInv, RunShape, RunMode, RunKnows, RunSure, Idle, WorkAts
<1> QED BY <1>3, <1>4, <1>5, <1>6, <1>7 DEF LibInv

-----------------------------------------------------------------------------
(* Steps that change no document.                                          *)

Thrown(r) == IF "mem" \in DOMAIN r THEN [r EXCEPT !.at = "catch"] ELSE Idle

LEMMA IdleInv == RunInv(Idle)
BY DEF RunInv, RunShape, RunMode, RunKnows, RunSure, Idle, WorkAts

LEMMA ThrownInv == ASSUME NEW r, RunInv(r)  PROVE RunInv(Thrown(r))
<1>1. CASE "mem" \notin DOMAIN r
  BY <1>1, IdleInv DEF Thrown
<1>2. CASE "mem" \in DOMAIN r
  <2> DEFINE s == [r EXCEPT !.at = "catch"]
  <2>1. /\ DOMAIN s = DOMAIN r /\ s.at = "catch"
        /\ \A f \in DOMAIN r \ {"at"} : s[f] = r[f]
    BY DEF RunInv, RunShape
  <2>2. r.at \in WorkAts \cup {"catch"}
    BY <1>2 DEF RunInv, RunShape
  <2>3. s.mem = r.mem /\ s.mode = r.mode /\ s.was = r.was
    BY <1>2, <2>1, <2>2 DEF RunInv, RunMode
  <2> HIDE DEF s
  <2>4. RunShape(s)
    BY <1>2, <2>1, <2>2 DEF RunInv, RunShape, WorkAts
  <2>5. RunMode(s)
    BY <2>1, <2>2, <2>3 DEF RunInv, RunMode, WorkAts
  <2>6. RunKnows(s)
    BY <2>1, <2>2, <2>3 DEF RunInv, RunKnows, WorkAts, Mem
  <2>7. RunSure(s)
    BY <2>1, <2>2, <2>3 DEF RunInv, RunSure, WorkAts
  <2> QED BY <1>2, <2>4, <2>5, <2>6, <2>7 DEF RunInv, Thrown, s
<1> QED BY <1>1, <1>2

LEMMA FenceStands == \A f : FenceDoc(f) => f # NoFence
BY DEF FenceDoc, NoFence, FenceFields

LEMMA JobStands == \A j : JobDoc(j) => j # NoJob
BY DEF JobDoc, NoJob

LEMMA SameGroups ==
    ASSUME UNCHANGED <<groups, plans>>, job'.epoch = job.epoch
    PROVE  /\ Manifest' = Manifest /\ Applied' = Applied
           /\ \A w : Merged(w)' = Merged(w) /\ Leftover(w)' = Leftover(w)
BY DEF Manifest, Applied, Merged, Sources, Leftover

LEMMA PlansStand ==
    ASSUME UNCHANGED <<cards, groups, plans>>
    PROVE  /\ (Complete' <=> Complete) /\ (NoPlans' <=> NoPlans)
           /\ (AllPlanned' <=> AllPlanned) /\ (NoneBack' <=> NoneBack)
           /\ Manifest' = Manifest /\ Unsealed' = Unsealed
BY DEF Complete, NoPlans, AllPlanned, NoneBack, Manifest, Unapplied, Unsealed, Sources, Exists

\* While the documents, the groups and the plans stand, so does what holds of them.
LEMMA LibraryStands ==
    ASSUME LibInv, UNCHANGED <<epoch, cards, tombs, taken, groups, plans, known>>,
           job'.epoch = job.epoch
    PROVE  LibShape' /\ Plans' /\ KnownKept'
<1>1. /\ Manifest' = Manifest /\ Applied' = Applied
      /\ \A w : Merged(w)' = Merged(w) /\ Leftover(w)' = Leftover(w)
  BY SameGroups
<1>2. \A w : Knows(cards, epoch, w)' = Knows(cards, epoch, w)
  BY DEF Knows
<1>3. LibShape'
  BY DEF LibInv, LibShape
<1>4. Plans'
  BY <1>1 DEF LibInv, Plans, Exists
<1>5. KnownKept'
  BY <1>1, <1>2 DEF LibInv, KnownKept
<1> QED BY <1>3, <1>4, <1>5

LEMMA BackStands ==
    ASSUME LibInv, UNCHANGED <<cards, tombs, taken, groups, plans, before>>,
           Fenced' => Fenced
    PROVE  Backs'
<1>1. Manifest' = Manifest /\ Applied' = Applied
  BY DEF Manifest, Applied
<1> QED BY <1>1 DEF LibInv, Backs, Noted, Same, Touched, Sources

LEMMA HeadShape ==
    ASSUME LibInv, UNCHANGED <<groups, saved, plans>>,
           job' = NoJob \/ JobDoc(job'), fence' = NoFence \/ FenceDoc(fence')
    PROVE  JobShape'
BY DEF LibInv, JobShape, JobDoc, FenceDoc, Manifest, Sources

\* A step that changes what the job holds in memory and nothing else.
LEMMA MemoryOnly ==
    ASSUME LibInv, UNCHANGED <<libraryVars, jobVars, historyVars>>, RunInv(run')
    PROVE  LibInv'
<1> USE DEF libraryVars, jobVars, historyVars
<1>1. LibShape' /\ Plans' /\ KnownKept' /\ Backs'
  BY LibraryStands, BackStands DEF Fenced
<1>2. JobShape'
  BY HeadShape DEF LibInv, JobShape
<1>3. Phases' /\ Progress'
  BY DEF LibInv, Phases, Progress, Fenced, NoPlans, Manifest, Unapplied, Sources,
         AllPlanned, NoneBack, Complete, Exists
<1>4. RunInv(run)'
  BY DEF RunInv, RunShape, RunMode, RunKnows, RunSure, Fenced, Unsealed, Unapplied,
         Manifest, Complete, Sources, Exists, AllPlanned, Mem
<1> QED BY <1>1, <1>2, <1>3, <1>4 DEF LibInv

LEMMA ThrowStep == LibInv /\ Throw => LibInv'
<1> SUFFICES ASSUME LibInv, Throw  PROVE LibInv'
  OBVIOUS
<1>1. RunInv(run')
  BY ThrownInv DEF Throw, Thrown, LibInv
<1> QED BY <1>1, MemoryOnly DEF Throw

LEMMA CrashStep == LibInv /\ Crash => LibInv'
<1> SUFFICES ASSUME LibInv, Crash  PROVE LibInv'
  OBVIOUS
<1>1. RunInv(run')
  BY IdleInv DEF Crash
<1> QED BY <1>1, MemoryOnly DEF Crash

LEMMA StartStep == LibInv /\ (StartDiscovery \/ StartApply \/ StartRollback) => LibInv'
<1> SUFFICES ASSUME LibInv, StartDiscovery \/ StartApply \/ StartRollback  PROVE LibInv'
  OBVIOUS
<1>1. UNCHANGED <<libraryVars, jobVars, historyVars>>
  BY DEF StartDiscovery, StartApply, StartRollback, Start
<1>2. CASE StartDiscovery
  <2>1. run' = [at |-> "acquire", mode |-> "discover"]
    BY <1>2 DEF StartDiscovery, Start
  <2> QED BY <1>1, <2>1, MemoryOnly
          DEF RunInv, RunShape, RunMode, RunKnows, RunSure, WorkAts
<1>3. ASSUME NEW mode \in {"apply", "rollback"}, Start(mode, "begin"), job # NoJob,
             mode = "rollback" => root.kept
      PROVE  LibInv'
  <2>1. run' = [at |-> "begin", mode |-> mode]
    BY <1>3 DEF Start
  <2>2. RunInv(run')
    BY <1>3, <2>1 DEF RunInv, RunShape, RunMode, RunKnows, RunSure, WorkAts
  <2> QED BY <1>1, <2>2, MemoryOnly
<1>4. root.kept => job # NoJob
  BY DEF LibInv, Phases, NoJob
<1> QED BY <1>2, <1>3, <1>4 DEF StartApply, StartRollback

LEMMA LeaseOutStep == LibInv /\ LeaseOut => LibInv'
<1> SUFFICES ASSUME LibInv, LeaseOut  PROVE LibInv'
  OBVIOUS
<1> USE DEF libraryVars, jobVars, historyVars
<1>1. UNCHANGED <<libraryVars, groups, root, saved, plans, run, historyVars>> /\ run = Idle
  BY DEF LeaseOut
<1>2. /\ job'.phase = job.phase /\ job'.epoch = job.epoch
      /\ job' = NoJob <=> job = NoJob
      /\ job' = NoJob \/ JobDoc(job')
  <2>1. CASE job' = job
    BY <2>1 DEF LibInv, JobShape
  <2>2. CASE job # NoJob /\ job' = [job EXCEPT !.leased = FALSE]
    <3>1. JobDoc(job)
      BY <2>2 DEF LibInv, JobShape
    <3>2. JobDoc(job') /\ job'.phase = job.phase /\ job'.epoch = job.epoch
      BY <2>2, <3>1 DEF JobDoc, JobFields
    <3> QED BY <2>2, <3>2, JobStands
  <2> QED BY <2>1, <2>2 DEF LeaseOut
<1>3. /\ fence'.phase = fence.phase /\ fence'.applied = fence.applied
      /\ fence'.rolled = fence.rolled /\ (Fenced' <=> Fenced)
      /\ fence' = NoFence \/ FenceDoc(fence')
  <2>1. CASE fence' = fence
    BY <2>1 DEF LibInv, JobShape, Fenced
  <2>2. CASE Fenced /\ fence' = [fence EXCEPT !.live = FALSE]
    <3>1. FenceDoc(fence)
      BY <2>2 DEF LibInv, JobShape, Fenced
    <3>2. /\ FenceDoc(fence') /\ fence'.phase = fence.phase
          /\ fence'.applied = fence.applied /\ fence'.rolled = fence.rolled
      BY <2>2, <3>1 DEF FenceDoc, FenceFields
    <3> QED BY <2>2, <3>2, FenceStands DEF Fenced
  <2> QED BY <2>1, <2>2 DEF LeaseOut
<1>4. LibShape' /\ Plans' /\ KnownKept'
  BY <1>1, <1>2, LibraryStands
<1>8. Backs'
  BY <1>1, <1>3, BackStands
<1>5. JobShape'
  BY <1>1, <1>2, <1>3, HeadShape
<1>6. Phases' /\ Progress'
  <2>1. /\ (Complete' <=> Complete) /\ (NoPlans' <=> NoPlans)
        /\ (AllPlanned' <=> AllPlanned) /\ (NoneBack' <=> NoneBack) /\ Manifest' = Manifest
    BY <1>1, PlansStand
  <2>2. Phases'
    BY <1>1, <1>2, <1>3, <2>1 DEF LibInv, Phases
  <2>3. Progress'
    BY <1>1, <1>2, <1>3, <2>1 DEF LibInv, Progress
  <2> QED BY <2>2, <2>3
<1>7. RunInv(run)'
  BY <1>1 DEF RunInv, RunShape, RunMode, RunKnows, RunSure, Idle, WorkAts
<1> QED BY <1>4, <1>5, <1>6, <1>7, <1>8 DEF LibInv

-----------------------------------------------------------------------------
(* The discovery.                                                          *)

\* Before the first apply nothing is merged, whatever the groups are.
LEMMA NothingMerged ==
    ASSUME LibInv, job.phase \in {"none", "discover", "blocked"},
           UNCHANGED <<epoch, cards, tombs, taken, fence, plans, known>>,
           \A w \in Manifest' : groups'[w].applied = FALSE
    PROVE  LibShape' /\ Plans' /\ KnownKept' /\ Backs'
<1>1. ~Fenced /\ ~Fenced' /\ NoPlans /\ \A w \in Manifest : ~groups[w].applied
  BY DEF LibInv, Phases, Fenced
<1>2. Applied' = {} /\ \A w \in Words : plans'[w] = NoPlan
  BY <1>1 DEF Applied, NoPlans
<1>3. \A w \in Words : Knows(cards, epoch, w)' = known'[w]
  <2>1. \A w \in Words : Knows(cards, epoch, w) = known[w]
    BY <1>1 DEF LibInv, KnownKept
  <2>2. \A w : Knows(cards, epoch, w)' = Knows(cards, epoch, w)
    BY DEF Knows
  <2> QED BY <2>1, <2>2
<1>4. LibShape'
  BY DEF LibInv, LibShape
<1>5. Plans'
  BY <1>2 DEF Plans, Manifest
<1> QED BY <1>1, <1>2, <1>3, <1>4, <1>5 DEF Backs, KnownKept

LEMMA AcquireStep == LibInv /\ AcquireLease => LibInv'
<1> SUFFICES ASSUME LibInv, AcquireLease  PROVE LibInv'
  OBVIOUS
<1> USE DEF libraryVars, jobVars, historyVars
<1>1. CASE job # NoJob /\ job.phase # "discover"
  <2>1. UNCHANGED <<libraryVars, jobVars, historyVars>> /\ run' = Idle
    BY <1>1 DEF AcquireLease, Elsewhere
  <2> QED BY <2>1, IdleInv, MemoryOnly
<1>2. CASE Throw
  BY <1>2, ThrowStep
<1>3. CASE ~(job # NoJob /\ job.phase # "discover") /\ ~Throw
  <2>1. /\ job' = IF job # NoJob THEN [job EXCEPT !.leased = TRUE]
                  ELSE [phase |-> "discover", cursor |-> 0, page |-> 0, epoch |-> -1,
                        sources |-> 0, applied |-> NoCount, leased |-> TRUE]
        /\ UNCHANGED <<groups, fence, root, saved, plans>>
        /\ UNCHANGED <<epoch, cards, tombs, taken, known, before>>
        /\ Then(At("read"))
    BY <1>3 DEF AcquireLease, Elsewhere
  <2>2. JobDoc(job') /\ job'.phase = "discover"
    <3>1. CASE job = NoJob
      BY <2>1, <3>1 DEF JobDoc, JobFields
    <3>2. CASE job # NoJob
      <4>1. JobDoc(job) /\ job.phase = "discover"
        BY <1>3, <3>2 DEF LibInv, JobShape
      <4>2. job' = [job EXCEPT !.leased = TRUE]
        BY <2>1, <3>2
      <4> QED BY <4>1, <4>2 DEF JobDoc, JobFields
    <3> QED BY <3>1, <3>2
  <2>3. job.phase \in {"none", "discover", "blocked"}
    BY <1>3 DEF NoJob
  <2>4. ~Fenced /\ NoPlans /\ ~root.kept /\ \A w \in Manifest : ~groups[w].applied
    BY <2>3 DEF LibInv, Phases
  <2>5. LibShape' /\ Plans' /\ KnownKept' /\ Backs'
    BY <2>1, <2>3, <2>4, NothingMerged DEF Manifest, LibInv, JobShape, GroupShape
  <2>6. JobShape'
    BY <2>1, <2>2, HeadShape DEF LibInv, JobShape
  <2>7. Phases' /\ Progress'
    BY <2>1, <2>2, <2>4 DEF Phases, Progress, Fenced, NoPlans, Manifest
  <2>8. run' = [at |-> "read", mode |-> run.mode] \/ run' = Idle
    <3>1. DOMAIN run = {"at", "mode"}
      BY DEF AcquireLease, LibInv, RunInv, RunShape
    <3>2. At("read") = [at |-> "read", mode |-> run.mode]
      BY <3>1 DEF At
    <3> QED BY <2>1, <3>1, <3>2 DEF Then
  <2>9. RunInv(run)'
    BY <2>2, <2>8 DEF RunInv, RunShape, RunMode, RunKnows, RunSure, Idle, WorkAts
  <2> QED BY <2>5, <2>6, <2>7, <2>9 DEF LibInv
<1> QED BY <1>1, <1>2, <1>3

LEMMA ReadStep == LibInv /\ ReadPage => LibInv'
<1> SUFFICES ASSUME LibInv, ReadPage  PROVE LibInv'
  OBVIOUS
<1> DEFINE page == PageAfter(job.cursor)
           docs == [id \in {IdOrder[i] : i \in page} |-> cards[id]]
           memory == [epoch |-> epoch, docs |-> docs,
                      cursor |-> IF page = {} THEN job.cursor ELSE Greatest(page),
                      terminal |-> Cardinality(page) < PageDocs]
           base == [run EXCEPT !.at = "commit"]
<1>1. run' = base @@ memory
  BY DEF ReadPage
<1>2. DOMAIN base = {"at", "mode"} /\ base.at = "commit"
  BY DEF ReadPage, LibInv, RunInv, RunShape
<1>3. DOMAIN memory = {"epoch", "docs", "cursor", "terminal"} /\ memory.docs = docs
  OBVIOUS
<1>4. \A id \in DOMAIN docs : id \in Ids /\ docs[id] \in CardDoc \ {NoCard}
  <2>1. \A i \in page : IdOrder[i] \in Ids /\ Exists(IdOrder[i])
    BY OrderAssumption DEF PageAfter, Rest
  <2> QED BY <2>1 DEF LibInv, LibShape, Exists
<1> HIDE DEF docs, memory, base
<1>5. /\ DOMAIN run' = {"at", "mode", "epoch", "docs", "cursor", "terminal"}
      /\ run'.at = "commit" /\ run'.docs = docs
  BY <1>1, <1>2, <1>3 DEF @@
<1>6. job.phase = "discover"
  BY DEF ReadPage, LibInv, RunInv, RunKnows
<1>7. RunInv(run')
  BY <1>4, <1>5, <1>6 DEF RunInv, RunShape, RunMode, RunKnows, RunSure, WorkAts
<1>8. UNCHANGED <<libraryVars, jobVars, historyVars>>
  BY DEF ReadPage, Elsewhere
<1> QED BY <1>7, <1>8, MemoryOnly

\* A page adds cards of a word to its group.
LEMMA PageShape ==
    ASSUME LibInv, run.at = "commit", NEW w \in WordsOfPage
    PROVE  /\ w \in Words /\ GroupShape(WithPage(w), w) /\ WithPage(w).applied = FALSE
           /\ WithPage(w) # NoGroup
           /\ w \in Manifest => Sources(w) \subseteq DOMAIN WithPage(w).sources
<1> DEFINE old == IF groups[w] = NoGroup THEN <<>> ELSE groups[w].sources
           new == [id \in {x \in DOMAIN run.docs : WordOf[x] = w} |-> run.docs[id]]
           all == new @@ old
<1>1. \A id \in DOMAIN run.docs : id \in Ids /\ run.docs[id] \in CardDoc \ {NoCard}
  BY DEF LibInv, RunInv, RunShape
<1>2. w \in Words
  BY <1>1, IdsAssumption DEF WordsOfPage
<1>3. /\ DOMAIN old \subseteq IdsOf(w)
      /\ \A id \in DOMAIN old : old[id] \in CardDoc \ {NoCard}
      /\ w \in Manifest => DOMAIN old = Sources(w)
  <2>1. CASE groups[w] = NoGroup
    BY <2>1 DEF Manifest
  <2>2. CASE groups[w] # NoGroup
    <3>1. GroupShape(groups[w], w)
      BY <1>2, <2>2 DEF Manifest, LibInv, JobShape
    <3> QED BY <2>2, <3>1 DEF GroupShape, Sources
  <2> QED BY <2>1, <2>2
<1>4. /\ DOMAIN new \subseteq IdsOf(w) /\ DOMAIN new # {}
      /\ \A id \in DOMAIN new : new[id] \in CardDoc \ {NoCard}
  BY <1>1 DEF WordsOfPage, IdsOf
<1> HIDE DEF old, new
<1>5. /\ DOMAIN all = DOMAIN new \cup DOMAIN old
      /\ \A id \in DOMAIN all : all[id] \in CardDoc \ {NoCard}
  BY <1>3, <1>4 DEF @@
<1> HIDE DEF all
<1>6. WithPage(w) = [page |-> job.page + 1, sources |-> all, sealed |-> FALSE,
                     taken |-> NoId, tombs |-> <<>>, applied |-> FALSE]
  BY DEF WithPage, old, new, all
<1>7. DOMAIN WithPage(w) = GroupFields /\ WithPage(w).sources = all
      /\ WithPage(w).sealed = FALSE /\ WithPage(w).applied = FALSE
  BY <1>6 DEF GroupFields
<1>8. WithPage(w) # NoGroup
  BY <1>7 DEF NoGroup, GroupFields
<1>9. GroupShape(WithPage(w), w)
  BY <1>3, <1>4, <1>5, <1>7 DEF GroupShape
<1> QED BY <1>2, <1>3, <1>5, <1>7, <1>8, <1>9

LEMMA CommitStep == LibInv /\ CommitPage => LibInv'
<1> SUFFICES ASSUME LibInv, CommitPage  PROVE LibInv'
  OBVIOUS
<1> USE DEF libraryVars, jobVars, historyVars
<1>1. CASE Throw
  BY <1>1, ThrowStep
<1>2. CASE ~Throw
  <2>1. run.at = "commit" /\ job.phase = "discover" /\ "mem" \notin DOMAIN run
    BY DEF CommitPage, LibInv, RunInv, RunShape, RunKnows, WorkAts
  <2>2. ~Fenced /\ NoPlans /\ ~root.kept /\ \A w \in Manifest : ~groups[w].applied
    BY <2>1 DEF LibInv, Phases
  <2>3. JobDoc(job)
    BY <2>1 DEF LibInv, JobShape, NoJob
  <2>4. UNCHANGED <<epoch, cards, tombs, taken, fence, root, saved, plans, known, before>>
    BY DEF CommitPage, Elsewhere
  <2>5. JobDoc(job') /\ job'.phase \in {"discover", "discovered", "blocked"}
    <3>1. CASE job' = [job EXCEPT !.phase = "blocked", !.leased = FALSE]
      BY <2>3, <3>1 DEF JobDoc, JobFields
    <3>2. CASE job' = [job EXCEPT
                         !.phase = IF run.terminal THEN "discovered" ELSE "discover",
                         !.cursor = run.cursor, !.page = @ + 1, !.epoch = run.epoch,
                         !.sources = @ + Cardinality(DOMAIN run.docs), !.leased = FALSE]
      <4>1. DOMAIN job' = JobFields
        BY <2>3, <3>2 DEF JobDoc
      <4>2. job'.phase = IF run.terminal THEN "discovered" ELSE "discover"
        BY <2>3, <3>2 DEF JobDoc, JobFields
      <4> QED BY <4>1, <4>2 DEF JobDoc
    <3> QED BY <1>2, <3>1, <3>2 DEF CommitPage
  <2>6. \/ groups' = groups
        \/ groups' = [w \in Words |-> IF w \in WordsOfPage THEN WithPage(w) ELSE groups[w]]
    BY <1>2 DEF CommitPage
  <2>7. /\ DOMAIN groups' = Words /\ Manifest \subseteq Manifest'
        /\ \A w \in Manifest' : GroupShape(groups'[w], w) /\ groups'[w].applied = FALSE
        /\ \A w \in Manifest : Sources(w) \subseteq Sources(w)'
    <3>1. DOMAIN groups = Words /\ \A w \in Manifest : GroupShape(groups[w], w)
      BY DEF LibInv, JobShape
    <3>2. CASE groups' = groups
      BY <2>2, <3>1, <3>2 DEF Manifest, Sources, GroupShape
    <3>3. CASE groups' = [w \in Words |-> IF w \in WordsOfPage THEN WithPage(w) ELSE groups[w]]
      <4>1. \A w \in WordsOfPage :
               /\ w \in Words /\ GroupShape(WithPage(w), w) /\ WithPage(w).applied = FALSE
               /\ WithPage(w) # NoGroup
               /\ w \in Manifest => Sources(w) \subseteq DOMAIN WithPage(w).sources
        BY <2>1, PageShape
      <4>2. \A w \in Words : groups'[w] = IF w \in WordsOfPage THEN WithPage(w) ELSE groups[w]
        BY <3>3
      <4>3. \A w \in Manifest : groups[w].applied = FALSE
        BY <2>2, <3>1 DEF GroupShape
      <4> QED BY <3>1, <3>3, <4>1, <4>2, <4>3 DEF Manifest, Sources
    <3> QED BY <2>6, <3>2, <3>3
  <2>8. LibShape' /\ Plans' /\ KnownKept' /\ Backs'
    BY <2>1, <2>4, <2>7, NothingMerged
  <2>9. JobShape'
    <3>1. \A id \in Ids : saved'[id] # NoCopy =>
             WordOf[id] \in Manifest' /\ id \in Sources(WordOf[id])'
      BY <2>4, <2>7 DEF LibInv, JobShape
    <3> QED BY <2>2, <2>4, <2>5, <2>7, <3>1 DEF LibInv, JobShape, Fenced, NoPlans
  <2>10. Phases' /\ Progress'
    BY <2>2, <2>4, <2>5, <2>7 DEF Phases, Progress, Fenced, NoPlans
  <2>11. run' \in {Idle, [at |-> "acquire", mode |-> "discover"]}
    BY <1>2, <2>1 DEF CommitPage, Then
  <2>12. RunInv(run)'
    BY <2>11 DEF RunInv, RunShape, RunMode, RunKnows, RunSure, Idle, WorkAts
  <2> QED BY <2>8, <2>9, <2>10, <2>12 DEF LibInv
<1> QED BY <1>1, <1>2

-----------------------------------------------------------------------------
(* The fence.                                                              *)

\* What the fence is when an apply or a rollback begins.
LEMMA NewFenceIs ==
    ASSUME LibInv, run.at = "begin",
           NEW kind, kind = IF run.mode = "apply" THEN "verify" ELSE "rollback",
           ~FenceRefuses(kind),
           job.phase # IF kind = "verify" THEN "complete" ELSE "rolled-back"
    PROVE  /\ FenceDoc(NewFence(kind)) /\ job # NoJob /\ epoch = job.epoch
           /\ NewFence(kind).phase = "rollback" <=> kind = "rollback"
           /\ Fenced => /\ NewFence(kind).applied = fence.applied
                        /\ NewFence(kind).rolled = fence.rolled
                        /\ kind = "verify" => /\ fence.phase # "rollback" /\ fence.applied \in Nat
                                              /\ fence.phase = "verify" => fence.applied = 0
                                              /\ NewFence(kind).phase =
                                                   IF fence.applied > 0 THEN "apply" ELSE "verify"
                        /\ kind = "rollback" => fence.phase = "rollback" \/ fence.applied # 0
           /\ ~Fenced => /\ NewFence(kind).rolled = 0
                         /\ kind = "verify" => /\ NewFence(kind).applied = 0 /\ NoPlans
                                               /\ NewFence(kind).phase = "verify"
                                               /\ job.phase = "discovered"
                         /\ kind = "rollback" => AllPlanned /\ NoneBack /\ job.phase = "complete"
<1> DEFINE new == NewFence(kind)
<1>1. /\ job.phase \notin {"discover", "blocked"} /\ epoch = job.epoch
      /\ Fenced => /\ fence.phase = "rollback" => kind = "rollback"
                   /\ fence.phase # "rollback" /\ kind = "rollback" => fence.applied # 0
      /\ ~Fenced => JobIsFor(kind)
  BY DEF FenceRefuses
<1>2. /\ run.mode \in {"apply", "rollback"} /\ job # NoJob
      /\ run.mode = "rollback" => root.kept
  BY DEF LibInv, RunInv, RunMode, RunKnows
<1>3. CASE Fenced
  <2>1. FenceDoc(fence)
    BY <1>3 DEF LibInv, JobShape, Fenced
  <2>2. fence.phase # "rollback" => fence.applied \in Nat
    BY <1>3 DEF LibInv, Phases
  <2>3. fence.phase = "verify" => fence.applied = 0
    BY <1>3 DEF LibInv, Phases
  <2> DEFINE phase == IF fence.phase = "rollback" \/ (kind = "rollback" /\ fence.applied > 0)
                      THEN "rollback" ELSE IF fence.applied > 0 THEN "apply" ELSE kind
  <2>4. new = [fence EXCEPT !.phase = phase, !.rev = 1, !.live = TRUE]
    BY <1>3, <2>1 DEF NewFence, FenceDoc, FenceFields
  <2>5. phase \in {"verify", "apply", "rollback"} /\ (phase = "rollback" <=> kind = "rollback")
    BY <1>1, <1>2, <1>3, <2>2
  <2>6. kind = "verify" => phase = IF fence.applied > 0 THEN "apply" ELSE "verify"
    BY <1>1, <1>3
  <2> HIDE DEF phase
  <2>7. /\ DOMAIN new = FenceFields /\ new.phase = phase /\ new.rev = 1
        /\ new.applied = fence.applied /\ new.rolled = fence.rolled
    BY <2>1, <2>4 DEF FenceDoc, FenceFields
  <2>8. FenceDoc(new)
    BY <2>1, <2>5, <2>7 DEF FenceDoc
  <2>9. kind = "verify" => fence.phase # "rollback"
    BY <1>1, <1>3
  <2> HIDE DEF new
  <2> QED BY <1>1, <1>2, <1>3, <2>2, <2>3, <2>5, <2>6, <2>7, <2>8, <2>9 DEF new
<1>4. CASE ~Fenced
  <2>1. job.phase = IF kind = "verify" THEN "discovered" ELSE "complete"
    <3>1. job.phase \in {"discovered", "complete", "rolled-back"}
      BY <1>1, <1>2, <1>4, JobStands DEF LibInv, Phases, JobShape, JobDoc
    <3>2. root.kept => job.phase # "discovered"
      BY <1>4 DEF LibInv, Progress
    <3>3. kind \in {"verify", "rollback"} /\ (kind = "rollback" => root.kept)
      BY <1>2
    <3> QED BY <1>1, <1>4, <3>1, <3>2, <3>3 DEF JobIsFor
  <2>2. /\ kind = "verify" => NoPlans
        /\ kind = "rollback" => AllPlanned /\ NoneBack
    BY <1>2, <1>4, <2>1 DEF LibInv, Progress
  <2>3. /\ DOMAIN new = FenceFields /\ new.phase = kind /\ new.rev = 1 /\ new.rolled = 0
        /\ kind = "verify" => new.applied = 0
    BY <1>4 DEF NewFence, FenceFields
  <2>4. FenceDoc(new)
    BY <1>2, <2>3 DEF FenceDoc
  <2> HIDE DEF new
  <2> QED BY <1>1, <1>2, <1>4, <2>1, <2>2, <2>3, <2>4 DEF new
<1> QED BY <1>3, <1>4

LEMMA BeginStep ==
    ASSUME LibInv, BeginApply \/ BeginRollback
    PROVE  LibInv'
<1> USE DEF libraryVars, jobVars, historyVars
<1>1. run.at = "begin" /\ run.mode \in {"apply", "rollback"} /\ DOMAIN run = {"at", "mode"}
  BY DEF BeginApply, BeginRollback, LibInv, RunInv, RunShape
<1>2. PICK kind : kind = IF run.mode = "apply" THEN "verify" ELSE "rollback"
  OBVIOUS
<1>3. CASE job.phase = IF kind = "verify" THEN "complete" ELSE "rolled-back"
  <2>1. UNCHANGED <<libraryVars, jobVars, historyVars>> /\ run' = Idle
    BY <1>1, <1>2, <1>3 DEF BeginApply, BeginRollback
  <2> QED BY <2>1, IdleInv, MemoryOnly
<1>4. CASE /\ job.phase # IF kind = "verify" THEN "complete" ELSE "rolled-back"
           /\ FenceRefuses(kind)
  <2>1. Throw
    BY <1>1, <1>2, <1>4 DEF BeginApply, BeginRollback, Begin
  <2> QED BY <2>1, ThrowStep
<1>5. CASE /\ job.phase # IF kind = "verify" THEN "complete" ELSE "rolled-back"
           /\ ~FenceRefuses(kind)
  <2>0. Begin(kind)
    BY <1>1, <1>2, <1>5 DEF BeginApply, BeginRollback
  <2>1. /\ FenceDoc(fence') /\ job # NoJob /\ epoch = job.epoch
        /\ fence'.phase = "rollback" <=> kind = "rollback"
        /\ Fenced => /\ fence'.applied = fence.applied
                     /\ fence'.rolled = fence.rolled
                     /\ kind = "verify" => /\ fence.phase # "rollback" /\ fence.applied \in Nat
                                           /\ fence.phase = "verify" => fence.applied = 0
                                           /\ fence'.phase =
                                                IF fence.applied > 0 THEN "apply" ELSE "verify"
                     /\ kind = "rollback" => fence.phase = "rollback" \/ fence.applied # 0
        /\ ~Fenced => /\ fence'.rolled = 0
                      /\ kind = "verify" => /\ fence'.applied = 0 /\ NoPlans
                                            /\ fence'.phase = "verify"
                                            /\ job.phase = "discovered"
                      /\ kind = "rollback" => AllPlanned /\ NoneBack /\ job.phase = "complete"
    <3>1. fence' = NewFence(kind)
      BY <1>5, <2>0 DEF Begin
    <3> QED BY <1>1, <1>2, <1>5, <3>1, NewFenceIs
  <2>2. /\ job' = [job EXCEPT !.phase = fence'.phase, !.applied = fence'.applied]
        /\ UNCHANGED <<groups, root, saved, plans, epoch, cards, tombs, taken, known>>
        /\ before' = IF kind = "verify" /\ ~Fenced
                     THEN [cards |-> cards, tombs |-> tombs, taken |-> taken] ELSE before
        /\ \/ run' = [run EXCEPT !.at = IF kind = "verify" THEN "manifest" ELSE "root"]
                        @@ [mem |-> Mem(fence'), was |-> job.phase]
           \/ run' = Idle
    BY <1>5, <2>0 DEF Begin
  <2>3. JobDoc(job') /\ job'.phase = fence'.phase /\ job'.epoch = job.epoch
    <3>1. JobDoc(job)
      BY <2>1 DEF LibInv, JobShape
    <3> QED BY <2>1, <2>2, <3>1 DEF JobDoc, JobFields, FenceDoc
  <2>4. Fenced' /\ job' # NoJob
    BY <2>1, <2>3, FenceStands, JobStands DEF Fenced
  <2>5. LibShape' /\ Plans' /\ KnownKept' /\ JobShape'
    <3>1. LibShape' /\ Plans' /\ KnownKept'
      BY <2>2, <2>3, LibraryStands
    <3>2. JobShape'
      BY <2>1, <2>2, <2>3, HeadShape
    <3> QED BY <3>1, <3>2
  <2>6. Backs'
    <3>1. CASE Fenced
      BY <2>2, <3>1, BackStands
    <3>2. CASE ~Fenced /\ kind = "verify"
      <4>1. Applied' = {}
        BY <2>1, <2>2, <3>2 DEF Applied, NoPlans
      <4>2. \A w \in Manifest' : Same(w)'
        BY <2>2, <3>2 DEF Same
      <4> QED BY <4>1, <4>2 DEF Backs
    <3>3. CASE ~Fenced /\ kind = "rollback"
      <4>1. before' = before /\ Applied' = Applied /\ Manifest' = Manifest
        BY <2>2, <3>3 DEF Applied, Manifest
      <4>2. Manifest \subseteq Applied
        BY <2>1, <3>3 DEF AllPlanned, NoneBack, Applied, Manifest
      <4>3. \A w \in Applied : Noted(w)'
        BY <2>2, <4>1 DEF LibInv, Backs, Noted, Touched, Sources
      <4> QED BY <4>1, <4>2, <4>3 DEF Backs
    <3> QED BY <1>2, <3>1, <3>2, <3>3
  <2>7. /\ (Complete' <=> Complete) /\ (NoPlans' <=> NoPlans)
        /\ (AllPlanned' <=> AllPlanned) /\ (NoneBack' <=> NoneBack)
    BY <2>2, PlansStand
  <2>8. Phases'
    BY <1>2, <2>1, <2>2, <2>3, <2>4 DEF LibInv, Phases, FenceDoc
  <2>9. Progress'
    <3>1. kind \in {"verify", "rollback"} /\ (kind = "verify" <=> fence'.phase # "rollback")
      BY <1>2, <2>1
    <3>2. CASE Fenced
      <4>1. fence.phase \in {"verify", "apply", "rollback"}
        BY <3>2 DEF LibInv, JobShape, Fenced, FenceDoc
      <4>2. fence'.phase = "apply" /\ fence'.applied # 0 => Complete
        BY <2>1, <3>1, <3>2, <4>1 DEF LibInv, Progress
      <4>3. fence'.rolled = 0 => NoneBack
        BY <2>1, <3>2 DEF LibInv, Progress
      <4>4. fence'.phase # "rollback" /\ fence'.applied = 0 => NoPlans
        BY <2>1, <3>1, <3>2 DEF LibInv, Progress
      <4>5. fence'.phase = "rollback" /\ fence'.applied = 0 => AllPlanned
        BY <2>1, <3>1, <3>2 DEF LibInv, Progress
      <4> QED BY <2>4, <2>7, <4>2, <4>3, <4>4, <4>5 DEF Progress
    <3>3. CASE ~Fenced
      <4>1. NoneBack
        BY <2>1, <3>1, <3>3 DEF NoPlans, NoneBack
      <4> QED BY <2>1, <2>4, <2>7, <3>1, <3>3, <4>1 DEF Progress
    <3> QED BY <3>2, <3>3
  <2>10. RunInv(run)'
    <3>1. CASE run' = Idle
      BY <3>1 DEF RunInv, RunShape, RunMode, RunKnows, RunSure, Idle, WorkAts
    <3>2. CASE run' = [run EXCEPT !.at = IF kind = "verify" THEN "manifest" ELSE "root"]
                        @@ [mem |-> Mem(fence'), was |-> job.phase]
      <4>1. /\ DOMAIN run' = {"at", "mode", "mem", "was"} /\ run'.mode = run.mode
            /\ run'.at = IF kind = "verify" THEN "manifest" ELSE "root"
            /\ run'.mem = Mem(fence') /\ run'.was = job.phase
        BY <1>1, <3>2 DEF @@
      <4>2. kind = "verify" <=> run'.mode = "apply"
        BY <1>1, <1>2, <4>1
      <4>3. job.phase = "complete" => ~Fenced
        BY DEF LibInv, Phases, JobShape, FenceDoc, Fenced
      <4>4. RunShape(run)' /\ RunMode(run)'
        BY <1>1, <4>1, <4>2 DEF RunShape, RunMode, WorkAts
      <4>5. RunKnows(run)'
        BY <1>1, <1>2, <2>1, <2>4, <4>1, <4>2 DEF RunKnows, WorkAts
      <4>6. RunSure(run)'
        BY <1>1, <1>2, <2>1, <2>7, <4>1, <4>2, <4>3 DEF RunSure, WorkAts
      <4> QED BY <4>4, <4>5, <4>6 DEF RunInv
    <3> QED BY <2>2, <3>1, <3>2
  <2> QED BY <2>5, <2>6, <2>8, <2>9, <2>10 DEF LibInv
<1> QED BY <1>3, <1>4, <1>5

LEMMA CatchStep == LibInv /\ Catch => LibInv'
<1> SUFFICES ASSUME LibInv, Catch  PROVE LibInv'
  OBVIOUS
<1> USE DEF libraryVars, jobVars, historyVars
<1>1. /\ run.at = "catch" /\ run' = Idle /\ run.mode \in {"apply", "rollback"}
      /\ UNCHANGED <<groups, saved, plans, epoch, cards, tombs, taken, known, before>>
  BY DEF Catch, Elsewhere, LibInv, RunInv, RunMode
<1>2. CASE UNCHANGED <<fence, job, root>>
  BY <1>1, <1>2, IdleInv, MemoryOnly DEF Catch, Elsewhere
<1>3. CASE ~UNCHANGED <<fence, job, root>>
  <2>1. /\ Clears /\ fence' = NoFence
        /\ run.mode = "apply" => /\ job' = [job EXCEPT !.phase = "discovered", !.applied = 0]
                                 /\ root' = NoRoot
        /\ run.mode = "rollback" => /\ job' = [job EXCEPT !.phase = "complete"]
                                    /\ run.was = "complete" \/ run.mem.applied = 0
    BY <1>1, <1>3 DEF Catch
  <2>2. Fenced /\ ~Fenced' /\ fence.rev = run.mem.rev
    BY <2>1 DEF Clears, Fenced
  <2>3. JobDoc(job') /\ job'.epoch = job.epoch
        /\ job'.phase = IF run.mode = "apply" THEN "discovered" ELSE "complete"
    <3>1. JobDoc(job)
      BY <2>2 DEF LibInv, JobShape, Phases
    <3> QED BY <1>1, <2>1, <3>1 DEF JobDoc, JobFields
  <2>4. run.mode = "apply" => NoPlans
    BY <1>1, <2>1, <2>2 DEF LibInv, RunInv, RunKnows, Progress, Clears
  <2>5. run.mode = "rollback" => AllPlanned /\ NoneBack
    <3> SUFFICES ASSUME run.mode = "rollback"  PROVE AllPlanned /\ NoneBack
      OBVIOUS
    <3>1. fence.phase = "rollback" /\ fence.rolled = 0
      BY <1>1, <2>1, <2>2 DEF LibInv, RunInv, RunKnows, Clears
    <3>2. CASE run.was = "complete"
      BY <1>1, <2>2, <3>1, <3>2 DEF LibInv, RunInv, RunSure, Progress
    <3>3. CASE run.mem.applied = 0
      <4>1. run.mem = Mem(fence)
        BY <1>1, <2>2 DEF LibInv, RunInv, RunKnows
      <4>2. fence.applied = 0
        BY <3>3, <4>1 DEF Mem
      <4> QED BY <2>2, <3>1, <4>2 DEF LibInv, Progress
    <3> QED BY <2>1, <3>2, <3>3
  <2>6. LibShape' /\ Plans' /\ KnownKept'
    BY <1>1, <2>3, LibraryStands
  <2>7. Backs'
    BY <1>1, <2>2, BackStands
  <2>8. JobShape'
    BY <1>1, <2>1, <2>3, HeadShape
  <2>9. (AllPlanned' <=> AllPlanned) /\ (NoneBack' <=> NoneBack) /\ (NoPlans' <=> NoPlans)
    BY <1>1, PlansStand
  <2>10. Phases' /\ Progress'
    BY <1>1, <2>1, <2>2, <2>3, <2>4, <2>5, <2>9 DEF Phases, Progress, NoRoot
  <2>11. RunInv(run)'
    BY <1>1 DEF RunInv, RunShape, RunMode, RunKnows, RunSure, Idle, WorkAts
  <2> QED BY <2>6, <2>7, <2>8, <2>10, <2>11 DEF LibInv
<1> QED BY <1>2, <1>3

-----------------------------------------------------------------------------
(* A job at work.                                                          *)

\* A job at work holds the fence, and knows what is on it.
LEMMA AtWork ==
    ASSUME LibInv, run.at \in WorkAts
    PROVE  /\ Fenced /\ FenceDoc(fence) /\ JobDoc(job) /\ run.mem = Mem(fence)
           /\ {"at", "mode", "mem", "was"} \subseteq DOMAIN run
           /\ run.mode \in {"apply", "rollback"} /\ epoch = job.epoch
           /\ job.phase = fence.phase /\ (fence.phase = "rollback" <=> run.mode = "rollback")
<1>1. Fenced /\ run.mem = Mem(fence)
  BY DEF LibInv, RunInv, RunKnows
<1>2. /\ {"at", "mode", "mem", "was"} \subseteq DOMAIN run
      /\ run.mode \in {"apply", "rollback"}
  BY DEF LibInv, RunInv, RunShape, RunMode
<1>3. FenceDoc(fence) /\ JobDoc(job) /\ epoch = job.epoch /\ job.phase = fence.phase
  BY <1>1 DEF LibInv, JobShape, Fenced, Phases
<1>4. fence.phase = "rollback" <=> run.mode = "rollback"
  BY <1>1 DEF LibInv, RunInv, RunKnows
<1> QED BY <1>1, <1>2, <1>3, <1>4

\* It goes on to another place.
LEMMA MoveOn ==
    ASSUME LibInv, run.at \in WorkAts, "word" \notin DOMAIN run,
           NEW at \in WorkAts,
           at \in {"manifest", "copy", "merge"} => run.mode = "apply",
           at \in {"sealed", "restore"} => run.mode = "rollback",
           at \in {"root", "copy", "merge"} /\ run.mode = "apply" => Complete
    PROVE  RunInv(At(at))
<1> DEFINE r == At(at)
<1>1. /\ DOMAIN r = DOMAIN run /\ r.at = at
      /\ r.mem = run.mem /\ r.mode = run.mode /\ r.was = run.was
  BY AtWork DEF At
<1> HIDE DEF r
<1>2. RunShape(r) /\ RunMode(r)
  BY <1>1, AtWork DEF RunShape, RunMode, WorkAts
<1>3. RunKnows(r)
  BY <1>1, AtWork DEF RunKnows, WorkAts
<1>4. RunSure(r)
  BY <1>1 DEF RunSure, WorkAts, LibInv, RunInv
<1> QED BY <1>2, <1>3, <1>4 DEF RunInv, r

LEMMA ThenInv ==
    ASSUME RunInv(run), NEW next, RunInv(next), Then(next)  PROVE RunInv(run')
BY ThrownInv DEF Then, Thrown

\* A step that leaves the fence, the groups and the plans alone.
LEMMA RunStands ==
    ASSUME UNCHANGED <<cards, job, fence, groups, plans>>, root.kept => root'.kept, RunInv(run')
    PROVE  RunInv(run)'
BY DEF RunInv, RunShape, RunMode, RunKnows, RunSure, Fenced, Unsealed, Unapplied,
       Manifest, Complete, Sources, Exists, AllPlanned, Mem

LEMMA CheckStep == LibInv /\ CheckManifest => LibInv'
<1> SUFFICES ASSUME LibInv, CheckManifest  PROVE LibInv'
  OBVIOUS
<1> USE DEF libraryVars, jobVars, historyVars
<1>1. run.at = "manifest" /\ run.at \in WorkAts /\ "word" \notin DOMAIN run
  BY DEF CheckManifest, LibInv, RunInv, RunShape, WorkAts
<1>2. CASE Throw
  BY <1>2, ThrowStep
<1>3. CASE ~Throw
  <2>1. /\ run' = At("root") /\ UNCHANGED <<libraryVars, jobVars, historyVars>>
        /\ run.mem.applied # 0 \/ Present = Listed
    BY <1>3 DEF CheckManifest, Elsewhere
  <2>2. Complete
    <3>1. CASE run.mem.applied # 0
      <4>1. Fenced /\ fence.applied # 0 /\ fence.phase # "rollback" /\ FenceDoc(fence)
        BY <1>1, <3>1, AtWork DEF Mem, LibInv, RunInv, RunMode
      <4> QED BY <4>1 DEF LibInv, Phases, Progress, FenceDoc
    <3>2. CASE Present = Listed
      <4>1. {x \in Ids : Exists(x)} = UNION {Sources(w) : w \in Manifest}
        BY <3>2 DEF Present, Listed
      <4>2. \A w \in Manifest : Sources(w) \subseteq IdsOf(w)
        BY DEF LibInv, JobShape, GroupShape, Sources
      <4> QED BY <4>1, <4>2 DEF Complete, IdsOf
    <3> QED BY <2>1, <3>1, <3>2
  <2>3. RunInv(At("root"))
    BY <1>1, <2>2, MoveOn DEF WorkAts
  <2> QED BY <2>1, <2>3, MemoryOnly
<1> QED BY <1>2, <1>3

LEMMA PreflightStep == LibInv /\ Preflight => LibInv'
<1> SUFFICES ASSUME LibInv, Preflight  PROVE LibInv'
  OBVIOUS
<1>1. run.at = "sealed" /\ run.at \in WorkAts /\ "word" \notin DOMAIN run /\ run.mode = "rollback"
  BY DEF Preflight, LibInv, RunInv, RunShape, RunMode, WorkAts
<1>2. CASE Throw
  BY <1>2, ThrowStep
<1>3. CASE ~Throw
  <2>1. run' = At("restore") /\ UNCHANGED <<libraryVars, jobVars, historyVars>>
    BY <1>3 DEF Preflight, Elsewhere, libraryVars, historyVars
  <2>2. RunInv(At("restore"))
    BY <1>1, MoveOn DEF WorkAts
  <2> QED BY <2>1, <2>2, MemoryOnly
<1> QED BY <1>2, <1>3

LEMMA RootStep == LibInv /\ EnsureRoot => LibInv'
<1> SUFFICES ASSUME LibInv, EnsureRoot  PROVE LibInv'
  OBVIOUS
<1> USE DEF libraryVars, jobVars, historyVars
<1>1. run.at = "root" /\ run.at \in WorkAts /\ "word" \notin DOMAIN run
  BY DEF EnsureRoot, LibInv, RunInv, RunShape, WorkAts
<1>2. /\ Fenced /\ FenceDoc(fence) /\ JobDoc(job) /\ run.mode \in {"apply", "rollback"}
      /\ job.phase = fence.phase
  BY <1>1, AtWork
<1>3. UNCHANGED <<job, groups, fence, saved, plans, epoch, cards, tombs, taken, known, before>>
  BY DEF EnsureRoot, Elsewhere
<1>4. root.kept => root' = root
  BY DEF EnsureRoot
<1>5. RunInv(run')
  <2> DEFINE at == IF run.mode = "rollback" THEN "sealed"
                   ELSE IF run.mem.applied = 0 THEN "copy" ELSE "merge"
  <2>1. run.mode = "apply" => Complete
    BY <1>1 DEF LibInv, RunInv, RunSure
  <2>2. RunInv(At(at))
    BY <1>1, <1>2, <2>1, MoveOn DEF WorkAts
  <2>3. Then(At(at))
    BY DEF EnsureRoot
  <2> HIDE DEF at
  <2> QED BY <2>2, <2>3, ThenInv DEF LibInv
<1>6. LibShape' /\ Plans' /\ KnownKept'
  BY <1>3, LibraryStands
<1>7. Backs'
  BY <1>3, BackStands DEF Fenced
<1>8. JobShape'
  BY <1>2, <1>3, HeadShape
<1>9. Phases' /\ Progress'
  <2>1. /\ (Complete' <=> Complete) /\ (NoPlans' <=> NoPlans)
        /\ (AllPlanned' <=> AllPlanned) /\ (NoneBack' <=> NoneBack)
    BY <1>3, PlansStand
  <2>2. Phases'
    BY <1>2, <1>3 DEF LibInv, Phases, Fenced, FenceDoc
  <2>3. Progress'
    BY <1>2, <1>3, <2>1 DEF LibInv, Progress, Fenced
  <2> QED BY <2>2, <2>3
<1>10. RunInv(run)'
  BY <1>3, <1>4, <1>5, RunStands
<1> QED BY <1>6, <1>7, <1>8, <1>9, <1>10 DEF LibInv

LEMMA CopyStep == ASSUME LibInv, NEW w \in Words, CopySources(w)  PROVE LibInv'
<1> USE DEF libraryVars, jobVars, historyVars
<1>1. CASE Throw
  BY <1>1, ThrowStep
<1>2. CASE ~Throw
  <2>1. /\ run.at \in {"copy", "merge"} /\ run.at \in WorkAts /\ "word" \notin DOMAIN run
        /\ w \in Unsealed
    BY DEF CopySources, WorkAts
  <2>2. /\ saved' = [id \in Ids |->
                       IF id \in Sources(w) /\ saved[id] = NoCopy
                       THEN [sealed |-> FALSE, card |-> cards[id]] ELSE saved[id]]
        /\ Then(run @@ [word |-> w])
        /\ UNCHANGED <<job, groups, fence, root, plans, epoch, cards, tombs, taken, known, before>>
    BY <1>2 DEF CopySources, Elsewhere
  <2>3. RunInv(run')
    <3> DEFINE r == run @@ [word |-> w]
    <3>1. /\ DOMAIN r = DOMAIN run \cup {"word"} /\ r.word = w
          /\ \A f \in DOMAIN run : r[f] = run[f]
      BY <2>1 DEF @@
    <3>2. r.at = run.at /\ r.mem = run.mem /\ r.mode = run.mode /\ r.was = run.was
      BY <2>1, <3>1, AtWork
    <3> HIDE DEF r
    <3>3. RunShape(r) /\ RunMode(r)
      BY <2>1, <3>1, <3>2 DEF LibInv, RunInv, RunShape, RunMode, WorkAts
    <3>4. RunKnows(r) /\ RunSure(r)
      BY <2>1, <3>1, <3>2 DEF LibInv, RunInv, RunKnows, RunSure, WorkAts
    <3>5. RunInv(r) /\ Then(r)
      BY <2>2, <3>3, <3>4 DEF RunInv, r
    <3> QED BY <3>5, ThenInv DEF LibInv
  <2>4. LibShape' /\ Plans' /\ KnownKept'
    BY <2>2, LibraryStands
  <2>5. Backs'
    BY <2>2, BackStands DEF Fenced
  <2>6. JobShape'
    <3>1. w \in Manifest /\ Sources(w) \subseteq IdsOf(w)
      BY <2>1 DEF Unsealed, LibInv, JobShape, GroupShape, Sources
    <3>2. \A id \in Ids : saved'[id] # NoCopy =>
             WordOf[id] \in Manifest /\ id \in Sources(WordOf[id])
      <4>1. \A id \in Ids : saved[id] # NoCopy =>
               WordOf[id] \in Manifest /\ id \in Sources(WordOf[id])
        BY DEF LibInv, JobShape
      <4>2. \A id \in Sources(w) : WordOf[id] = w
        BY <3>1 DEF IdsOf
      <4> QED BY <2>2, <3>1, <4>1, <4>2
    <3>3. DOMAIN saved' = Ids
      BY <2>2
    <3>4. Manifest' = Manifest /\ \A v : Sources(v)' = Sources(v)
      BY <2>2 DEF Manifest, Sources
    <3> QED BY <2>2, <3>2, <3>3, <3>4 DEF LibInv, JobShape
  <2>7. Phases' /\ Progress'
    <3>1. /\ (Complete' <=> Complete) /\ (NoPlans' <=> NoPlans) /\ Manifest' = Manifest
          /\ (AllPlanned' <=> AllPlanned) /\ (NoneBack' <=> NoneBack)
      BY <2>2, PlansStand
    <3>2. Phases'
      BY <2>2, <3>1 DEF LibInv, Phases, Fenced
    <3>3. Progress'
      BY <2>2, <3>1 DEF LibInv, Progress, Fenced
    <3> QED BY <3>2, <3>3
  <2>8. RunInv(run)'
    BY <2>2, <2>3, RunStands
  <2> QED BY <2>4, <2>5, <2>6, <2>7, <2>8 DEF LibInv
<1> QED BY <1>1, <1>2

\* Sealing writes into a group what was there before; its cards it leaves alone.
LEMMA SealStep == LibInv /\ SealCopy => LibInv'
<1> SUFFICES ASSUME LibInv, SealCopy  PROVE LibInv'
  OBVIOUS
<1> USE DEF libraryVars, jobVars, historyVars
<1>1. CASE Throw
  BY <1>1, ThrowStep
<1>2. CASE ~Throw
  <2>1. PICK w : w = run.word
    OBVIOUS
  <2>2. /\ groups' = [groups EXCEPT ![w].taken = taken[w], ![w].tombs = TombsOf(w),
                                    ![w].sealed = TRUE]
        /\ saved' = [id \in Ids |->
                       IF id \in Sources(w) THEN [saved[id] EXCEPT !.sealed = TRUE]
                       ELSE saved[id]]
        /\ Then(Without(run, "word"))
        /\ UNCHANGED <<job, fence, root, plans, epoch, cards, tombs, taken, known, before>>
    BY <1>2, <2>1 DEF SealCopy, Elsewhere
  <2>3. /\ "word" \in DOMAIN run /\ run.at \in {"copy", "merge"} /\ run.at \in WorkAts
        /\ w \in Unsealed
    BY <2>1 DEF SealCopy, LibInv, RunInv, RunShape, RunSure, WorkAts
  <2>4. /\ w \in Words /\ w \in Manifest /\ ~groups[w].sealed /\ plans[w] = NoPlan
        /\ GroupShape(groups[w], w)
    BY <2>3 DEF Unsealed, Manifest, LibInv, JobShape, Plans
  <2> DEFINE g == [groups[w] EXCEPT !.taken = taken[w], !.tombs = TombsOf(w), !.sealed = TRUE]
  <2>5. groups' = [groups EXCEPT ![w] = g]
    BY <2>2
  <2>6. /\ DOMAIN g = GroupFields /\ g.sources = groups[w].sources
        /\ g.applied = groups[w].applied /\ g.taken = taken[w] /\ g.tombs = TombsOf(w)
        /\ g.sealed = TRUE
    BY <2>4 DEF GroupShape, GroupFields
  <2> HIDE DEF g
  <2>7. GroupShape(g, w) /\ g # NoGroup
    <3>1. taken[w] \in IdsOf(w) \cup {NoId}
      BY <2>4 DEF LibInv, LibShape
    <3>2. TombsOf(w) \in [DOMAIN g.sources \cup {Canon[w]} -> TombDoc]
      <4>1. Touched(w) = DOMAIN g.sources \cup {Canon[w]}
        BY <2>6 DEF Touched, Sources
      <4>2. Touched(w) \subseteq Ids /\ tombs \in [Ids -> TombDoc]
        BY <2>4, IdsAssumption DEF Touched, Sources, GroupShape, IdsOf, LibInv, LibShape
      <4> QED BY <4>1, <4>2 DEF TombsOf
    <3>3. g # NoGroup
      BY <2>6 DEF NoGroup, GroupFields
    <3> QED BY <2>4, <2>6, <3>1, <3>2, <3>3 DEF GroupShape
  <2>8. /\ DOMAIN groups' = Words /\ groups'[w] = g
        /\ \A v \in Words \ {w} : groups'[v] = groups[v]
    BY <2>4, <2>5 DEF LibInv, JobShape
  <2>9. /\ Manifest' = Manifest
        /\ \A v \in Words : Sources(v)' = Sources(v)
        /\ \A v \in Words : Touched(v)' = Touched(v)
        /\ \A v \in Words : groups'[v].sources = groups[v].sources
        /\ \A v \in Words : groups'[v].applied = groups[v].applied
    <3>1. \A v \in Words : groups'[v] # NoGroup <=> groups[v] # NoGroup
      BY <2>4, <2>7, <2>8 DEF Manifest
    <3>2. \A v \in Words : groups'[v].sources = groups[v].sources
      BY <2>6, <2>8
    <3>3. \A v \in Words : groups'[v].applied = groups[v].applied
      BY <2>6, <2>8
    <3>4. Manifest' = Manifest
      BY <3>1 DEF Manifest
    <3>5. \A v \in Words : Sources(v)' = Sources(v)
      BY <3>2 DEF Sources
    <3>6. \A v \in Words : Touched(v)' = Touched(v)
      BY <3>5 DEF Touched
    <3> QED BY <3>2, <3>3, <3>4, <3>5, <3>6
  <2>10. /\ Applied' = Applied /\ Unapplied' = Unapplied /\ Unsealed' = Unsealed \ {w}
         /\ \A v \in Words : Merged(v)' = Merged(v) /\ (Leftover(v)' <=> Leftover(v))
    <3>1. \A v \in Words : Merged(v)' = Merged(v)
      <4> SUFFICES ASSUME NEW v \in Words  PROVE Merged(v)' = Merged(v)
        OBVIOUS
      <4>1. groups'[v].sources = groups[v].sources
        BY <2>9
      <4>2. Sources(v)' = Sources(v)
        BY <2>9
      <4>3. job' = job
        BY <2>2
      <4>4. {groups'[v].sources[id] : id \in Sources(v)'}
              = {groups[v].sources[id] : id \in Sources(v)}
        BY <4>1, <4>2
      <4> QED BY <4>3, <4>4 DEF Merged
    <3>2. \A v \in Words : Leftover(v)' <=> Leftover(v)
      BY <2>2, <2>9 DEF Leftover
    <3>3. Applied' = Applied /\ Unapplied' = Unapplied
      BY <2>2, <2>9 DEF Applied, Unapplied, Manifest
    <3>4. Unsealed' = Unsealed \ {w}
      BY <2>6, <2>8, <2>9 DEF Unsealed, Manifest
    <3> QED BY <3>1, <3>2, <3>3, <3>4
  <2>11. LibShape' /\ KnownKept'
    <3>1. \A v : Knows(cards, epoch, v)' = Knows(cards, epoch, v)
      BY <2>2 DEF Knows
    <3>2. KnownKept'
      BY <2>2, <2>9, <2>10, <3>1 DEF LibInv, KnownKept
    <3> QED BY <2>2, <3>2 DEF LibInv, LibShape
  <2>12. JobShape'
    <3>1. \A v \in Manifest' : GroupShape(groups'[v], v)
      BY <2>7, <2>8, <2>9 DEF LibInv, JobShape, Manifest
    <3>2. \A id \in Ids : saved'[id] # NoCopy =>
             WordOf[id] \in Manifest /\ id \in Sources(WordOf[id])
      <4>1. \A id \in Ids : saved[id] # NoCopy =>
               WordOf[id] \in Manifest /\ id \in Sources(WordOf[id])
        BY DEF LibInv, JobShape
      <4>2. \A id \in Sources(w) : WordOf[id] = w
        BY <2>4 DEF IdsOf, GroupShape, Sources
      <4> QED BY <2>2, <2>4, <4>1, <4>2
    <3>3. \A id \in Ids : saved'[id] # NoCopy =>
             WordOf[id] \in Manifest' /\ id \in Sources(WordOf[id])'
      <4>1. \A id \in Ids : WordOf[id] \in Words
        BY IdsAssumption
      <4> QED BY <2>9, <3>2, <4>1
    <3>4. DOMAIN saved' = Ids /\ DOMAIN groups' = Words
      BY <2>2, <2>8
    <3> QED BY <2>2, <3>1, <3>3, <3>4 DEF LibInv, JobShape
  <2>13. /\ (Complete' <=> Complete) /\ (NoPlans' <=> NoPlans)
         /\ (AllPlanned' <=> AllPlanned) /\ (NoneBack' <=> NoneBack)
    <3>1. \A v \in Unapplied : v \in Words
      BY DEF Unapplied, Manifest
    <3> QED BY <2>2, <2>9, <2>10, <3>1 DEF Complete, NoPlans, AllPlanned, NoneBack, Exists
  <2>14. Phases' /\ Progress'
    <3>1. Phases'
      <4>1. Manifest' = Manifest /\ \A v \in Manifest : groups'[v].applied = groups[v].applied
        BY <2>9 DEF Manifest
      <4> QED BY <2>2, <2>13, <4>1 DEF LibInv, Phases, Fenced
    <3>2. Progress'
      BY <2>2, <2>13 DEF LibInv, Progress, Fenced
    <3> QED BY <3>1, <3>2
  <2>15. Plans'
    <3>1. \A v \in Manifest' : groups'[v].applied <=> plans'[v] # NoPlan
      BY <2>2, <2>9 DEF LibInv, Plans, Manifest
    <3>2. \A v \in Words : plans'[v] # NoPlan =>
             v \in Manifest' /\ groups'[v].sealed /\ plans'[v].card = Merged(v)'
      BY <2>2, <2>4, <2>8, <2>9, <2>10 DEF LibInv, Plans
    <3>3. \A v \in Applied' : /\ taken'[v] = Canon[v]
                              /\ \A id \in IdsOf(v) : Exists(id)' => id = Canon[v]
      BY <2>2, <2>10 DEF LibInv, Plans, Exists
    <3> QED BY <3>1, <3>2, <3>3 DEF Plans
  <2>16. Backs'
    <3>1. \A v \in Applied : Noted(v)'
      <4>1. \A v \in Applied : v \in Words /\ v # w
        BY <2>4 DEF Applied, NoPlan
      <4>2. \A v \in Applied : Noted(v)
        BY DEF LibInv, Backs
      <4> QED BY <2>2, <2>8, <2>9, <4>1, <4>2 DEF Noted
    <3>2. \A v \in Words : Same(v)' <=> Same(v)
      BY <2>2, <2>9 DEF Same
    <3>3. \A v \in Manifest : v \in Words
      BY DEF Manifest
    <3> QED BY <2>2, <2>9, <2>10, <3>1, <3>2, <3>3 DEF LibInv, Backs, Fenced
  <2>17. RunInv(run)'
    <3>1. PICK r : r = Without(run, "word")
      OBVIOUS
    <3>2. /\ DOMAIN r = DOMAIN run \ {"word"}
          /\ \A f \in DOMAIN r : r[f] = run[f]
      BY <3>1 DEF Without
    <3>3. r.at = run.at /\ r.mem = run.mem /\ r.mode = run.mode /\ r.was = run.was
      BY <2>3, <3>2, AtWork
    <3>4. RunShape(r) /\ RunMode(r)
      BY <2>3, <3>2, <3>3 DEF LibInv, RunInv, RunShape, RunMode, WorkAts
    <3>5. run' = r \/ run' = Thrown(run)
      BY <2>2, <3>1 DEF Then, Thrown
    <3>6. CASE run' = r
      <4>1. RunKnows(run)'
        BY <2>2, <2>3, <3>3, <3>6 DEF LibInv, RunInv, RunKnows, Fenced, WorkAts, Mem
      <4>2. RunSure(run)'
        BY <2>2, <2>3, <2>13, <3>2, <3>3, <3>6 DEF LibInv, RunInv, RunSure, Fenced, WorkAts
      <4>3. RunShape(run)' /\ RunMode(run)'
        BY <3>4, <3>6 DEF RunShape, RunMode
      <4> QED BY <4>1, <4>2, <4>3 DEF RunInv
    <3>7. CASE run' = Thrown(run)
      <4>1. RunInv(run')
        BY <3>7, ThrownInv DEF LibInv
      <4>2. run'.at = "catch"
        BY <2>3, <3>7, AtWork DEF Thrown
      <4>3. RunShape(run)' /\ RunMode(run)'
        BY <4>1 DEF RunInv, RunShape, RunMode
      <4>4. RunKnows(run)'
        BY <2>2, <4>1, <4>2 DEF RunInv, RunKnows, Fenced, WorkAts, Mem
      <4>5. RunSure(run)'
        BY <2>2, <2>13, <4>1, <4>2 DEF RunInv, RunSure, Fenced, WorkAts
      <4> QED BY <4>3, <4>4, <4>5 DEF RunInv
    <3> QED BY <3>5, <3>6, <3>7
  <2> QED BY <2>11, <2>12, <2>14, <2>15, <2>16, <2>17 DEF LibInv
<1> QED BY <1>1, <1>2

LEMMA EnterStep == LibInv /\ EnterApply => LibInv'
<1> SUFFICES ASSUME LibInv, EnterApply  PROVE LibInv'
  OBVIOUS
<1> USE DEF libraryVars, jobVars, historyVars
<1>1. /\ run.at = "copy" /\ run.at \in WorkAts /\ "word" \notin DOMAIN run
      /\ run.mode = "apply" /\ Complete
  BY DEF EnterApply, LibInv, RunInv, RunMode, RunSure, WorkAts
<1>2. UNCHANGED <<groups, root, saved, plans, epoch, cards, tombs, taken, profile, known, before>>
  BY DEF EnterApply, Elsewhere
<1>3. CASE fence.phase = "apply"
  <2>1. run' = At("merge") /\ UNCHANGED <<libraryVars, jobVars, historyVars>>
    BY <1>2, <1>3 DEF EnterApply, At
  <2>2. RunInv(At("merge"))
    BY <1>1, MoveOn DEF WorkAts
  <2> QED BY <2>1, <2>2, MemoryOnly
<1>4. CASE fence.phase # "apply"
  <2>1. /\ fence' = [fence EXCEPT !.phase = "apply", !.rev = @ + 1]
        /\ job' = [job EXCEPT !.phase = "apply"]
        /\ Then([run EXCEPT !.at = "merge", !.mem = Mem(fence')])
    BY <1>4 DEF EnterApply
  <2>2. /\ Fenced /\ FenceDoc(fence) /\ JobDoc(job) /\ run.mem = Mem(fence)
        /\ epoch = job.epoch /\ fence.phase # "rollback"
    BY <1>1, AtWork
  <2>3. /\ FenceDoc(fence') /\ fence'.phase = "apply" /\ fence'.rev = fence.rev + 1
        /\ fence'.applied = fence.applied /\ fence'.rolled = fence.rolled
    BY <2>1, <2>2 DEF FenceDoc, FenceFields
  <2>4. JobDoc(job') /\ job'.phase = "apply" /\ job'.epoch = job.epoch
    BY <2>1, <2>2 DEF JobDoc, JobFields
  <2>5. Fenced' /\ job' # NoJob
    BY <2>3, <2>4, FenceStands, JobStands DEF Fenced
  <2>6. /\ (Complete' <=> Complete) /\ (NoPlans' <=> NoPlans) /\ Manifest' = Manifest
        /\ (AllPlanned' <=> AllPlanned) /\ (NoneBack' <=> NoneBack)
    BY <1>2, PlansStand
  <2>7. LibShape' /\ Plans' /\ KnownKept'
    BY <1>2, <2>4, LibraryStands
  <2>8. Backs'
    BY <1>2, <2>2, BackStands
  <2>9. JobShape'
    BY <1>2, <2>3, <2>4, HeadShape
  <2>10. Phases'
    BY <1>2, <2>2, <2>3, <2>4, <2>5 DEF LibInv, Phases
  <2>11. Progress'
    BY <1>1, <1>2, <2>2, <2>3, <2>4, <2>5, <2>6 DEF LibInv, Progress
  <2>12. RunInv(run)'
    <3>1. CASE run' = [run EXCEPT !.at = "merge", !.mem = Mem(fence')]
      <4>1. /\ DOMAIN run' = DOMAIN run /\ run'.at = "merge" /\ run'.mem = Mem(fence')
            /\ run'.mode = "apply" /\ run'.was = run.was
        BY <1>1, <3>1, AtWork
      <4>2. RunShape(run)' /\ RunMode(run)'
        BY <1>1, <4>1, AtWork DEF LibInv, RunInv, RunShape, RunMode, WorkAts
      <4>3. RunKnows(run)'
        BY <2>3, <2>5, <4>1 DEF RunKnows, WorkAts
      <4>4. RunSure(run)'
        BY <1>1, <2>6, <4>1 DEF RunSure, WorkAts
      <4> QED BY <4>2, <4>3, <4>4 DEF RunInv
    <3>2. CASE run' = Thrown(run)
      <4>1. /\ DOMAIN run' = DOMAIN run /\ run'.at = "catch" /\ run'.mem = Mem(fence)
            /\ run'.mode = "apply" /\ run'.was = run.was
        BY <1>1, <3>2, AtWork DEF Thrown
      <4>2. RunShape(run)' /\ RunMode(run)'
        BY <1>1, <4>1, AtWork DEF LibInv, RunInv, RunShape, RunMode, WorkAts
      <4>3. RunKnows(run)'
        <5>1. fence'.rev # run'.mem.rev
          BY <2>2, <2>3, <4>1 DEF FenceDoc, Mem
        <5> QED BY <2>3, <4>1, <5>1 DEF RunKnows, WorkAts
      <4>4. RunSure(run)'
        BY <4>1 DEF RunSure, WorkAts
      <4> QED BY <4>2, <4>3, <4>4 DEF RunInv
    <3> QED BY <2>1, <3>1, <3>2 DEF Then, Thrown
  <2> QED BY <2>7, <2>8, <2>9, <2>10, <2>11, <2>12 DEF LibInv
<1> QED BY <1>3, <1>4

\* A job at work that lifts the fence for good.
LEMMA LiftStep ==
    ASSUME LibInv, run.at \in WorkAts, "word" \notin DOMAIN run,
           UNCHANGED <<epoch, cards, tombs, taken, groups, saved, plans, known, before>>,
           fence' = NoFence, Then(Idle),
           JobDoc(job'), job'.epoch = job.epoch,
           \/ job'.phase = "rolled-back"
           \/ job'.phase = "complete" /\ AllPlanned /\ NoneBack
    PROVE  LibInv'
<1>1. ~Fenced'
  BY DEF Fenced
<1>2. LibShape' /\ Plans' /\ KnownKept'
  BY LibraryStands
<1>3. Backs'
  BY <1>1, BackStands
<1>4. JobShape'
  BY HeadShape
<1>5. (AllPlanned' <=> AllPlanned) /\ (NoneBack' <=> NoneBack)
  BY PlansStand
<1>6. Phases' /\ Progress'
  BY <1>1, <1>5 DEF Phases, Progress
<1>7. RunInv(run)'
  <2>1. CASE run' = Idle
    BY <2>1 DEF RunInv, RunShape, RunMode, RunKnows, RunSure, Idle, WorkAts
  <2>2. CASE run' = Thrown(run)
    <3>1. RunInv(run') /\ run'.at = "catch"
      BY <2>2, ThrownInv, AtWork DEF Thrown, LibInv
    <3>2. RunShape(run)' /\ RunMode(run)'
      BY <3>1 DEF RunInv, RunShape, RunMode
    <3>3. RunKnows(run)' /\ RunSure(run)'
      BY <1>1, <3>1 DEF RunKnows, RunSure, WorkAts
    <3> QED BY <3>2, <3>3 DEF RunInv
  <2> QED BY <2>1, <2>2 DEF Then, Thrown
<1> QED BY <1>2, <1>3, <1>4, <1>6, <1>7 DEF LibInv

LEMMA FinishStep == LibInv /\ FinishApply => LibInv'
<1> SUFFICES ASSUME LibInv, FinishApply  PROVE LibInv'
  OBVIOUS
<1>1. run.at = "merge" /\ run.at \in WorkAts /\ "word" \notin DOMAIN run /\ Unapplied = {}
  BY DEF FinishApply, WorkAts
<1>2. CASE Throw
  BY <1>2, ThrowStep
<1>3. CASE ~Throw
  <2>1. /\ job' = [job EXCEPT !.phase = "complete", !.applied = fence.applied, !.leased = FALSE]
        /\ fence' = NoFence /\ Then(Idle)
        /\ UNCHANGED <<epoch, cards, tombs, taken, groups, saved, plans, known, before>>
    BY <1>3 DEF FinishApply, historyVars
  <2>2. /\ Fenced /\ JobDoc(job) /\ (fence.phase = "rollback" <=> run.mode = "rollback")
        /\ run.mode = "apply"
    BY <1>1, AtWork DEF LibInv, RunInv, RunMode
  <2>3. JobDoc(job') /\ job'.phase = "complete" /\ job'.epoch = job.epoch
    BY <2>1, <2>2 DEF JobDoc, JobFields
  <2>4. AllPlanned
    BY <1>1 DEF AllPlanned, Unapplied, LibInv, Plans
  <2>5. NoneBack
    BY <2>2 DEF LibInv, Phases, Progress
  <2> QED BY <1>1, <2>1, <2>3, <2>4, <2>5, LiftStep
<1> QED BY <1>2, <1>3

LEMMA FinishBackStep == LibInv /\ FinishRollback => LibInv'
<1> SUFFICES ASSUME LibInv, FinishRollback  PROVE LibInv'
  OBVIOUS
<1>1. run.at = "restore" /\ run.at \in WorkAts /\ "word" \notin DOMAIN run
  BY DEF FinishRollback, LibInv, RunInv, RunShape, WorkAts
<1>2. /\ job' = [job EXCEPT !.phase = "rolled-back", !.leased = FALSE]
      /\ fence' = NoFence /\ Then(Idle)
      /\ UNCHANGED <<epoch, cards, tombs, taken, groups, saved, plans, known, before>>
  BY DEF FinishRollback, historyVars
<1>3. JobDoc(job)
  BY <1>1, AtWork
<1>4. JobDoc(job') /\ job'.phase = "rolled-back" /\ job'.epoch = job.epoch
  BY <1>2, <1>3 DEF JobDoc, JobFields
<1> QED BY <1>1, <1>2, <1>4, LiftStep

-----------------------------------------------------------------------------
(* One word after another.                                                 *)

LEMMA ImageFinite ==
    ASSUME NEW f, IsFiniteSet(DOMAIN f)  PROVE IsFiniteSet({f[x] : x \in DOMAIN f})
<1> DEFINE S == DOMAIN f
           T == {f[x] : x \in S}
           g == [x \in S |-> f[x]]
<1>1. g \in Surjection(S, T)
  BY DEF Surjection
<1> HIDE DEF T, g
<1>2. IsFiniteSet(T)
  BY <1>1, FS_Surjection
<1> QED BY <1>2 DEF T

LEMMA TouchedIds ==
    ASSUME LibInv, NEW w \in Manifest
    PROVE  /\ w \in Words /\ GroupShape(groups[w], w)
           /\ Sources(w) # {} /\ Sources(w) \subseteq IdsOf(w)
           /\ Canon[w] \in IdsOf(w) /\ Touched(w) \subseteq IdsOf(w)
           /\ \A id \in Sources(w) : groups[w].sources[id] \in CardDoc \ {NoCard}
<1>1. w \in Words /\ GroupShape(groups[w], w)
  BY DEF LibInv, JobShape, Manifest
<1>2. Canon[w] \in IdsOf(w)
  BY <1>1, IdsAssumption DEF IdsOf
<1> QED BY <1>1, <1>2 DEF GroupShape, Touched, Sources

\* The card that the cards of a word are merged into.
LEMMA MergedIs ==
    ASSUME LibInv, NEW w \in Manifest, job.epoch \in Nat
    PROVE  /\ Merged(w) \in CardDoc \ {NoCard} /\ Merged(w).gen = job.epoch
           /\ Merged(w).level = Greatest({groups[w].sources[id].level : id \in Sources(w)})
<1> DEFINE S == Sources(w)
           rev == [id \in S |-> Later(groups[w].sources[id].rev, 0)]
           level == [id \in S |-> groups[w].sources[id].level]
           revs == {rev[id] : id \in S}
           levels == {level[id] : id \in S}
<1>1. S # {} /\ IsFiniteSet(S) /\ \A id \in S : groups[w].sources[id] \in CardDoc
  <2>1. S \subseteq Ids
    BY TouchedIds DEF IdsOf
  <2> QED BY <2>1, TouchedIds, FS_Subset, CardsAssumption
<1>2. \A id \in S : rev[id] \in Nat /\ level[id] \in Nat
  BY <1>1 DEF CardDoc, Later
<1>3. IsFiniteSet(revs) /\ IsFiniteSet(levels)
  <2>1. DOMAIN rev = S /\ DOMAIN level = S
    OBVIOUS
  <2> HIDE DEF rev, level
  <2> QED BY <1>1, <2>1, ImageFinite
<1>4. /\ revs # {} /\ \A n \in revs : n \in Nat
      /\ levels # {} /\ \A n \in levels : n \in Nat
  BY <1>1, <1>2
<1>5. Merged(w) = Card(job.epoch, Greatest(revs) + 1, Greatest(levels))
  <2>1. {Later(c.rev, 0) : c \in {groups[w].sources[id] : id \in S}} = revs
    OBVIOUS
  <2>2. {c.level : c \in {groups[w].sources[id] : id \in S}} = levels
    OBVIOUS
  <2> HIDE DEF revs, levels
  <2> QED BY <2>1, <2>2 DEF Merged
<1>6. levels = {groups[w].sources[id].level : id \in S}
  OBVIOUS
<1> HIDE DEF revs, levels
<1>7. Greatest(revs) \in Nat /\ Greatest(levels) \in Nat
  BY <1>3, <1>4, GreatestIs
<1> QED BY <1>5, <1>6, <1>7 DEF Card, CardDoc, NoCard

\* A word is known by its merged card as well as by the cards merged into it.
LEMMA MergedKnown ==
    ASSUME LibInv, NEW w \in Manifest, ~Leftover(w), job.epoch \in Nat,
           NEW c, NEW d,
           \A id \in IdsOf(w) : c[id] # NoCard => id \in Sources(w),
           \A id \in Sources(w) : c[id] = groups[w].sources[id],
           \A id \in IdsOf(w) : d[id] # NoCard => id = Canon[w],
           d[Canon[w]] = Merged(w)
    PROVE  Knows(c, job.epoch, w) = Knows(d, job.epoch, w)
<1>1. Knows(c, job.epoch, w) = Greatest({c[id].level : id \in Sources(w)})
  <2>1. \A id \in IdsOf(w) : id \in Sources(w) <=> c[id] # NoCard
    BY TouchedIds
  <2>2. \A id \in Sources(w) : c[id].gen = job.epoch
    BY DEF Leftover
  <2>3. Sources(w) \in SUBSET IdsOf(w) /\ Sources(w) # {}
    BY TouchedIds
  <2> QED BY <2>1, <2>2, <2>3, KnowsAll
<1>2. Knows(d, job.epoch, w) = Greatest({d[id].level : id \in {Canon[w]}})
  <2>1. PICK S : S = {Canon[w]}
    OBVIOUS
  <2>2. \A id \in IdsOf(w) : id \in S <=> d[id] # NoCard
    BY <2>1, MergedIs
  <2>3. \A id \in S : d[id].gen = job.epoch
    BY <2>1, MergedIs
  <2>4. S \in SUBSET IdsOf(w) /\ S # {}
    BY <2>1, TouchedIds
  <2>5. Knows(d, job.epoch, w) = Greatest({d[id].level : id \in S})
    BY <2>2, <2>3, <2>4, KnowsAll
  <2> QED BY <2>1, <2>5
<1>3. {c[id].level : id \in Sources(w)} = {groups[w].sources[id].level : id \in Sources(w)}
  OBVIOUS
<1>4. Greatest({d[id].level : id \in {Canon[w]}}) = Merged(w).level
  <2>1. {d[id].level : id \in {Canon[w]}} = {Merged(w).level}
    OBVIOUS
  <2>2. Merged(w).level \in Int
    <3>1. Merged(w) \in CardDoc
      BY MergedIs
    <3> QED BY <3>1 DEF CardDoc
  <2> QED BY <2>1, <2>2, GreatestOfOne
<1> QED BY <1>1, <1>2, <1>3, <1>4, MergedIs

\* A step of one word leaves the others as they are.
LEMMA OtherWords ==
    ASSUME LibInv, NEW w \in Manifest,
           \A id \in Ids \ Touched(w) : cards'[id] = cards[id] /\ tombs'[id] = tombs[id],
           \A v \in Words \ {w} : /\ taken'[v] = taken[v] /\ plans'[v] = plans[v]
                                  /\ groups'[v] = groups[v],
           groups'[w].sources = groups[w].sources, groups'[w] # NoGroup,
           job'.epoch = job.epoch, UNCHANGED <<epoch, before>>
    PROVE  /\ Manifest' = Manifest
           /\ \A v \in Words : /\ Sources(v)' = Sources(v) /\ Touched(v)' = Touched(v)
                               /\ Merged(v)' = Merged(v) /\ (Leftover(v)' <=> Leftover(v))
           /\ \A v \in Words \ {w} :
                 /\ Knows(cards, epoch, v)' = Knows(cards, epoch, v)
                 /\ \A id \in IdsOf(v) : cards'[id] = cards[id] /\ tombs'[id] = tombs[id]
           /\ \A v \in Manifest \ {w} : (Same(v)' <=> Same(v)) /\ (Noted(v)' <=> Noted(v))
<1>1. Manifest' = Manifest
  BY DEF Manifest
<1>2. \A v \in Words : groups'[v].sources = groups[v].sources
  OBVIOUS
<1>3. \A v \in Words : Sources(v)' = Sources(v) /\ Touched(v)' = Touched(v)
  BY <1>2 DEF Sources, Touched
<1>4. ASSUME NEW v \in Words  PROVE Merged(v)' = Merged(v)
  <2>1. {groups'[v].sources[id] : id \in Sources(v)'} = {groups[v].sources[id] : id \in Sources(v)}
    BY <1>2, <1>3
  <2> QED BY <2>1 DEF Merged
<1>5. \A v \in Words : Leftover(v)' <=> Leftover(v)
  BY <1>2, <1>3 DEF Leftover
<1>6. \A v \in Words \ {w} : \A id \in IdsOf(v) : cards'[id] = cards[id] /\ tombs'[id] = tombs[id]
  BY TouchedIds DEF IdsOf
<1>7. ASSUME NEW v \in Words \ {w}  PROVE Knows(cards, epoch, v)' = Knows(cards, epoch, v)
  <2>1. \A id \in IdsOf(v) : cards'[id] = cards[id]
    BY <1>6
  <2>2. Knows(cards', epoch, v) = Knows(cards, epoch, v)
    BY <2>1, KnowsSame
  <2> QED BY <2>2
<1>8. ASSUME NEW v \in Manifest \ {w}  PROVE (Same(v)' <=> Same(v)) /\ (Noted(v)' <=> Noted(v))
  <2>1. /\ v \in Words /\ groups'[v] = groups[v] /\ taken'[v] = taken[v]
        /\ Sources(v)' = Sources(v) /\ Touched(v)' = Touched(v)
        /\ \A id \in Touched(v) : cards'[id] = cards[id] /\ tombs'[id] = tombs[id]
    BY <1>3, <1>6, TouchedIds DEF Manifest
  <2>2. Same(v)' <=> Same(v)
    BY <2>1 DEF Same
  <2>3. Noted(v)' <=> Noted(v)
    BY <2>1 DEF Noted
  <2> QED BY <2>2, <2>3
<1> QED BY <1>1, <1>3, <1>4, <1>5, <1>6, <1>7, <1>8

LEMMA ApplyStep == ASSUME LibInv, NEW w \in Words, ApplyGroup(w)  PROVE LibInv'
<1> USE DEF libraryVars, jobVars, historyVars
<1>1. CASE Throw
  BY <1>1, ThrowStep
<1>2. CASE ~Throw
  <2>1. /\ run.at = "merge" /\ run.at \in WorkAts /\ "word" \notin DOMAIN run
        /\ run.mode = "apply" /\ Complete /\ w \in Unapplied /\ w \in Manifest
        /\ groups[w].sealed
    BY DEF ApplyGroup, LibInv, RunInv, RunMode, RunSure, WorkAts, Unapplied
  <2>2. /\ cards' = [id \in Ids |-> IF id = Canon[w] THEN Merged(w)
                                   ELSE IF id \in Losers(w) THEN NoCard ELSE cards[id]]
        /\ tombs' = TombsAfter(w) @@ tombs
        /\ taken' = [taken EXCEPT ![w] = Canon[w]]
        /\ plans' = [plans EXCEPT ![w] = [status |-> "applied", card |-> Merged(w),
                                          tombs |-> TombsAfter(w)]]
        /\ groups' = [groups EXCEPT ![w].applied = TRUE]
        /\ fence' = [fence EXCEPT !.phase = "apply", !.rev = @ + 1, !.applied = @ + 1]
        /\ job' = [job EXCEPT !.phase = "apply", !.applied = fence.applied + 1]
        /\ Then([run EXCEPT !.mem = Mem(fence')])
        /\ UNCHANGED <<epoch, root, saved, known, before>>
    BY <1>2 DEF ApplyGroup
  <2>3. ~Conflict(w)
    BY <1>2 DEF ApplyGroup
  <2>4. /\ Fenced /\ FenceDoc(fence) /\ JobDoc(job) /\ run.mem = Mem(fence)
        /\ epoch = job.epoch /\ job.epoch \in Nat /\ fence.phase # "rollback"
        /\ fence.applied \in Nat /\ fence.rolled = 0
    BY <2>1, AtWork DEF LibInv, LibShape, Phases
  <2>5. /\ FenceDoc(fence') /\ fence'.phase = "apply" /\ fence'.rev = fence.rev + 1
        /\ fence'.applied = fence.applied + 1 /\ fence'.rolled = 0
    BY <2>2, <2>4 DEF FenceDoc, FenceFields
  <2>6. JobDoc(job') /\ job'.phase = "apply" /\ job'.epoch = job.epoch
    BY <2>2, <2>4 DEF JobDoc, JobFields
  <2>7. Fenced' /\ job' # NoJob
    BY <2>5, <2>6, FenceStands, JobStands DEF Fenced
  <2>8. /\ w \in Words /\ GroupShape(groups[w], w)
        /\ Sources(w) # {} /\ Sources(w) \subseteq IdsOf(w)
        /\ Canon[w] \in IdsOf(w) /\ Touched(w) \subseteq IdsOf(w)
        /\ \A id \in Sources(w) : groups[w].sources[id] \in CardDoc \ {NoCard}
    BY <2>1, TouchedIds
  <2>9. plans[w] = NoPlan /\ w \notin Applied
    BY <2>1 DEF Unapplied, LibInv, Plans, Applied
  <2>10. /\ Merged(w) \in CardDoc \ {NoCard} /\ Merged(w).gen = job.epoch
    BY <2>1, <2>4, MergedIs
  <2>11. /\ DOMAIN groups' = Words /\ groups'[w] # NoGroup
         /\ \A v \in Words \ {w} : groups'[v] = groups[v]
         /\ groups'[w].sources = groups[w].sources /\ groups'[w].sealed = groups[w].sealed
         /\ groups'[w].tombs = groups[w].tombs /\ groups'[w].taken = groups[w].taken
         /\ groups'[w].applied = TRUE /\ GroupShape(groups'[w], w)
    <3> DEFINE g == [groups[w] EXCEPT !.applied = TRUE]
    <3>1. groups' = [groups EXCEPT ![w] = g] /\ DOMAIN groups = Words
      BY <2>2 DEF LibInv, JobShape
    <3>2. /\ DOMAIN g = GroupFields /\ g.sources = groups[w].sources
          /\ g.sealed = groups[w].sealed /\ g.tombs = groups[w].tombs
          /\ g.taken = groups[w].taken /\ g.applied = TRUE
      BY <2>8 DEF GroupShape, GroupFields
    <3> HIDE DEF g
    <3>3. GroupShape(g, w)
      BY <2>8, <3>2 DEF GroupShape
    <3>4. g # NoGroup
      BY <3>2 DEF NoGroup, GroupFields
    <3>5. DOMAIN groups' = Words /\ groups'[w] = g /\ \A v \in Words \ {w} : groups'[v] = groups[v]
      BY <2>8, <3>1
    <3> QED BY <3>2, <3>3, <3>4, <3>5
  <2>12. /\ DOMAIN plans' = Words
         /\ \A v \in Words \ {w} : plans'[v] = plans[v] /\ taken'[v] = taken[v]
         /\ DOMAIN plans'[w] = PlanFields /\ plans'[w].status = "applied"
         /\ plans'[w].card = Merged(w) /\ plans'[w] # NoPlan
         /\ DOMAIN taken' = Words /\ taken'[w] = Canon[w]
    <3>1. DOMAIN plans = Words /\ DOMAIN taken = Words
      BY DEF LibInv, LibShape, JobShape
    <3>2. plans'[w] = [status |-> "applied", card |-> Merged(w), tombs |-> TombsAfter(w)]
      BY <2>2, <3>1
    <3>3. plans'[w].status = "applied" /\ DOMAIN plans'[w] = PlanFields
      BY <3>2 DEF PlanFields
    <3>4. plans'[w] # NoPlan
      BY <3>3 DEF NoPlan
    <3> QED BY <2>2, <3>1, <3>2, <3>3, <3>4
  <2>13. /\ DOMAIN tombs' = Ids
         /\ \A id \in Ids \ Touched(w) : cards'[id] = cards[id] /\ tombs'[id] = tombs[id]
         /\ \A id \in Touched(w) : tombs'[id] = TombsAfter(w)[id]
    <3>1. DOMAIN TombsAfter(w) = Touched(w)
      BY DEF TombsAfter
    <3>2. DOMAIN tombs = Ids /\ Touched(w) \subseteq Ids
      BY <2>8 DEF LibInv, LibShape, IdsOf
    <3>3. \A id \in Ids \ Touched(w) : cards'[id] = cards[id]
      BY <2>2 DEF Touched, Losers
    <3> QED BY <2>2, <3>1, <3>2, <3>3 DEF @@
  <2>14. /\ Manifest' = Manifest
         /\ \A v \in Words : /\ Sources(v)' = Sources(v) /\ Touched(v)' = Touched(v)
                             /\ Merged(v)' = Merged(v) /\ (Leftover(v)' <=> Leftover(v))
         /\ \A v \in Words \ {w} :
               /\ Knows(cards, epoch, v)' = Knows(cards, epoch, v)
               /\ \A id \in IdsOf(v) : cards'[id] = cards[id] /\ tombs'[id] = tombs[id]
         /\ \A v \in Manifest \ {w} : (Same(v)' <=> Same(v)) /\ (Noted(v)' <=> Noted(v))
    BY <2>1, <2>2, <2>6, <2>11, <2>12, <2>13, OtherWords
  <2>15. Applied' = Applied \cup {w} /\ Unapplied' = Unapplied \ {w} /\ Unsealed' = Unsealed
    <3>1. Applied' = Applied \cup {w}
      BY <2>8, <2>12 DEF Applied
    <3>2. Unapplied' = Unapplied \ {w}
      BY <2>8, <2>11, <2>14 DEF Unapplied, Manifest
    <3>3. Unsealed' = Unsealed
      BY <2>8, <2>11, <2>14 DEF Unsealed, Manifest
    <3> QED BY <3>1, <3>2, <3>3
  \* The documents of the word, before and after.
  <2>16. /\ \A id \in IdsOf(w) : cards[id] # NoCard => id \in Sources(w)
         /\ \A id \in Sources(w) : cards[id] = groups[w].sources[id]
    BY <2>1, <2>3 DEF Complete, Exists, Conflict, SourcesStand
  <2>17. /\ \A id \in IdsOf(w) : cards'[id] # NoCard => id = Canon[w]
         /\ cards'[Canon[w]] = Merged(w)
    <3>1. \A id \in IdsOf(w) : cards'[id] = IF id = Canon[w] THEN Merged(w)
                                            ELSE IF id \in Losers(w) THEN NoCard ELSE cards[id]
      BY <2>2 DEF IdsOf
    <3> QED BY <2>8, <2>16, <3>1 DEF Losers
  <2>18. LibShape'
    <3>1. cards' \in [Ids -> CardDoc]
      BY <2>2, <2>10 DEF LibInv, LibShape, CardDoc, NoCard, Card
    <3>2. tombs' \in [Ids -> TombDoc]
      <4>1. \A id \in Touched(w) : TombsAfter(w)[id] \in TombDoc
        <5>1. ASSUME NEW id \in Losers(w)
              PROVE  Tomb(job.epoch, Later(groups[w].sources[id].rev + 1, tombs[id].rev)) \in TombDoc
          <6>1. groups[w].sources[id].rev \in Int /\ tombs[id].rev \in Int
            BY <2>8 DEF Losers, CardDoc, LibInv, LibShape, TombDoc, IdsOf
          <6> QED BY <2>4, <6>1 DEF Tomb, TombDoc, Later
        <5>2. NoTomb \in TombDoc
          BY DEF NoTomb, Tomb, TombDoc
        <5> QED BY <5>1, <5>2 DEF TombsAfter
      <4>2. \A id \in Ids : tombs'[id] \in TombDoc
        BY <2>13, <4>1 DEF LibInv, LibShape
      <4>3. tombs' = [id \in Ids |-> tombs'[id]]
        BY <2>2, <2>13 DEF @@
      <4> QED BY <4>2, <4>3
    <3>3. \A v \in Words : taken'[v] \in IdsOf(v) \cup {NoId}
      BY <2>8, <2>12 DEF LibInv, LibShape
    <3> QED BY <2>2, <2>12, <3>1, <3>2, <3>3 DEF LibInv, LibShape
  <2>19. JobShape'
    <3>1. \A v \in Manifest' : GroupShape(groups'[v], v)
      BY <2>11, <2>14 DEF LibInv, JobShape, Manifest
    <3>2. \A id \in Ids : saved'[id] # NoCopy =>
             WordOf[id] \in Manifest' /\ id \in Sources(WordOf[id])'
      <4>1. \A id \in Ids : WordOf[id] \in Words
        BY IdsAssumption
      <4> QED BY <2>2, <2>14, <4>1 DEF LibInv, JobShape
    <3>3. \A v \in Words : plans'[v] # NoPlan =>
             DOMAIN plans'[v] = PlanFields /\ plans'[v].status \in {"applied", "rolledBack"}
      BY <2>12 DEF LibInv, JobShape
    <3> QED BY <2>2, <2>5, <2>6, <2>11, <2>12, <3>1, <3>2, <3>3 DEF LibInv, JobShape
  <2>20. Complete' /\ NoneBack'
    <3>1. Complete'
      <4>1. \A v \in Unapplied' : v \in Words \ {w}
        BY <2>15 DEF Unapplied, Manifest
      <4> QED BY <2>1, <2>14, <2>15, <4>1 DEF Complete, Exists
    <3>2. NoneBack
      BY <2>4 DEF LibInv, Progress
    <3> QED BY <2>12, <3>1, <3>2 DEF NoneBack
  <2>21. Phases'
    BY <2>2, <2>4, <2>5, <2>6, <2>7 DEF Phases
  <2>22. Progress'
    BY <2>4, <2>5, <2>7, <2>20 DEF Progress
  <2>23. Plans'
    <3>1. \A v \in Manifest' : groups'[v].applied <=> plans'[v] # NoPlan
      BY <2>11, <2>12, <2>14 DEF LibInv, Plans, Manifest
    <3>2. \A v \in Words : plans'[v] # NoPlan =>
             v \in Manifest' /\ groups'[v].sealed /\ plans'[v].card = Merged(v)'
      <4>1. w \in Manifest' /\ groups'[w].sealed /\ plans'[w].card = Merged(w)'
        BY <2>1, <2>8, <2>11, <2>12, <2>14
      <4>2. ASSUME NEW v \in Words \ {w}, plans'[v] # NoPlan
            PROVE  v \in Manifest' /\ groups'[v].sealed /\ plans'[v].card = Merged(v)'
        <5>1. plans'[v] = plans[v] /\ groups'[v] = groups[v] /\ Merged(v)' = Merged(v)
          BY <2>11, <2>12, <2>14
        <5> QED BY <2>14, <4>2, <5>1 DEF LibInv, Plans
      <4> QED BY <2>12, <4>1, <4>2
    <3>3. \A v \in Applied' : /\ taken'[v] = Canon[v]
                              /\ \A id \in IdsOf(v) : Exists(id)' => id = Canon[v]
      <4>1. ASSUME NEW v \in Applied, v # w
            PROVE  /\ taken'[v] = Canon[v]
                   /\ \A id \in IdsOf(v) : Exists(id)' => id = Canon[v]
        <5>1. v \in Words \ {w}
          BY <4>1 DEF Applied
        <5> QED BY <2>12, <2>14, <5>1 DEF LibInv, Plans, Exists
      <4> QED BY <2>12, <2>15, <2>17, <4>1 DEF Exists
    <3> QED BY <3>1, <3>2, <3>3 DEF Plans
  <2>24. KnownKept'
    <3>1. ASSUME NEW v \in Words \ {w}, Knows(cards, epoch, v)' # known'[v]
          PROVE  v \in Manifest' /\ groups'[v].applied /\ Leftover(v)'
      BY <2>2, <2>11, <2>14, <3>1 DEF LibInv, KnownKept
    <3>2. ASSUME Knows(cards, epoch, w)' # known'[w]
          PROVE  w \in Manifest' /\ groups'[w].applied /\ Leftover(w)'
      <4>1. Knows(cards, epoch, w) = known[w]
        BY <2>1 DEF LibInv, KnownKept, Unapplied
      <4>2. ASSUME ~Leftover(w)  PROVE Knows(cards, job.epoch, w) = Knows(cards', job.epoch, w)
        BY <2>1, <2>4, <2>16, <2>17, <4>2, MergedKnown
      <4>3. Knows(cards, epoch, w)' = Knows(cards', job.epoch, w)
        BY <2>2, <2>4
      <4> QED BY <2>1, <2>2, <2>4, <2>11, <2>14, <3>2, <4>1, <4>2, <4>3
    <3> QED BY <3>1, <3>2 DEF KnownKept
  <2>25. Backs'
    <3>1. Same(w)
      BY <2>1, <2>4, <2>9 DEF LibInv, Backs
    <3>2. Noted(w)'
      <4>1. groups[w].taken = before.taken[w]
        BY <2>3, <3>1 DEF Conflict, Same
      <4>2. \A id \in Touched(w) : groups[w].tombs[id] = before.tombs[id]
        BY <2>3, <3>1 DEF Conflict, Same, TombsOf
      <4>3. \A id \in Sources(w) : groups[w].sources[id] = before.cards[id]
        BY <2>16, <3>1 DEF Same, Touched
      <4>4. Canon[w] \notin Sources(w) => before.cards[Canon[w]] = NoCard
        BY <2>3, <3>1 DEF Conflict, Same, Touched, Exists
      <4> QED BY <2>2, <2>8, <2>11, <2>14, <4>1, <4>2, <4>3, <4>4 DEF Noted
    <3>3. \A v \in Applied : v \in Manifest /\ Noted(v)
      BY DEF LibInv, Backs, Applied, Plans
    <3> QED BY <2>4, <2>9, <2>14, <2>15, <3>2, <3>3 DEF LibInv, Backs
  <2>26. RunInv(run)'
    <3>1. CASE run' = [run EXCEPT !.mem = Mem(fence')]
      <4>1. /\ DOMAIN run' = DOMAIN run /\ run'.at = "merge" /\ run'.mem = Mem(fence')
            /\ run'.mode = "apply" /\ run'.was = run.was
        BY <2>1, <3>1, AtWork
      <4>2. RunShape(run)' /\ RunMode(run)'
        BY <2>1, <4>1, AtWork DEF LibInv, RunInv, RunShape, RunMode, WorkAts
      <4>3. RunKnows(run)'
        BY <2>5, <2>7, <4>1 DEF RunKnows, WorkAts
      <4>4. RunSure(run)'
        BY <2>1, <2>20, <4>1 DEF RunSure, WorkAts
      <4> QED BY <4>2, <4>3, <4>4 DEF RunInv
    <3>2. CASE run' = Thrown(run)
      <4>1. /\ DOMAIN run' = DOMAIN run /\ run'.at = "catch" /\ run'.mem = Mem(fence)
            /\ run'.mode = "apply" /\ run'.was = run.was
        BY <2>1, <2>4, <3>2, AtWork DEF Thrown
      <4>2. RunShape(run)' /\ RunMode(run)'
        BY <2>1, <4>1, AtWork DEF LibInv, RunInv, RunShape, RunMode, WorkAts
      <4>3. RunKnows(run)'
        <5>1. fence'.rev # run'.mem.rev
          BY <2>4, <2>5, <4>1 DEF FenceDoc, Mem
        <5> QED BY <2>5, <4>1, <5>1 DEF RunKnows, WorkAts
      <4>4. RunSure(run)'
        BY <4>1 DEF RunSure, WorkAts
      <4> QED BY <4>2, <4>3, <4>4 DEF RunInv
    <3> QED BY <2>2, <3>1, <3>2 DEF Then, Thrown
  <2> QED BY <2>18, <2>19, <2>21, <2>22, <2>23, <2>24, <2>25, <2>26 DEF LibInv
<1> QED BY <1>1, <1>2

LEMMA RestoreStep == ASSUME LibInv, NEW w \in Words, RestoreGroup(w)  PROVE LibInv'
<1> USE DEF libraryVars, jobVars, historyVars
<1>1. CASE Throw
  BY <1>1, ThrowStep
<1>2. CASE ~Throw
  <2>1. /\ run.at = "restore" /\ run.at \in WorkAts /\ "word" \notin DOMAIN run
        /\ run.mode = "rollback" /\ w \in Applied
    BY DEF RestoreGroup, LibInv, RunInv, RunShape, RunMode, WorkAts
  <2>2. /\ cards' = [id \in Ids |-> IF id \in Touched(w) THEN saved[id].card ELSE cards[id]]
        /\ tombs' = groups[w].tombs @@ tombs
        /\ taken' = [taken EXCEPT ![w] = groups[w].taken]
        /\ plans' = [plans EXCEPT ![w].status = "rolledBack"]
        /\ fence' = [fence EXCEPT !.phase = "rollback", !.rev = @ + 1, !.rolled = @ + 1]
        /\ Then([run EXCEPT !.mem = Mem(fence')])
        /\ UNCHANGED <<epoch, job, groups, root, saved, known, before>>
    BY <1>2 DEF RestoreGroup
  <2>3. AsApplied(w) /\ Copied(w, TRUE)
    BY <1>2 DEF RestoreGroup
  <2>4. /\ Fenced /\ FenceDoc(fence) /\ JobDoc(job) /\ run.mem = Mem(fence)
        /\ epoch = job.epoch /\ job.epoch \in Nat /\ fence.phase = "rollback"
        /\ job.phase = fence.phase /\ job # NoJob
    BY <2>1, AtWork, JobStands DEF LibInv, LibShape
  <2>5. /\ FenceDoc(fence') /\ fence'.phase = "rollback" /\ fence'.rev = fence.rev + 1
        /\ fence'.applied = fence.applied /\ fence'.rolled = fence.rolled + 1
        /\ fence'.rolled # 0
    <3>1. fence.rolled \in Nat /\ fence.rev \in Nat /\ DOMAIN fence = FenceFields
      BY <2>4 DEF FenceDoc
    <3> QED BY <2>2, <3>1 DEF FenceDoc, FenceFields
  <2>6. Fenced'
    BY <2>5, FenceStands DEF Fenced
  <2>7. /\ w \in Manifest /\ plans[w] # NoPlan /\ groups[w].sealed /\ groups[w].applied
        /\ plans[w].card = Merged(w)
        /\ \A id \in IdsOf(w) : cards[id] # NoCard => id = Canon[w]
        /\ cards[Canon[w]] = Merged(w)
    BY <2>1, <2>3 DEF Applied, LibInv, Plans, Exists, AsApplied
  <2>8. /\ w \in Words /\ GroupShape(groups[w], w)
        /\ Sources(w) # {} /\ Sources(w) \subseteq IdsOf(w)
        /\ Canon[w] \in IdsOf(w) /\ Touched(w) \subseteq IdsOf(w)
        /\ \A id \in Sources(w) : groups[w].sources[id] \in CardDoc \ {NoCard}
    BY <2>7, TouchedIds
  <2>9. /\ groups[w].tombs \in [Touched(w) -> TombDoc]
        /\ groups[w].taken \in IdsOf(w) \cup {NoId}
    BY <2>7, <2>8 DEF GroupShape, Touched, Sources
  <2>10. /\ DOMAIN plans' = Words /\ DOMAIN plans'[w] = PlanFields
         /\ \A v \in Words \ {w} : plans'[v] = plans[v] /\ taken'[v] = taken[v]
         /\ plans'[w].status = "rolledBack" /\ plans'[w].card = plans[w].card
         /\ plans'[w] # NoPlan
         /\ DOMAIN taken' = Words /\ taken'[w] = groups[w].taken
    <3> DEFINE p == [plans[w] EXCEPT !.status = "rolledBack"]
    <3>1. /\ DOMAIN plans = Words /\ DOMAIN taken = Words /\ DOMAIN plans[w] = PlanFields
          /\ plans' = [plans EXCEPT ![w] = p]
      BY <2>2, <2>7 DEF LibInv, LibShape, JobShape
    <3>2. DOMAIN p = PlanFields /\ p.status = "rolledBack" /\ p.card = plans[w].card
      BY <3>1 DEF PlanFields
    <3> HIDE DEF p
    <3>3. p # NoPlan
      BY <3>2 DEF NoPlan
    <3> QED BY <2>2, <3>1, <3>2, <3>3
  <2>11. /\ DOMAIN tombs' = Ids
         /\ \A id \in Ids \ Touched(w) : cards'[id] = cards[id] /\ tombs'[id] = tombs[id]
         /\ \A id \in Touched(w) : tombs'[id] = groups[w].tombs[id]
         /\ \A id \in Touched(w) : cards'[id] = saved[id].card
    <3>1. DOMAIN tombs = Ids /\ Touched(w) \subseteq Ids /\ DOMAIN groups[w].tombs = Touched(w)
      BY <2>8, <2>9 DEF LibInv, LibShape, IdsOf
    <3> QED BY <2>2, <3>1 DEF @@
  <2>12. /\ Manifest' = Manifest
         /\ \A v \in Words : /\ Sources(v)' = Sources(v) /\ Touched(v)' = Touched(v)
                             /\ Merged(v)' = Merged(v) /\ (Leftover(v)' <=> Leftover(v))
         /\ \A v \in Words \ {w} :
               /\ Knows(cards, epoch, v)' = Knows(cards, epoch, v)
               /\ \A id \in IdsOf(v) : cards'[id] = cards[id] /\ tombs'[id] = tombs[id]
         /\ \A v \in Manifest \ {w} : (Same(v)' <=> Same(v)) /\ (Noted(v)' <=> Noted(v))
    <3>1. groups'[w] # NoGroup /\ groups'[w].sources = groups[w].sources
      BY <2>2, <2>7 DEF Manifest
    <3> QED BY <2>2, <2>7, <2>10, <2>11, <3>1, OtherWords
  <2>13. Applied' = Applied \ {w}
    BY <2>8, <2>10 DEF Applied
  \* The documents of the word afterwards.
  <2>14. /\ \A id \in Sources(w) : cards'[id] = groups[w].sources[id]
         /\ Canon[w] \notin Sources(w) => cards'[Canon[w]] = NoCard
    <3>1. \A id \in Sources(w) : saved[id].card = groups[w].sources[id]
      BY <2>3 DEF Copied
    <3>2. Canon[w] \notin Sources(w) => saved[Canon[w]] = NoCopy
      BY <2>8 DEF LibInv, JobShape, IdsOf
    <3> QED BY <2>11, <3>1, <3>2 DEF Touched, NoCopy
  <2>15. \A id \in IdsOf(w) : cards'[id] # NoCard => id \in Sources(w)
    <3>1. \A id \in IdsOf(w) \ Touched(w) : cards'[id] = cards[id]
      BY <2>11 DEF IdsOf
    <3> QED BY <2>7, <2>14, <3>1 DEF Touched
  <2>16. LibShape'
    <3>1. \A id \in Touched(w) : saved[id].card \in CardDoc
      <4>1. NoCard \in CardDoc
        BY DEF NoCard, Card, CardDoc
      <4> QED BY <2>8, <2>11, <2>14, <4>1 DEF Touched
    <3>2. cards' \in [Ids -> CardDoc]
      BY <2>2, <3>1 DEF LibInv, LibShape
    <3>3. tombs' \in [Ids -> TombDoc]
      <4>1. \A id \in Ids : tombs'[id] \in TombDoc
        BY <2>9, <2>11 DEF LibInv, LibShape
      <4>2. tombs' = [id \in Ids |-> tombs'[id]]
        BY <2>2, <2>11 DEF @@
      <4> QED BY <4>1, <4>2
    <3>4. \A v \in Words : taken'[v] \in IdsOf(v) \cup {NoId}
      BY <2>8, <2>9, <2>10 DEF LibInv, LibShape
    <3> QED BY <2>2, <2>10, <3>2, <3>3, <3>4 DEF LibInv, LibShape
  <2>17. JobShape'
    <3>1. \A v \in Manifest' : GroupShape(groups'[v], v)
      BY <2>2, <2>12 DEF LibInv, JobShape
    <3>2. \A id \in Ids : saved'[id] # NoCopy =>
             WordOf[id] \in Manifest' /\ id \in Sources(WordOf[id])'
      <4>1. \A id \in Ids : WordOf[id] \in Words
        BY IdsAssumption
      <4> QED BY <2>2, <2>12, <4>1 DEF LibInv, JobShape
    <3>3. \A v \in Words : plans'[v] # NoPlan =>
             DOMAIN plans'[v] = PlanFields /\ plans'[v].status \in {"applied", "rolledBack"}
      BY <2>10 DEF LibInv, JobShape
    <3> QED BY <2>2, <2>4, <2>5, <2>10, <3>1, <3>2, <3>3 DEF LibInv, JobShape
  <2>18. Phases'
    BY <2>2, <2>4, <2>5, <2>6 DEF Phases
  <2>19. AllPlanned => AllPlanned'
    BY <2>7, <2>10, <2>12 DEF AllPlanned, Manifest
  <2>20. Progress'
    BY <2>4, <2>5, <2>6, <2>19 DEF LibInv, Progress
  <2>21. Plans'
    <3>1. \A v \in Manifest' : groups'[v].applied <=> plans'[v] # NoPlan
      BY <2>2, <2>7, <2>10, <2>12 DEF LibInv, Plans, Manifest
    <3>2. \A v \in Words : plans'[v] # NoPlan =>
             v \in Manifest' /\ groups'[v].sealed /\ plans'[v].card = Merged(v)'
      BY <2>2, <2>7, <2>10, <2>12 DEF LibInv, Plans
    <3>3. ASSUME NEW v \in Applied'
          PROVE  taken'[v] = Canon[v] /\ \A id \in IdsOf(v) : Exists(id)' => id = Canon[v]
      <4>1. v \in Words \ {w} /\ v \in Applied
        BY <2>13 DEF Applied
      <4> QED BY <2>10, <2>12, <4>1 DEF LibInv, Plans, Exists
    <3> QED BY <3>1, <3>2, <3>3 DEF Plans
  <2>22. KnownKept'
    <3>1. ASSUME NEW v \in Words \ {w}, Knows(cards, epoch, v)' # known'[v]
          PROVE  v \in Manifest' /\ groups'[v].applied /\ Leftover(v)'
      BY <2>2, <2>12, <3>1 DEF LibInv, KnownKept
    <3>2. ASSUME Knows(cards, epoch, w)' # known'[w]
          PROVE  w \in Manifest' /\ groups'[w].applied /\ Leftover(w)'
      <4>1. ~Leftover(w) => Knows(cards, epoch, w) = known[w]
        BY <2>7 DEF LibInv, KnownKept
      <4>2. ASSUME ~Leftover(w)  PROVE Knows(cards', job.epoch, w) = Knows(cards, job.epoch, w)
        BY <2>4, <2>7, <2>14, <2>15, <4>2, MergedKnown
      <4>3. Knows(cards, epoch, w)' = Knows(cards', job.epoch, w)
        BY <2>2, <2>4
      <4> QED BY <2>2, <2>4, <2>7, <2>8, <2>12, <3>2, <4>1, <4>2, <4>3
    <3> QED BY <3>1, <3>2 DEF KnownKept
  <2>23. Backs'
    <3>1. Noted(w)
      BY <2>1 DEF LibInv, Backs
    <3>2. Same(w)'
      <4>1. taken'[w] = before.taken[w]
        BY <2>10, <3>1 DEF Noted
      <4>2. \A id \in Touched(w) : tombs'[id] = before.tombs[id]
        BY <2>11, <3>1 DEF Noted
      <4>3. \A id \in Touched(w) : cards'[id] = before.cards[id]
        BY <2>14, <3>1 DEF Noted, Touched
      <4>4. Touched(w)' = Touched(w) /\ before' = before
        BY <2>2, <2>8, <2>12
      <4> QED BY <4>1, <4>2, <4>3, <4>4 DEF Same
    <3>3. \A v \in Applied : v \in Manifest /\ Noted(v)
      BY DEF LibInv, Backs, Applied, Plans
    <3>4. \A v \in Manifest \ Applied : Same(v)
      BY <2>4 DEF LibInv, Backs
    <3> QED BY <2>1, <2>12, <2>13, <3>2, <3>3, <3>4 DEF Backs
  <2>24. RunInv(run)'
    <3>1. CASE run' = [run EXCEPT !.mem = Mem(fence')]
      <4>1. /\ DOMAIN run' = DOMAIN run /\ run'.at = "restore" /\ run'.mem = Mem(fence')
            /\ run'.mode = "rollback" /\ run'.was = run.was
        BY <2>1, <3>1, AtWork
      <4>2. RunShape(run)' /\ RunMode(run)'
        BY <2>1, <4>1, AtWork DEF LibInv, RunInv, RunShape, RunMode, WorkAts
      <4>3. RunKnows(run)'
        BY <2>5, <2>6, <4>1 DEF RunKnows, WorkAts
      <4>4. RunSure(run)'
        BY <2>1, <2>4, <2>19, <4>1 DEF LibInv, RunInv, RunSure, WorkAts
      <4> QED BY <4>2, <4>3, <4>4 DEF RunInv
    <3>2. CASE run' = Thrown(run)
      <4>1. /\ DOMAIN run' = DOMAIN run /\ run'.at = "catch" /\ run'.mem = Mem(fence)
            /\ run'.mode = "rollback" /\ run'.was = run.was
        BY <2>1, <2>4, <3>2, AtWork DEF Thrown
      <4>2. RunShape(run)' /\ RunMode(run)'
        BY <2>1, <4>1, AtWork DEF LibInv, RunInv, RunShape, RunMode, WorkAts
      <4>3. RunKnows(run)'
        <5>1. fence'.rev # run'.mem.rev
          BY <2>4, <2>5, <4>1 DEF FenceDoc, Mem
        <5> QED BY <2>5, <4>1, <5>1 DEF RunKnows, WorkAts
      <4>4. RunSure(run)'
        BY <2>1, <2>4, <2>19, <4>1 DEF LibInv, RunInv, RunSure, WorkAts
      <4> QED BY <4>2, <4>3, <4>4 DEF RunInv
    <3> QED BY <2>2, <3>1, <3>2 DEF Then, Thrown
  <2> QED BY <2>16, <2>17, <2>18, <2>20, <2>21, <2>22, <2>23, <2>24 DEF LibInv
<1> QED BY <1>1, <1>2

-----------------------------------------------------------------------------
(* What the owner does, while no fence stands.                             *)

\* What the owner wrote is what is to be kept.
LEMMA OwnerKeeps ==
    ASSUME LibInv, ~Fenced, Written, LibShape',
           \A w \in Applied : /\ taken'[w] = Canon[w]
                              /\ \A id \in IdsOf(w) : Exists(id)' => id = Canon[w]
    PROVE  LibInv'
<1> USE DEF libraryVars, jobVars, historyVars
<1>1. /\ known' = [w \in Words |-> Knows(cards', epoch', w)]
      /\ UNCHANGED <<job, groups, fence, root, saved, plans, run, before>>
  BY DEF Written
<1>2. /\ Manifest' = Manifest /\ Applied' = Applied
      /\ \A w : Merged(w)' = Merged(w) /\ Leftover(w)' = Leftover(w)
  BY <1>1, SameGroups
<1>3. JobShape'
  BY <1>1, HeadShape DEF LibInv, JobShape
<1>4. /\ (NoPlans' <=> NoPlans) /\ (AllPlanned' <=> AllPlanned) /\ (NoneBack' <=> NoneBack)
      /\ Unsealed' = Unsealed
  BY <1>1, <1>2 DEF NoPlans, AllPlanned, NoneBack, Unsealed
<1>5. Phases' /\ Progress'
  BY <1>1, <1>2, <1>4 DEF LibInv, Phases, Progress, Fenced
<1>6. Plans'
  BY <1>1, <1>2 DEF LibInv, Plans
<1>7. KnownKept'
  BY <1>1 DEF KnownKept
<1>8. Backs'
  <2>1. \A w \in Applied : Noted(w)' <=> Noted(w)
    BY <1>1 DEF Noted, Touched, Sources
  <2> QED BY <1>1, <1>2, <2>1 DEF LibInv, Backs, Fenced
<1>9. RunInv(run)'
  <2>1. run.at \notin WorkAts
    BY DEF LibInv, RunInv, RunKnows
  <2>2. RunShape(run)' /\ RunMode(run)'
    BY <1>1 DEF LibInv, RunInv, RunShape, RunMode
  <2>3. RunKnows(run)'
    BY <1>1, <2>1 DEF LibInv, RunInv, RunKnows, Fenced
  <2>4. RunSure(run)'
    BY <1>1, <2>1, <1>4 DEF LibInv, RunInv, RunSure, RunShape, Fenced, WorkAts
  <2> QED BY <2>2, <2>3, <2>4 DEF RunInv
<1> QED BY <1>3, <1>5, <1>6, <1>7, <1>8, <1>9 DEF LibInv

LEMMA OwnerLaws ==
    ASSUME LibInv
    PROVE  /\ epoch \in Nat /\ cards \in [Ids -> CardDoc] /\ tombs \in [Ids -> TombDoc]
           /\ DOMAIN taken = Words /\ \A w \in Words : taken[w] \in IdsOf(w) \cup {NoId}
           /\ \A w \in Applied : /\ w \in Words /\ taken[w] = Canon[w]
                                 /\ \A id \in IdsOf(w) : cards[id] # NoCard => id = Canon[w]
           /\ \A id \in Ids : TombRev(id) \in Int
           /\ NoCard \in CardDoc
BY DEF LibInv, LibShape, Plans, Applied, Exists, TombRev, TombDoc, NoCard, Card, CardDoc

LEMMA CreateStep == ASSUME LibInv, NEW w \in Words, CreateCard(w)  PROVE LibInv'
<1> DEFINE id == TargetOf(w)
<1>1. /\ ~Fenced /\ Written /\ UNCHANGED <<epoch, tombs>>
      /\ taken' = [taken EXCEPT ![w] = id]
      /\ \/ cards' = cards
         \/ cards' = [cards EXCEPT ![id].rev = 1] /\ cards[id] # NoCard
         \/ cards' = [cards EXCEPT ![id] = Card(epoch, TombRev(id) + 1, 0)]
  BY DEF CreateCard, MayWrite, Live, Exists
<1>2. id \in IdsOf(w) /\ NoId \notin Ids
  BY OwnerLaws, IdsAssumption DEF TargetOf, IdsOf
<1>3. \A v \in Applied : v = w => id = Canon[w]
  BY OwnerLaws, IdsAssumption, <1>2 DEF TargetOf, IdsOf
<1> HIDE DEF id
<1>4. cards' \in [Ids -> CardDoc] /\ \A x \in Ids \ {id} : cards'[x] = cards[x]
  <2>1. id \in Ids
    BY <1>2 DEF IdsOf
  <2>2. CASE cards' = cards
    BY <2>2, OwnerLaws
  <2>3. CASE cards' = [cards EXCEPT ![id].rev = 1]
    BY <2>1, <2>3, OwnerLaws DEF CardDoc
  <2>4. CASE cards' = [cards EXCEPT ![id] = Card(epoch, TombRev(id) + 1, 0)]
    <3>1. Card(epoch, TombRev(id) + 1, 0) \in CardDoc
      BY <2>1, OwnerLaws DEF Card, CardDoc
    <3> QED BY <2>1, <2>4, <3>1, OwnerLaws
  <2> QED BY <1>1, <2>2, <2>3, <2>4
<1>5. \A v \in Words : taken'[v] = IF v = w THEN id ELSE taken[v]
  BY <1>1, OwnerLaws
<1>6. LibShape'
  BY <1>1, <1>2, <1>4, <1>5, OwnerLaws DEF LibShape
<1>7. ASSUME NEW v \in Applied
      PROVE  taken'[v] = Canon[v] /\ \A x \in IdsOf(v) : Exists(x)' => x = Canon[v]
  <2>1. CASE v = w
    BY <1>3, <1>4, <1>5, <2>1, OwnerLaws DEF Exists, IdsOf
  <2>2. CASE v # w
    <3>1. \A x \in IdsOf(v) : x \in Ids \ {id}
      BY <1>2, <2>2 DEF IdsOf
    <3> QED BY <1>4, <1>5, <2>2, <3>1, OwnerLaws DEF Exists
  <2> QED BY <2>1, <2>2
<1> QED BY <1>1, <1>6, <1>7, OwnerKeeps

\* What changes cards that are there, and makes none.
LEMMA NoNewCard ==
    ASSUME LibInv, ~Fenced, Written, cards' \in [Ids -> CardDoc],
           \A x \in Ids : cards[x] = NoCard => cards'[x] = NoCard,
           tombs' \in [Ids -> TombDoc], epoch' \in Nat,
           \/ taken' = taken
           \/ \E x \in Ids : cards[x] # NoCard /\ taken' = [taken EXCEPT ![WordOf[x]] = x]
    PROVE  LibInv'
<1>1. \A x \in Ids : WordOf[x] \in Words /\ x \in IdsOf(WordOf[x])
  BY IdsAssumption DEF IdsOf
<1>2. LibShape'
  BY <1>1, OwnerLaws DEF LibShape
<1>3. \A w \in Applied : \A x \in IdsOf(w) : Exists(x)' => x = Canon[w]
  BY OwnerLaws DEF Exists, IdsOf
<1>4. \A w \in Applied : taken'[w] = Canon[w]
  BY <1>1, OwnerLaws
<1> QED BY <1>2, <1>3, <1>4, OwnerKeeps

LEMMA OwnerSteps == LibInv /\ OwnerStep => LibInv'
<1> SUFFICES ASSUME LibInv, OwnerStep  PROVE LibInv'
  OBVIOUS
<1>1. CASE \E w \in Words : CreateCard(w)
  BY <1>1, CreateStep
<1>2. ASSUME NEW id \in Ids, PatchCard(id)  PROVE LibInv'
  <2>1. /\ ~Fenced /\ Written /\ UNCHANGED <<epoch, tombs>> /\ cards[id] # NoCard
        /\ cards' = [cards EXCEPT ![id].rev = @ + 1]
        /\ taken' = taken \/ taken' = [taken EXCEPT ![WordOf[id]] = id]
    BY <1>2 DEF PatchCard, MayWrite, Live, Exists
  <2>2. cards' \in [Ids -> CardDoc] /\ \A x \in Ids : cards[x] = NoCard => cards'[x] = NoCard
    BY <2>1, OwnerLaws DEF CardDoc
  <2> QED BY <2>1, <2>2, OwnerLaws, NoNewCard
<1>3. ASSUME NEW id \in Ids, ReviewCard(id)  PROVE LibInv'
  <2>1. /\ ~Fenced /\ Written /\ UNCHANGED <<epoch, tombs, taken>> /\ cards[id] # NoCard
        /\ cards' = [cards EXCEPT ![id].rev = @ + 1, ![id].level = @ + 1]
    BY <1>3 DEF ReviewCard, MayWrite, Current, Live, Exists
  <2>2. cards' \in [Ids -> CardDoc] /\ \A x \in Ids : cards[x] = NoCard => cards'[x] = NoCard
    BY <2>1, OwnerLaws DEF CardDoc
  <2> QED BY <2>1, <2>2, OwnerLaws, NoNewCard
<1>4. ASSUME NEW id \in Ids, DeleteCard(id)  PROVE LibInv'
  <2>1. /\ ~Fenced /\ Written /\ UNCHANGED <<epoch, taken>>
        /\ cards' = [cards EXCEPT ![id] = NoCard]
        /\ tombs' = [tombs EXCEPT ![id] = Tomb(epoch, Later(cards[id].rev, TombRev(id)) + 1)]
    BY <1>4 DEF DeleteCard, MayWrite
  <2>2. cards' \in [Ids -> CardDoc] /\ \A x \in Ids : cards[x] = NoCard => cards'[x] = NoCard
    BY <2>1, OwnerLaws DEF CardDoc, NoCard, Card
  <2>3. tombs' \in [Ids -> TombDoc]
    <3>1. cards[id].rev \in Int /\ TombRev(id) \in Int
      BY OwnerLaws DEF CardDoc
    <3> QED BY <2>1, <3>1, OwnerLaws DEF Tomb, TombDoc, Later
  <2> QED BY <2>1, <2>2, <2>3, OwnerLaws, NoNewCard
<1>5. CASE AdvanceEpoch
  <2>1. ~Fenced /\ Written /\ epoch' = epoch + 1 /\ UNCHANGED <<cards, tombs, taken>>
    BY <1>5 DEF AdvanceEpoch, MayWrite
  <2>2. epoch' \in Nat
    BY <2>1, OwnerLaws
  <2> QED BY <2>1, <2>2, OwnerLaws, NoNewCard
<1>6. CASE Purge
  <2>1. /\ ~Fenced /\ Written /\ UNCHANGED <<epoch, tombs, taken>>
        /\ \E page \in SUBSET Ids :
              cards' = [id \in Ids |-> IF id \in page THEN NoCard ELSE cards[id]]
    BY <1>6 DEF Purge, MayWrite
  <2>2. cards' \in [Ids -> CardDoc] /\ \A x \in Ids : cards[x] = NoCard => cards'[x] = NoCard
    BY <2>1, OwnerLaws DEF CardDoc, NoCard, Card
  <2> QED BY <2>1, <2>2, OwnerLaws, NoNewCard
<1> QED BY <1>1, <1>2, <1>3, <1>4, <1>5, <1>6 DEF OwnerStep

-----------------------------------------------------------------------------
(* The results.                                                            *)

LEMMA NextInv == LibInv /\ [LibNext]_vars => LibInv'
<1> SUFFICES ASSUME LibInv, [LibNext]_vars  PROVE LibInv'
  OBVIOUS
<1>1. CASE UNCHANGED vars
  <2>1. RunInv(run') /\ UNCHANGED <<libraryVars, jobVars, historyVars>>
    BY <1>1 DEF vars, LibInv
  <2> QED BY <2>1, MemoryOnly
<1>2. CASE OwnerStep
  BY <1>2, OwnerSteps
<1>3. CASE StartDiscovery \/ StartApply \/ StartRollback
  BY <1>3, StartStep
<1>4. CASE Discover
  BY <1>4, AcquireStep, ReadStep, CommitStep DEF Discover
<1>5. CASE Apply
  BY <1>5, BeginStep, CheckStep, EnterStep, FinishStep, SealStep, CopyStep, ApplyStep DEF Apply
<1>6. CASE Rollback
  BY <1>6, BeginStep, PreflightStep, FinishBackStep, RestoreStep DEF Rollback
<1>7. CASE EnsureRoot \/ Catch \/ Crash \/ LeaseOut
  BY <1>7, RootStep, CatchStep, CrashStep, LeaseOutStep
<1> QED BY <1>1, <1>2, <1>3, <1>4, <1>5, <1>6, <1>7 DEF LibNext, JobStep

LEMMA InvHolds == LibSpec => []LibInv
<1> QED BY InitInv, NextInv, PTL DEF LibSpec

\* No word is less known than the owner left it, in the middle of a merge or of
\* a rollback and whatever dies (applyMigrationGroup, rollbackOneGroup).
THEOREM LearningKept == LibSpec => []AsTheUserLeftIt
<1>1. LibInv => AsTheUserLeftIt
  BY DEF LibInv, KnownKept, AsTheUserLeftIt
<1> QED BY <1>1, InvHolds, PTL

\* Only the end of a rollback says that it is done.
LEMMA OnlyFinish ==
    ASSUME LibInv, LibNext, job'.phase = "rolled-back", job.phase # "rolled-back"
    PROVE  FinishRollback
<1> USE DEF libraryVars, jobVars, historyVars
<1>1. job' # job
  OBVIOUS
<1>2. ~Throw
  BY <1>1 DEF Throw
<1>3. ~OwnerStep
  BY <1>1 DEF OwnerStep, CreateCard, PatchCard, ReviewCard, DeleteCard, AdvanceEpoch, Purge,
              Written
<1>4. ~(StartDiscovery \/ StartApply \/ StartRollback \/ Crash \/ EnsureRoot)
  BY <1>1 DEF StartDiscovery, StartApply, StartRollback, Start, Crash, EnsureRoot
<1>5. job = NoJob \/ JobDoc(job)
  BY DEF LibInv, JobShape
<1>6. ~LeaseOut
  <2>1. JobDoc(job) /\ job' = [job EXCEPT !.leased = FALSE] => job'.phase = job.phase
    BY DEF JobDoc, JobFields
  <2> QED BY <1>1, <1>5, <2>1 DEF LeaseOut
<1>7. ~Discover
  <2>1. JobDoc(job) /\ job' = [job EXCEPT !.leased = TRUE] => job'.phase = job.phase
    BY DEF JobDoc, JobFields
  <2>2. ~AcquireLease
    BY <1>1, <1>2, <1>5, <2>1 DEF AcquireLease
  <2>3. ~ReadPage
    BY <1>1 DEF ReadPage
  <2>4. ~CommitPage
    <3> SUFFICES ASSUME CommitPage  PROVE FALSE
      OBVIOUS
    <3>1. job.phase = "discover"
      BY DEF CommitPage, LibInv, RunInv, RunKnows
    <3>2. JobDoc(job)
      BY <1>5, <3>1 DEF NoJob
    <3>3. job' # [job EXCEPT !.phase = "blocked", !.leased = FALSE]
      BY <3>2 DEF JobDoc, JobFields
    <3>4. CASE job' = [job EXCEPT
                         !.phase = IF run.terminal THEN "discovered" ELSE "discover",
                         !.cursor = run.cursor, !.page = @ + 1, !.epoch = run.epoch,
                         !.sources = @ + Cardinality(DOMAIN run.docs), !.leased = FALSE]
      <4>1. job'.phase = IF run.terminal THEN "discovered" ELSE "discover"
        BY <3>2, <3>4 DEF JobDoc, JobFields
      <4> QED BY <4>1
    <3> QED BY <1>2, <3>3, <3>4 DEF CommitPage
  <2> QED BY <2>2, <2>3, <2>4 DEF Discover
<1>8. ~(BeginApply \/ BeginRollback)
  <2> SUFFICES ASSUME BeginApply \/ BeginRollback  PROVE FALSE
    OBVIOUS
  <2>1. PICK kind : kind = IF run.mode = "apply" THEN "verify" ELSE "rollback"
    OBVIOUS
  <2>2. /\ run.at = "begin" /\ ~FenceRefuses(kind)
        /\ job' = [job EXCEPT !.phase = NewFence(kind).phase, !.applied = NewFence(kind).applied]
        /\ job.phase # IF kind = "verify" THEN "complete" ELSE "rolled-back"
    BY <1>1, <1>2, <2>1 DEF BeginApply, BeginRollback, Begin
  <2>3. FenceDoc(NewFence(kind)) /\ job # NoJob
    BY <2>1, <2>2, NewFenceIs
  <2>4. job'.phase = NewFence(kind).phase
    BY <1>5, <2>2, <2>3 DEF JobDoc, JobFields
  <2> QED BY <2>3, <2>4 DEF FenceDoc
<1>9. ~Catch
  <2> SUFFICES ASSUME Catch  PROVE FALSE
    OBVIOUS
  <2>1. /\ Clears
        /\ \/ job' = [job EXCEPT !.phase = "discovered", !.applied = 0]
           \/ job' = [job EXCEPT !.phase = "complete"]
    BY <1>1 DEF Catch
  <2>2. JobDoc(job)
    BY <1>5, <2>1 DEF Clears, LibInv, Phases
  <2> QED BY <2>1, <2>2 DEF JobDoc, JobFields
<1>10. ~(CheckManifest \/ SealCopy \/ Preflight \/ \E w \in Words : CopySources(w) \/ RestoreGroup(w))
  BY <1>1, <1>2 DEF CheckManifest, SealCopy, Preflight, CopySources, RestoreGroup
<1>11. ~(EnterApply \/ FinishApply \/ \E w \in Words : ApplyGroup(w))
  <2> SUFFICES ASSUME EnterApply \/ FinishApply \/ \E w \in Words : ApplyGroup(w)  PROVE FALSE
    OBVIOUS
  <2>1. \/ job' = [job EXCEPT !.phase = "apply"]
        \/ job' = [job EXCEPT !.phase = "complete", !.applied = fence.applied, !.leased = FALSE]
        \/ job' = [job EXCEPT !.phase = "apply", !.applied = fence.applied + 1]
    BY <1>1, <1>2 DEF EnterApply, FinishApply, ApplyGroup
  <2>2. JobDoc(job)
    <3>1. run.at \in WorkAts
      BY DEF EnterApply, FinishApply, ApplyGroup, WorkAts
    <3> QED BY <3>1, AtWork
  <2> QED BY <2>1, <2>2 DEF JobDoc, JobFields
<1> QED BY <1>3, <1>4, <1>6, <1>7, <1>8, <1>9, <1>10, <1>11
        DEF LibNext, JobStep, Apply, Rollback

\* A rollback that finishes has put back what was there when the apply began
\* (rollbackOneGroup, and rollbackLegacyLibraryMigration that ends it).
THEOREM RollbackKept == LibSpec => RollbackRestores
<1> DEFINE Restored ==
             \A w \in Manifest : /\ taken'[w] = before.taken[w]
                                 /\ \A id \in Touched(w) : /\ cards'[id] = before.cards[id]
                                                           /\ tombs'[id] = before.tombs[id]
           Back == job' # NoJob /\ job'.phase = "rolled-back" /\ job.phase # "rolled-back"
<1>1. LibInv /\ [LibNext]_vars => [Back => Restored]_vars
  <2> SUFFICES ASSUME LibInv, LibNext, Back  PROVE Restored
    OBVIOUS
  <2>1. FinishRollback
    BY OnlyFinish
  <2>2. Applied = {} /\ UNCHANGED <<cards, tombs, taken>> /\ run.at \in WorkAts
    BY <2>1 DEF FinishRollback, WorkAts
  <2>3. \A w \in Manifest : Same(w)
    BY <2>2, AtWork DEF LibInv, Backs
  <2> QED BY <2>2, <2>3 DEF Same
<1> QED BY <1>1, InvHolds, PTL DEF LibSpec, RollbackRestores
=============================================================================
