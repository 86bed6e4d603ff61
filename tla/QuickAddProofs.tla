--------------------------- MODULE QuickAddProofs ---------------------------
(***************************************************************************)
(* For every number of jobs, source tabs and faults, and every limit: one  *)
(* command of the user makes the app save at most one card, and the user   *)
(* hears one kind of end of it.                                            *)
(***************************************************************************)
EXTENDS QuickAddProps, TLAPS

-----------------------------------------------------------------------------
(* The shape of the state, as far as the cards depend on it.               *)

MemFields == {"add", "created", "verify", "seen", "result", "status", "flow",
              "by", "copy", "claimed", "removing", "clean", "bound", "rearm",
              "removed"}
Page == [bridge : {"none", "hash", "asking", "handed", "called", "answered", "off"},
         app : {"none", "loading", "pending", "generating", "done"},
         stored : BOOLEAN]
Opening == {"save", "open"}

MemShape ==
    /\ mem = [j \in Jobs |-> mem[j]]
    /\ \A j \in Jobs : DOMAIN mem[j] = MemFields
TabShape ==
    /\ asked = [j \in Jobs |-> asked[j]]
    /\ tab \in [Jobs -> {"none", "blank", "page", "closed"}]
    /\ page \in [Jobs -> Page]
    /\ cards \in [Jobs -> Nat]

-----------------------------------------------------------------------------
(* The invariant.                                                          *)

\* A job's worker tab is opened once: before its command there is none.
OpenedOnce ==
    \A j \in Jobs :
        /\ asked[j] = NoSource /\ j \notin Leftover => tab[j] = "none"
        /\ mem[j].add \in Opening => asked[j] # NoSource /\ tab[j] = "none"
\* The way of a word through its tab.  Before the tab goes to the app's page there
\* is no app in it.  Until the bridge hands it over there is
\* neither a word to take nor a card; while the app has it there is no card, and
\* once the app generates the card the word cannot be taken again.
Way(j) ==
    /\ tab[j] \in {"none", "blank"} => page[j].app = "none" /\ cards[j] = 0
    /\ page[j].bridge \in {"hash", "asking"} =>
          page[j].app = "loading" /\ ~page[j].stored /\ cards[j] = 0
    /\ page[j].stored \/ page[j].app \in {"pending", "generating"} => cards[j] = 0
    /\ page[j].app = "generating" => ~page[j].stored
    /\ cards[j] <= 1
OneWay == \A j \in Jobs : Way(j)
QuickInv == MemShape /\ TabShape /\ OpenedOnce /\ OneWay

-----------------------------------------------------------------------------
(* What the helpers leave of a job's memory.                               *)

\* Starting a cleanup does not touch the command's own progress.
LEMMA CleaningKeeps ==
    ASSUME NEW m, DOMAIN m = MemFields, NEW b, NEW r
    PROVE  DOMAIN Cleaning(m, b, r) = MemFields /\ Cleaning(m, b, r).add = m.add
BY DEF Cleaning, MemFields

\* Nor does ending a job.
LEMMA EndingKeeps ==
    ASSUME NEW m, DOMAIN m = MemFields, NEW job, NEW k
    PROVE  DOMAIN Ending(m, job, k) = MemFields /\ Ending(m, job, k).add = m.add
<1>1. CASE Claimed(job)
  BY <1>1, CleaningKeeps DEF Ending
<1>2. CASE ~Claimed(job)
  <2>1. Ending(m, job, k) = [m EXCEPT !.flow[k] = Flow("claim", job.bound)]
    BY <1>2 DEF Ending
  <2> QED BY <2>1 DEF MemFields
<1> QED BY <1>1, <1>2

\* A command that is reported is no longer opening its tab.
LEMMA ReportingKeeps ==
    ASSUME NEW m, DOMAIN m = MemFields, NEW b
    PROVE  DOMAIN Reporting(m, b) = MemFields /\ Reporting(m, b).add = "report"
<1> DEFINE n == [m EXCEPT !.add = "report"]
<1>1. DOMAIN n = MemFields /\ n.add = "report"
  BY DEF MemFields
<1> HIDE DEF n
<1>2. Reporting(m, b) = Cleaning(n, b, FALSE)
  BY DEF Reporting, n
<1> QED BY <1>1, <1>2, CleaningKeeps

\* Nor does releasing the terminal lock.
LEMMA ReleasedKeeps ==
    ASSUME NEW m, DOMAIN m = MemFields
    PROVE  DOMAIN Released(m) = MemFields /\ Released(m).add = m.add
BY DEF Released, MemFields

\* A new worker holds nothing but the ends of what is over time.
LEMMA SweptKeeps ==
    /\ Swept = [j \in Jobs |-> Swept[j]]
    /\ \A j \in Jobs : DOMAIN Swept[j] = MemFields /\ Swept[j].add = "idle"
<1>1. DOMAIN Quiet = MemFields /\ Quiet.add = "idle"
  BY DEF Quiet, MemFields
<1>2. \A j \in Jobs : Swept[j] = IF Expired(j) THEN Ending(Quiet, jobs[j], "sweep") ELSE Quiet
  BY DEF Swept
<1>3. Swept = [j \in Jobs |-> Swept[j]]
  BY DEF Swept
<1> QED BY <1>1, <1>2, <1>3, EndingKeeps

-----------------------------------------------------------------------------
(* What a step does to the memory.                                         *)

\* No command but a new one is about to open its tab.
MemMove ==
    /\ MemShape'
    /\ \A i \in Jobs : mem'[i].add \in Opening => mem[i].add \in Opening

\* One job's memory is replaced by one no further back in its command.
LEMMA OneMoves ==
    ASSUME MemShape, NEW j \in Jobs, NEW n, DOMAIN n = MemFields,
           n.add \in Opening => mem[j].add \in Opening,
           mem' = [mem EXCEPT ![j] = n]
    PROVE  MemMove
BY DEF MemShape, MemMove

\* A job's memory moves on and a cleanup starts.
LEMMA CleanMoves ==
    ASSUME MemShape, NEW j \in Jobs, NEW n, DOMAIN n = MemFields,
           n.add \in Opening => mem[j].add \in Opening, NEW b, NEW r,
           mem' = [mem EXCEPT ![j] = Cleaning(n, b, r)]
    PROVE  MemMove
<1> DEFINE c == Cleaning(n, b, r)
<1>1. DOMAIN c = MemFields /\ c.add = n.add
  BY CleaningKeeps
<1> HIDE DEF c
<1>2. mem' = [mem EXCEPT ![j] = c]
  BY DEF c
<1> QED BY <1>1, <1>2, OneMoves

\* A command only moves on: it does not go back to opening its tab.
LEMMA AddMoves ==
    ASSUME MemShape, NEW j \in Jobs,
           AddSave(j) \/ AddOpen(j) \/ AddBind(j) \/ AddGo(j) \/ AddFails(j) \/ AddReport(j)
    PROVE  MemMove
<1> /\ mem = [i \in Jobs |-> mem[i]] /\ \A i \in Jobs : DOMAIN mem[i] = MemFields
    /\ Opening = {"save", "open"}
  BY DEF MemShape, Opening
<1>1. CASE AddSave(j)
  BY <1>1 DEF AddSave, MemMove, MemShape, MemFields
<1>2. CASE AddOpen(j)
  BY <1>2 DEF AddOpen, MemMove, MemShape, MemFields
<1>3. CASE AddBind(j)
  BY <1>3 DEF AddBind, MemMove, MemShape, MemFields
<1>4. CASE AddReport(j)
  BY <1>4 DEF AddReport, MemMove, MemShape, MemFields
<1>5. CASE AddGo(j)
  <2>1. \/ mem' = [mem EXCEPT ![j].add = "idle"]
        \/ mem' = [mem EXCEPT ![j] = Reporting(mem[j], TRUE)]
    BY <1>5 DEF AddGo
  <2>2. CASE mem' = [mem EXCEPT ![j].add = "idle"]
    BY <2>2 DEF MemMove, MemShape, MemFields
  <2>3. CASE mem' = [mem EXCEPT ![j] = Reporting(mem[j], TRUE)]
    BY <2>3, ReportingKeeps, OneMoves
  <2> QED BY <2>1, <2>2, <2>3
<1>6. CASE AddFails(j)
  <2>1. mem' = [mem EXCEPT ![j] = Reporting(mem[j], tab[j] # "none")]
    BY <1>6 DEF AddFails
  <2> QED BY <2>1, ReportingKeeps, OneMoves
<1> QED BY <1>1, <1>2, <1>3, <1>4, <1>5, <1>6

\* The verification of the import leaves the command where it is.
LEMMA VerifyMoves ==
    ASSUME MemShape, NEW j \in Jobs, VerifyRead(j) \/ VerifySave(j) \/ VerifyFails(j)
    PROVE  MemMove
<1> mem = [i \in Jobs |-> mem[i]] /\ \A i \in Jobs : DOMAIN mem[i] = MemFields
  BY DEF MemShape
<1>1. CASE mem' = [mem EXCEPT ![j].verify = "save", ![j].seen = jobs[j]]
  BY <1>1 DEF MemMove, MemShape, MemFields
<1>2. CASE mem' = VerifyDone(j)
  BY <1>2 DEF VerifyDone, MemMove, MemShape, MemFields
<1>3. CASE mem' = [mem EXCEPT ![j] = Cleaning(mem[j], jobs[j].bound, FALSE)]
  <2> DEFINE n == mem[j]
             b == jobs[j].bound
  <2>1. DOMAIN n = MemFields /\ n.add = mem[j].add
    OBVIOUS
  <2>2. mem' = [mem EXCEPT ![j] = Cleaning(n, b, FALSE)]
    BY <1>3
  <2> HIDE DEF n, b
  <2> QED BY <2>1, <2>2, CleanMoves
<1>4. CASE mem' = [mem EXCEPT ![j] = mem[j]]
  BY <1>4, OneMoves
<1> QED BY <1>1, <1>2, <1>3, <1>4 DEF VerifyRead, VerifySave, VerifyFails

\* So does a result,
LEMMA ResultMoves ==
    ASSUME MemShape, NEW j \in Jobs,
           \/ \E r \in {"created", "error"} : ResultRead(j, r)
           \/ ResultSave(j) \/ ResultFails(j) \/ ResultTell(j)
    PROVE  MemMove
<1> mem = [i \in Jobs |-> mem[i]] /\ \A i \in Jobs : DOMAIN mem[i] = MemFields
  BY DEF MemShape
<1>1. ASSUME NEW r, ResultRead(j, r) PROVE MemMove
  <2>1. CASE mem' = mem
    BY <2>1 DEF MemMove, MemShape
  <2>2. CASE mem' = [mem EXCEPT ![j].result = "save", ![j].status = r,
                                ![j].by = "result", ![j].copy = jobs[j]]
    BY <2>2 DEF MemMove, MemShape, MemFields
  <2> QED BY <1>1, <2>1, <2>2 DEF ResultRead
<1>2. DOMAIN Released(mem[j]) = MemFields /\ Released(mem[j]).add = mem[j].add
  BY ReleasedKeeps
<1>3. CASE ResultSave(j)
  <2> DEFINE n == [Released(mem[j]) EXCEPT !.result = "tell"]
  <2>1. DOMAIN n = MemFields /\ n.add = mem[j].add
    BY <1>2 DEF MemFields
  <2>2. mem' = [mem EXCEPT ![j] = n]
    BY <1>3 DEF ResultSave
  <2> HIDE DEF n
  <2> QED BY <2>1, <2>2, OneMoves
<1>4. CASE ResultFails(j)
  <2> DEFINE n == [Released(mem[j]) EXCEPT !.result = "idle", !.status = "none"]
  <2>1. DOMAIN n = MemFields /\ n.add = mem[j].add
    BY <1>2 DEF MemFields
  <2>2. mem' = [mem EXCEPT ![j] = n]
    BY <1>4 DEF ResultFails
  <2> HIDE DEF n
  <2> QED BY <2>1, <2>2, OneMoves
<1>5. CASE ResultTell(j)
  <2> DEFINE n == [mem[j] EXCEPT !.result = "idle", !.status = "none"]
             b == jobs[j] # NoJob => jobs[j].bound
  <2>1. DOMAIN n = MemFields /\ n.add = mem[j].add
    BY DEF MemFields
  <2>2. mem' = [mem EXCEPT ![j] = Cleaning(n, b, FALSE)]
    BY <1>5 DEF ResultTell
  <2> HIDE DEF n, b
  <2> QED BY <2>1, <2>2, CleanMoves
<1> QED BY <1>1, <1>3, <1>4, <1>5

\* the end of a job,
LEMMA EndMoves ==
    ASSUME MemShape, NEW j \in Jobs, NEW n, DOMAIN n = MemFields,
           n.add \in Opening => mem[j].add \in Opening, NEW job, NEW k,
           mem' = [mem EXCEPT ![j] = Ending(n, job, k)]
    PROVE  MemMove
<1> DEFINE c == Ending(n, job, k)
<1>1. DOMAIN c = MemFields /\ c.add = n.add
  BY EndingKeeps
<1> HIDE DEF c
<1>2. mem' = [mem EXCEPT ![j] = c]
  BY DEF c
<1> QED BY <1>1, <1>2, OneMoves

\* a step of another part of the system,
LEMMA StillMoves ==
    ASSUME MemShape, mem' = mem
    PROVE  MemMove
BY DEF MemShape, MemMove

\* an alarm or a closed tab,
LEMMA NoticeMoves ==
    ASSUME MemShape, NEW j \in Jobs, Alarm(j) \/ \E side \in Sides : Removed(j, side)
    PROVE  MemMove
<1> mem = [i \in Jobs |-> mem[i]] /\ \A i \in Jobs : DOMAIN mem[i] = MemFields
  BY DEF MemShape
<1>1. CASE Alarm(j)
  <2>1. CASE mem' = [mem EXCEPT ![j].rearm = TRUE]
    BY <2>1 DEF MemMove, MemShape, MemFields
  <2>2. CASE mem' = [mem EXCEPT ![j] = Ending(mem[j], jobs[j], "alarm")]
    <3> DEFINE n == mem[j]
               job == jobs[j]
    <3>1. DOMAIN n = MemFields /\ n.add = mem[j].add
      OBVIOUS
    <3>2. mem' = [mem EXCEPT ![j] = Ending(n, job, "alarm")]
      BY <2>2
    <3> HIDE DEF n, job
    <3> QED BY <3>1, <3>2, EndMoves
  <2>3. CASE mem' = mem
    BY <2>3, StillMoves
  <2> QED BY <1>1, <2>1, <2>2, <2>3 DEF Alarm
<1>2. ASSUME NEW side \in Sides, Removed(j, side) PROVE MemMove
  <2> DEFINE n == [mem[j] EXCEPT !.removing = TRUE]
             job == jobs[j]
  <2>1. CASE mem' = mem
    BY <2>1, StillMoves
  <2>2. CASE mem' = [mem EXCEPT ![j] = Ending(n, job, side)]
    <3>1. DOMAIN n = MemFields /\ n.add = mem[j].add
      BY DEF MemFields
    <3> HIDE DEF n, job
    <3> QED BY <2>2, <3>1, EndMoves
  <2> QED BY <1>2, <2>1, <2>2 DEF Removed
<1> QED BY <1>1, <1>2

\* the claim of the terminal error,
LEMMA ClaimMoves ==
    ASSUME MemShape, NEW j \in Jobs, NEW k \in Notifiers,
           ClaimRead(j, k) \/ ClaimSave(j, k) \/ ClaimFails(j, k) \/ ClaimTell(j, k)
    PROVE  MemMove
<1> mem = [i \in Jobs |-> mem[i]] /\ \A i \in Jobs : DOMAIN mem[i] = MemFields
  BY DEF MemShape
<1> DEFINE m == mem[j]
<1>0. DOMAIN m = MemFields /\ m.add = mem[j].add
  OBVIOUS
<1>1. CASE ClaimRead(j, k)
  <2> DEFINE claiming == [m EXCEPT !.claimed = TRUE]
             taken == [claiming EXCEPT !.flow[k].at = "save", !.by = k, !.copy = jobs[j]]
             left == [claiming EXCEPT !.flow[k] = NoFlow]
             b == m.flow[k].bound
  <2>1. \/ mem' = [mem EXCEPT ![j] = taken]
        \/ mem' = [mem EXCEPT ![j] = Cleaning(left, b, TRUE)]
    BY <1>1 DEF ClaimRead
  <2>2. DOMAIN claiming = MemFields /\ claiming.add = mem[j].add
    BY <1>0 DEF MemFields
  <2> HIDE DEF claiming
  <2>3. DOMAIN taken = MemFields /\ taken.add = mem[j].add
    BY <2>2 DEF MemFields
  <2>4. DOMAIN left = MemFields /\ left.add = mem[j].add
    BY <2>2 DEF MemFields
  <2> HIDE DEF taken, left, b
  <2>5. CASE mem' = [mem EXCEPT ![j] = taken]
    BY <2>3, <2>5, OneMoves
  <2>6. CASE mem' = [mem EXCEPT ![j] = Cleaning(left, b, TRUE)]
    BY <2>4, <2>6, CleanMoves
  <2> QED BY <2>1, <2>5, <2>6
<1>r. DOMAIN Released(m) = MemFields /\ Released(m).add = mem[j].add
  BY ReleasedKeeps
<1>2. CASE ClaimSave(j, k)
  <2> DEFINE n == [Released(m) EXCEPT !.flow[k].at = "tell"]
  <2>1. DOMAIN n = MemFields /\ n.add = mem[j].add
    BY <1>r DEF MemFields
  <2>2. mem' = [mem EXCEPT ![j] = n]
    BY <1>2 DEF ClaimSave
  <2> HIDE DEF n
  <2> QED BY <2>1, <2>2, OneMoves
<1>3. CASE ClaimFails(j, k)
  <2> DEFINE n == [Released(m) EXCEPT !.flow[k] = NoFlow, !.claimed = FALSE]
  <2>1. DOMAIN n = MemFields /\ n.add = mem[j].add
    BY <1>r DEF MemFields
  <2>2. mem' = [mem EXCEPT ![j] = n]
    BY <1>3 DEF ClaimFails
  <2> HIDE DEF n
  <2> QED BY <2>1, <2>2, OneMoves
<1>4. CASE ClaimTell(j, k)
  <2> DEFINE n == [m EXCEPT !.flow[k] = NoFlow]
             b == m.flow[k].bound
  <2>1. DOMAIN n = MemFields /\ n.add = mem[j].add
    BY <1>0 DEF MemFields
  <2>2. mem' = [mem EXCEPT ![j] = Cleaning(n, b, TRUE)]
    BY <1>4 DEF ClaimTell
  <2> HIDE DEF n, b
  <2> QED BY <2>1, <2>2, CleanMoves
<1> QED BY <1>1, <1>2, <1>3, <1>4

\* and a cleanup.
LEMMA CleanupMoves ==
    ASSUME MemShape, NEW j \in Jobs, CleanRemove(j) \/ CleanClose(j)
    PROVE  MemMove
<1> mem = [i \in Jobs |-> mem[i]] /\ \A i \in Jobs : DOMAIN mem[i] = MemFields
  BY DEF MemShape
<1>1. CASE mem' = [mem EXCEPT ![j].clean = "close", ![j].removed = TRUE]
  BY <1>1 DEF MemMove, MemShape, MemFields
<1>2. CASE mem' = [mem EXCEPT ![j].clean = "close"]
  BY <1>2 DEF MemMove, MemShape, MemFields
<1>3. CASE CleanClose(j)
  <2> DEFINE m == mem[j]
             n == [m EXCEPT !.clean = "idle", !.bound = FALSE, !.rearm = FALSE,
                            !.removed = FALSE, !.removing = FALSE,
                            !.claimed = @ /\ ~m.removed]
  <2>1. DOMAIN n = MemFields /\ n.add = mem[j].add
    BY DEF MemFields
  <2>2. mem' = [mem EXCEPT ![j] = n]
    BY <1>3 DEF CleanClose
  <2> HIDE DEF n
  <2> QED BY <2>1, <2>2, OneMoves
<1> QED BY <1>1, <1>2, <1>3 DEF CleanRemove

\* A new worker has no command under way.
LEMMA WorkerMoves ==
    ASSUME mem' = Swept
    PROVE  MemMove
BY SweptKeeps DEF MemMove, MemShape, Opening

-----------------------------------------------------------------------------
(* The invariant is kept.                                                  *)

\* A step that leaves tabs, pages and cards alone.
LEMMA QuietStep ==
    ASSUME QuickInv, MemMove, UNCHANGED <<asked, tab, page, cards>>
    PROVE  QuickInv'
BY DEF QuickInv, MemMove, TabShape, OpenedOnce, OneWay, Way

\* A step of one worker tab's page.
LEMMA PageStep ==
    ASSUME QuickInv, MemMove, UNCHANGED <<asked, tab>>, NEW j \in Jobs,
           NEW q \in Page, page' = [page EXCEPT ![j] = q],
           NEW n \in Nat, cards' = [cards EXCEPT ![j] = n],
           /\ tab[j] \in {"none", "blank"} => q.app = "none" /\ n = 0
           /\ q.bridge \in {"hash", "asking"} => q.app = "loading" /\ ~q.stored /\ n = 0
           /\ q.stored \/ q.app \in {"pending", "generating"} => n = 0
           /\ q.app = "generating" => ~q.stored
           /\ n <= 1
    PROVE  QuickInv'
<1>1. page'[j] = q /\ cards'[j] = n
  BY DEF QuickInv, TabShape
<1>2. \A i \in Jobs : i # j => page'[i] = page[i] /\ cards'[i] = cards[i]
  BY DEF QuickInv, TabShape
<1>3. Way(j)'
  BY <1>1 DEF Way
<1>4. \A i \in Jobs : i # j => Way(i)'
  BY <1>2 DEF QuickInv, OneWay, Way
<1>5. TabShape'
  BY DEF QuickInv, TabShape
<1>6. OpenedOnce'
  BY DEF QuickInv, MemMove, OpenedOnce
<1> QED BY <1>3, <1>4, <1>5, <1>6 DEF QuickInv, OneWay, MemMove

\* The worker tab is closed: its page is gone.
LEMMA CloseStep ==
    ASSUME QuickInv, MemMove, UNCHANGED <<asked, cards>>, NEW j \in Jobs,
           Open(j), Closing(j)
    PROVE  QuickInv'
<1>1. /\ tab' = [tab EXCEPT ![j] = "closed"] /\ page' = [page EXCEPT ![j] = NoPage]
      /\ tab[j] # "none" /\ NoPage \in Page
  BY DEF Open, Closing, NoPage, Page
<1>2. TabShape'
  BY <1>1 DEF QuickInv, TabShape
<1>3. OpenedOnce'
  <2> SUFFICES ASSUME NEW i \in Jobs
               PROVE  /\ asked[i] = NoSource /\ i \notin Leftover => tab'[i] = "none"
                      /\ mem'[i].add \in Opening => asked[i] # NoSource /\ tab'[i] = "none"
    BY DEF OpenedOnce
  <2>1. CASE i = j
    BY <1>1, <2>1 DEF QuickInv, OpenedOnce, MemMove
  <2>2. CASE i # j
    BY <1>1, <2>2 DEF QuickInv, OpenedOnce, MemMove, TabShape
  <2> QED BY <2>1, <2>2
<1>4. Way(j)'
  <2>1. page'[j] = NoPage /\ tab'[j] = "closed"
    BY <1>1 DEF QuickInv, TabShape
  <2> QED BY <2>1 DEF QuickInv, OneWay, Way, NoPage
<1>5. \A i \in Jobs : i # j => Way(i)'
  BY <1>1 DEF QuickInv, OneWay, Way, TabShape
<1> QED BY <1>2, <1>3, <1>4, <1>5 DEF QuickInv, OneWay, MemMove

\* A new command has no tab yet.
LEMMA BeginKeeps ==
    ASSUME QuickInv, NEW j \in Jobs, NEW s \in Sources, AddBegin(j, s)
    PROVE  QuickInv'
<1> /\ mem = [i \in Jobs |-> mem[i]] /\ \A i \in Jobs : DOMAIN mem[i] = MemFields
  BY DEF QuickInv, MemShape
<1> DEFINE started == [mem[j] EXCEPT !.add = "save", !.created = clock]
<1>1. DOMAIN started = MemFields
  BY DEF MemFields
<1> HIDE DEF started
<1>2. /\ asked[j] = NoSource /\ j \notin Leftover /\ s # NoSource
      /\ asked' = [asked EXCEPT ![j] = s] /\ UNCHANGED <<tab, page, cards>>
  BY JobsAssumption DEF AddBegin, MayAsk, tabVars, pageVars
<1>3. mem' = [i \in Jobs |-> mem'[i]]
  BY DEF AddBegin
<1>4. mem'[j] = Reporting(started, FALSE) \/ mem'[j] = started
  BY DEF AddBegin, started
<1>5. DOMAIN mem'[j] = MemFields
  <2> DEFINE c == Reporting(started, FALSE)
  <2>1. DOMAIN c = MemFields
    BY <1>1, ReportingKeeps
  <2>2. mem'[j] = c \/ mem'[j] = started
    BY <1>4
  <2> HIDE DEF c
  <2> QED BY <1>1, <2>1, <2>2
<1>6. ASSUME NEW i \in Jobs, i # j
      PROVE  DOMAIN mem'[i] = MemFields /\ mem'[i].add = mem[i].add
  <2> DEFINE n == mem[i]
             b == jobs[i].bound
             c == Cleaning(n, b, FALSE)
  <2>1. mem'[i] = c \/ mem'[i] = n
    BY <1>6 DEF AddBegin
  <2>2. DOMAIN n = MemFields
    OBVIOUS
  <2> HIDE DEF n, b
  <2>3. DOMAIN c = MemFields /\ c.add = n.add
    BY <2>2, CleaningKeeps
  <2> HIDE DEF c
  <2>4. DOMAIN mem'[i] = MemFields /\ mem'[i].add = n.add
    BY <2>1, <2>2, <2>3
  <2> QED BY <2>4 DEF n
<1>7. MemShape'
  BY <1>3, <1>5, <1>6 DEF MemShape
<1>8. OpenedOnce'
  <2>1. tab'[j] = "none" /\ asked'[j] = s
    BY <1>2 DEF QuickInv, OpenedOnce, TabShape
  <2>2. \A i \in Jobs : i # j => asked'[i] = asked[i]
    BY <1>2 DEF QuickInv, TabShape
  <2> QED BY <1>2, <1>6, <2>1, <2>2 DEF QuickInv, OpenedOnce
<1>9. TabShape' /\ OneWay'
  BY <1>2 DEF QuickInv, TabShape, OneWay, Way
<1> QED BY <1>7, <1>8, <1>9 DEF QuickInv

\* The tab is opened, with nothing in it yet.
LEMMA OpenKeeps ==
    ASSUME QuickInv, NEW j \in Jobs, AddOpen(j)
    PROVE  QuickInv'
<1>1. MemMove
  BY AddMoves DEF QuickInv
<1>2. /\ mem[j].add = "open" /\ mem'[j].add = "bind"
      /\ tab' = [tab EXCEPT ![j] = "blank"] /\ UNCHANGED <<asked, page, cards>>
  BY DEF AddOpen, userVars, pageVars, QuickInv, MemShape, MemFields
<1>3. tab[j] = "none" /\ asked[j] # NoSource
  BY <1>2 DEF QuickInv, OpenedOnce, Opening
<1>4. OpenedOnce'
  <2> SUFFICES ASSUME NEW i \in Jobs
               PROVE  /\ asked[i] = NoSource /\ i \notin Leftover => tab'[i] = "none"
                      /\ mem'[i].add \in Opening => asked[i] # NoSource /\ tab'[i] = "none"
    BY <1>2 DEF OpenedOnce
  <2>1. CASE i = j
    BY <1>2, <1>3, <2>1 DEF Opening
  <2>2. CASE i # j
    BY <1>1, <1>2, <2>2 DEF QuickInv, OpenedOnce, MemMove, TabShape
  <2> QED BY <2>1, <2>2
<1>5. TabShape' /\ OneWay'
  BY <1>2, <1>3 DEF QuickInv, TabShape, OneWay, Way
<1> QED BY <1>1, <1>4, <1>5 DEF QuickInv, MemMove

\* The page begins to load in the tab opened for it, where no card was saved.
LEMMA GoKeeps ==
    ASSUME QuickInv, NEW j \in Jobs, AddGo(j)
    PROVE  QuickInv'
<1>1. MemMove /\ UNCHANGED <<asked, cards>>
  BY AddMoves DEF QuickInv, AddGo, userVars
<1>2. CASE UNCHANGED <<tab, page>>
  BY <1>1, <1>2, QuietStep
<1>3. CASE /\ tab[j] = "blank" /\ tab' = [tab EXCEPT ![j] = "page"]
           /\ page' = [page EXCEPT ![j] = [NoPage EXCEPT !.bridge = "hash", !.app = "loading"]]
  <2> DEFINE q == [NoPage EXCEPT !.bridge = "hash", !.app = "loading"]
  <2>1. q \in Page /\ q.bridge = "hash" /\ q.app = "loading" /\ q.stored = FALSE
    BY DEF NoPage, Page
  <2>2. page' = [page EXCEPT ![j] = q]
    BY <1>3
  <2> HIDE DEF q
  <2>3. cards[j] = 0 /\ (asked[j] # NoSource \/ j \in Leftover) /\ mem[j].add \notin Opening
    BY <1>3 DEF QuickInv, OneWay, Way, OpenedOnce
  <2>4. TabShape'
    BY <1>1, <1>3, <2>1, <2>2 DEF QuickInv, TabShape
  <2>5. OpenedOnce'
    <3> SUFFICES ASSUME NEW i \in Jobs
                 PROVE  /\ asked[i] = NoSource /\ i \notin Leftover => tab'[i] = "none"
                        /\ mem'[i].add \in Opening => asked[i] # NoSource /\ tab'[i] = "none"
      BY <1>1 DEF OpenedOnce
    <3>1. CASE i = j
      BY <1>1, <2>3, <3>1 DEF MemMove
    <3>2. CASE i # j
      BY <1>1, <1>3, <3>2 DEF QuickInv, OpenedOnce, MemMove, TabShape
    <3> QED BY <3>1, <3>2
  <2>6. Way(j)'
    <3>1. page'[j] = q /\ cards'[j] = 0 /\ tab'[j] = "page"
      BY <1>1, <1>3, <2>2, <2>3 DEF QuickInv, TabShape
    <3> QED BY <2>1, <3>1 DEF Way
  <2>7. \A i \in Jobs : i # j => Way(i)'
    BY <1>1, <1>3, <2>2 DEF QuickInv, OneWay, Way, TabShape
  <2> QED BY <1>1, <2>4, <2>5, <2>6, <2>7 DEF QuickInv, OneWay, MemMove
<1> QED BY <1>2, <1>3 DEF AddGo

\* The bridge asks once, and is handed a word that was not yet taken.
LEMMA VerifyKeeps ==
    ASSUME QuickInv, NEW j \in Jobs, VerifyRead(j) \/ VerifySave(j) \/ VerifyFails(j)
    PROVE  QuickInv'
<1> DEFINE p == page[j]
<1>1. MemMove /\ UNCHANGED <<asked, tab, cards>>
  BY VerifyMoves DEF QuickInv, VerifyRead, VerifySave, VerifyFails, userVars, tabVars
<1>2. /\ p \in Page /\ cards[j] \in Nat /\ cards' = [cards EXCEPT ![j] = cards[j]]
      /\ Way(j)
  BY <1>1 DEF QuickInv, TabShape, OneWay
<1>3. CASE page' = page
  BY <1>1, <1>3, QuietStep
<1>4. ASSUME NEW b \in {"asking", "off"}, p.bridge = "hash" \/ b = "off",
             page' = [page EXCEPT ![j].bridge = b]
      PROVE  QuickInv'
  <2> DEFINE q == [p EXCEPT !.bridge = b]
  <2>1. q \in Page /\ q.bridge = b /\ q.app = p.app /\ q.stored = p.stored
    BY <1>2 DEF Page
  <2>2. page' = [page EXCEPT ![j] = q]
    BY <1>4
  <2> HIDE DEF q
  <2> QED BY <1>1, <1>2, <1>4, <2>1, <2>2, PageStep DEF Way
<1>5. CASE /\ p.bridge = "asking"
           /\ page' = [page EXCEPT ![j].bridge = "handed", ![j].stored = TRUE]
  <2> DEFINE q == [p EXCEPT !.bridge = "handed", !.stored = TRUE]
  <2>1. q \in Page /\ q.bridge = "handed" /\ q.app = p.app /\ q.stored = TRUE
    BY <1>2 DEF Page
  <2>2. page' = [page EXCEPT ![j] = q]
    BY <1>5
  <2> HIDE DEF q
  <2> QED BY <1>1, <1>2, <1>5, <2>1, <2>2, PageStep DEF Way
<1>6. \/ page' = page
      \/ p.bridge = "hash" /\ page' = [page EXCEPT ![j].bridge = "asking"]
      \/ page' = [page EXCEPT ![j].bridge = "off"]
      \/ /\ p.bridge = "asking"
         /\ page' = [page EXCEPT ![j].bridge = "handed", ![j].stored = TRUE]
  BY DEF VerifyRead, VerifySave, VerifyFails
<1> QED BY <1>3, <1>4, <1>5, <1>6

\* The bridge and the app of one worker tab: the word is taken before the card
\* is asked for, and the card is saved once.
LEMMA PageKeeps ==
    ASSUME QuickInv, NEW j \in Jobs,
           \/ AppClaims(j) \/ BridgeHears(j) \/ BridgeGivesUp(j) \/ AppRefuses(j)
           \/ AppGenerates(j) \/ AppBusy(j) \/ AppSaves(j) \/ AppFails(j)
    PROVE  QuickInv'
<1> DEFINE p == page[j]
<1>1. MemMove /\ UNCHANGED <<asked, tab>>
  BY StillMoves DEF QuickInv, AppClaims, BridgeHears, BridgeGivesUp, AppRefuses,
     AppGenerates, AppBusy, AppSaves, AppFails, userVars, tabVars
<1>2. /\ p \in Page /\ cards[j] \in Nat /\ Way(j)
      /\ UNCHANGED cards => cards' = [cards EXCEPT ![j] = cards[j]]
  BY DEF QuickInv, TabShape, OneWay
<1>3. ASSUME UNCHANGED cards, NEW q \in Page, page' = [page EXCEPT ![j] = q],
             /\ q.bridge \in {"hash", "asking"} => p.bridge = q.bridge
             /\ q.app = p.app \/ (p.app # "none" /\ q.bridge \notin {"hash", "asking"})
             /\ q.stored => p.stored
             /\ q.app \in {"pending", "generating"} => cards[j] = 0
             /\ q.app = "generating" => ~q.stored
      PROVE  QuickInv'
  BY <1>1, <1>2, <1>3, PageStep DEF Way
<1>4. CASE AppClaims(j)
  <2> DEFINE q == [p EXCEPT !.app = "pending",
                            !.bridge = IF p.bridge = "handed" THEN "called" ELSE p.bridge]
  <2>1. /\ q \in Page /\ q.app = "pending" /\ q.stored = p.stored
        /\ q.bridge = IF p.bridge = "handed" THEN "called" ELSE p.bridge
    BY <1>2 DEF Page
  <2>2. page' = [page EXCEPT ![j] = q] /\ p.stored /\ p.app = "loading" /\ UNCHANGED cards
    BY <1>4 DEF AppClaims
  <2> HIDE DEF q
  <2> QED BY <1>2, <1>3, <2>1, <2>2 DEF Way
<1>5. CASE BridgeHears(j)
  <2> DEFINE q == [p EXCEPT !.bridge = "answered"]
  <2>1. q \in Page /\ q.bridge = "answered" /\ q.app = p.app /\ q.stored = p.stored
    BY <1>2 DEF Page
  <2>2. page' = [page EXCEPT ![j] = q] /\ UNCHANGED cards
    BY <1>5 DEF BridgeHears
  <2> HIDE DEF q
  <2> QED BY <1>2, <1>3, <2>1, <2>2 DEF Way
<1>6. CASE AppGenerates(j)
  <2> DEFINE q == [p EXCEPT !.app = "generating", !.stored = FALSE]
  <2>1. q \in Page /\ q.bridge = p.bridge /\ q.app = "generating" /\ q.stored = FALSE
    BY <1>2 DEF Page
  <2>2. page' = [page EXCEPT ![j] = q] /\ p.app = "pending" /\ UNCHANGED cards
    BY <1>6 DEF AppGenerates
  <2> HIDE DEF q
  <2> QED BY <1>2, <1>3, <2>1, <2>2 DEF Way
<1>7. CASE AppBusy(j)
  <2> DEFINE q == [p EXCEPT !.app = "pending"]
  <2>1. q \in Page /\ q.bridge = p.bridge /\ q.app = "pending" /\ q.stored = p.stored
    BY <1>2 DEF Page
  <2>2. page' = [page EXCEPT ![j] = q] /\ p.app = "generating" /\ UNCHANGED cards
    BY <1>7 DEF AppBusy
  <2> HIDE DEF q
  <2> QED BY <1>2, <1>3, <2>1, <2>2 DEF Way
<1>8. ASSUME NEW app \in {p.app, "done"}, NEW r, Passing(j, app, r),
             \/ app = p.app /\ p.bridge \in {"handed", "called"}
             \/ app = "done" /\ p.app \in {"pending", "generating"},
             \/ UNCHANGED cards
             \/ p.app = "generating" /\ app = "done" /\ cards' = [cards EXCEPT ![j] = @ + 1]
      PROVE  QuickInv'
  <2> DEFINE q == [p EXCEPT !.app = app, !.stored = FALSE,
                            !.bridge = IF p.bridge \in {"handed", "called", "answered"}
                                       THEN "answered" ELSE p.bridge]
  <2>1. /\ q \in Page /\ q.app = app /\ q.stored = FALSE
        /\ q.bridge = IF p.bridge \in {"handed", "called", "answered"}
                      THEN "answered" ELSE p.bridge
    BY <1>2, <1>8 DEF Page
  <2>2. page' = [page EXCEPT ![j] = q]
    BY <1>8 DEF Passing
  <2> HIDE DEF q
  <2>3. q.bridge \notin {"hash", "asking"}
    BY <1>2, <1>8, <2>1 DEF Way
  <2>4. CASE UNCHANGED cards
    BY <1>2, <1>3, <1>8, <2>1, <2>2, <2>3, <2>4 DEF Way
  <2>5. CASE p.app = "generating" /\ app = "done" /\ cards' = [cards EXCEPT ![j] = @ + 1]
    <3> DEFINE n == cards[j] + 1
    <3>1. n \in Nat /\ n <= 1 /\ tab[j] \notin {"none", "blank"}
      BY <1>2, <2>5 DEF Way
    <3>2. cards' = [cards EXCEPT ![j] = n] /\ q.app = "done" /\ q.stored = FALSE
      BY <2>1, <2>5
    <3> HIDE DEF n
    <3> QED BY <1>1, <2>1, <2>2, <2>3, <3>1, <3>2, PageStep
  <2> QED BY <1>8, <2>4, <2>5
<1>9. CASE BridgeGivesUp(j)
  BY <1>8, <1>9 DEF BridgeGivesUp
<1>10. CASE AppRefuses(j)
  BY <1>8, <1>10 DEF AppRefuses
<1>11. CASE AppSaves(j)
  BY <1>8, <1>11 DEF AppSaves
<1>12. CASE AppFails(j)
  BY <1>8, <1>12 DEF AppFails
<1> QED BY <1>4, <1>5, <1>6, <1>7, <1>9, <1>10, <1>11, <1>12

\* A reload loses what the page was doing; a card under way is then the only one.
LEMMA ReloadKeeps ==
    ASSUME QuickInv, NEW j \in Jobs, Reload(j)
    PROVE  QuickInv'
<1> DEFINE p == page[j]
           q == [NoPage EXCEPT !.bridge = "off", !.app = "loading", !.stored = p.stored]
<1>1. MemMove /\ UNCHANGED <<asked, tab>> /\ tab[j] = "page"
  BY StillMoves DEF QuickInv, Reload, tabVars
<1>2. p \in Page /\ cards[j] \in Nat /\ Way(j)
  BY DEF QuickInv, TabShape, OneWay
<1>3. q \in Page /\ q.bridge = "off" /\ q.app = "loading" /\ q.stored = p.stored
  BY <1>2 DEF NoPage, Page
<1>4. page' = [page EXCEPT ![j] = q]
  BY DEF Reload
<1> HIDE DEF q
<1>5. CASE UNCHANGED cards
  <2>1. cards' = [cards EXCEPT ![j] = cards[j]]
    BY <1>5 DEF QuickInv, TabShape
  <2> QED BY <1>1, <1>2, <1>3, <1>4, <2>1, PageStep DEF Way
<1>6. CASE p.app = "generating" /\ cards' = [cards EXCEPT ![j] = @ + 1]
  <2> DEFINE n == cards[j] + 1
  <2>1. n \in Nat /\ n <= 1 /\ ~p.stored
    BY <1>2, <1>6 DEF Way
  <2>2. cards' = [cards EXCEPT ![j] = n]
    BY <1>6
  <2> HIDE DEF n
  <2> QED BY <1>1, <1>3, <1>4, <2>1, <2>2, PageStep
<1> QED BY <1>5, <1>6 DEF Reload

\* A cleanup may close the worker tab.
LEMMA CleanupKeeps ==
    ASSUME QuickInv, NEW j \in Jobs, CleanRemove(j) \/ CleanClose(j)
    PROVE  QuickInv'
<1>1. MemMove /\ UNCHANGED <<asked, cards>>
  BY CleanupMoves DEF QuickInv, CleanRemove, CleanClose, userVars, pageVars
<1>2. CASE UNCHANGED <<tab, page>>
  BY <1>1, <1>2, QuietStep
<1>3. CASE Open(j) /\ Closing(j)
  BY <1>1, <1>3, CloseStep
<1> QED BY <1>2, <1>3 DEF CleanRemove, CleanClose, tabVars, pageVars

\* When the worker stops, a bridge that was asking does without an answer.
LEMMA StopKeeps ==
    ASSUME QuickInv, Stop
    PROVE  QuickInv'
<1>1. MemMove /\ UNCHANGED <<asked, tab, cards>>
  BY WorkerMoves DEF Stop, tabVars
<1>2. page' = [j \in Jobs |-> IF page[j].bridge = "asking"
                              THEN [page[j] EXCEPT !.bridge = "off"] ELSE page[j]]
  BY DEF Stop
<1>3. ASSUME NEW j \in Jobs
      PROVE  page'[j] \in Page /\ Way(j)'
  <2> DEFINE p == page[j]
             q == [p EXCEPT !.bridge = "off"]
  <2>1. p \in Page /\ Way(j)
    BY DEF QuickInv, TabShape, OneWay
  <2>2. q \in Page /\ q.bridge = "off" /\ q.app = p.app /\ q.stored = p.stored
    BY <2>1 DEF Page
  <2>3. page'[j] = q \/ page'[j] = p
    BY <1>2
  <2> HIDE DEF q
  <2> QED BY <1>1, <2>1, <2>2, <2>3 DEF Way
<1>4. TabShape'
  BY <1>1, <1>2, <1>3 DEF QuickInv, TabShape
<1>5. OpenedOnce'
  BY <1>1 DEF QuickInv, OpenedOnce, MemMove
<1> QED BY <1>1, <1>3, <1>4, <1>5 DEF QuickInv, OneWay, MemMove

-----------------------------------------------------------------------------
(* Every state has the invariant.                                          *)

\* The jobs an earlier worker left have neither a page nor a card.
LEMMA InvInit == Init => QuickInv
<1> SUFFICES ASSUME Init PROVE QuickInv
  OBVIOUS
<1>1. DOMAIN Quiet = MemFields /\ Quiet.add = "idle"
  BY DEF Quiet, MemFields
<1>2. mem = [j \in Jobs |-> Quiet]
  BY DEF Init
<1>3. MemShape /\ \A j \in Jobs : mem[j].add \notin Opening
  BY <1>1, <1>2 DEF MemShape, Opening
<1>4. NoPage \in Page /\ NoPage.bridge = "none" /\ NoPage.app = "none" /\ NoPage.stored = FALSE
  BY DEF NoPage, Page
<1>5. TabShape
  BY <1>4 DEF Init, TabShape
<1>6. OpenedOnce
  BY <1>3 DEF Init, OpenedOnce
<1>7. OneWay
  BY <1>4 DEF Init, OneWay, Way
<1> QED BY <1>3, <1>5, <1>6, <1>7 DEF QuickInv

\* Every step, of the worker, the pages, the tabs or time, keeps the invariant.
LEMMA InvNext == QuickInv /\ [Next]_vars => QuickInv'
<1> SUFFICES ASSUME QuickInv, [Next]_vars PROVE QuickInv'
  OBVIOUS
<1> MemShape
  BY DEF QuickInv
<1>1. CASE UNCHANGED vars
  BY <1>1, StillMoves, QuietStep DEF vars, userVars, tabVars, pageVars
<1>2. ASSUME NEW j \in Jobs, Serve(j) PROVE QuickInv'
  <2>1. CASE AddSave(j) \/ AddBind(j) \/ AddReport(j)
    BY <2>1, AddMoves, QuietStep DEF AddSave, AddBind, AddReport, userVars, tabVars, pageVars
  <2>2. CASE AddOpen(j)
    BY <2>2, OpenKeeps
  <2>3. CASE AddGo(j)
    BY <2>3, GoKeeps
  <2>4. CASE VerifySave(j)
    BY <2>4, VerifyKeeps
  <2>5. CASE ResultSave(j) \/ ResultTell(j)
    BY <2>5, ResultMoves, QuietStep DEF ResultSave, ResultTell, userVars, tabVars, pageVars
  <2>6. ASSUME NEW k \in Notifiers, ClaimRead(j, k) \/ ClaimSave(j, k) \/ ClaimTell(j, k)
        PROVE  QuickInv'
    BY <2>6, ClaimMoves, QuietStep
       DEF ClaimRead, ClaimSave, ClaimTell, userVars, tabVars, pageVars
  <2>7. CASE CleanRemove(j) \/ CleanClose(j)
    BY <2>7, CleanupKeeps
  <2> QED BY <1>2, <2>1, <2>2, <2>3, <2>4, <2>5, <2>6, <2>7 DEF Serve
<1>3. ASSUME NEW j \in Jobs, Alarm(j) \/ \E side \in Sides : Removed(j, side) PROVE QuickInv'
  BY <1>3, NoticeMoves, QuietStep DEF Alarm, Removed, userVars, tabVars, pageVars
<1>4. ASSUME NEW j \in Jobs,
             (\E r \in {"created", "error"} : ResultRead(j, r)) \/ ResultFails(j)
      PROVE  QuickInv'
  BY <1>4, ResultMoves, QuietStep DEF ResultRead, ResultFails, userVars, tabVars, pageVars
<1>5. ASSUME NEW j \in Jobs, AddFails(j) PROVE QuickInv'
  BY <1>5, AddMoves, QuietStep DEF AddFails, tabVars, pageVars
<1>6. ASSUME NEW j \in Jobs, NEW k \in Notifiers, ClaimFails(j, k) PROVE QuickInv'
  BY <1>6, ClaimMoves, QuietStep DEF ClaimFails, tabVars, pageVars
<1>7. ASSUME NEW j \in Jobs, CloseWorkerTab(j) PROVE QuickInv'
  BY <1>7, StillMoves, CloseStep DEF CloseWorkerTab, userVars
<1>8. CASE (\E s \in Sources : CloseSource(s)) \/ Tick
  BY <1>8, StillMoves, QuietStep DEF CloseSource, Tick, tabVars, pageVars
<1>9. CASE Rest
  BY <1>9, WorkerMoves, QuietStep DEF Rest, userVars, tabVars, pageVars
<1> QED BY <1>1, <1>2, <1>3, <1>4, <1>5, <1>6, <1>7, <1>8, <1>9, StopKeeps,
           BeginKeeps, VerifyKeeps, PageKeeps, ReloadKeeps DEF Next

\* However often the user reloads, the app is busy and the worker is stopped, one
\* command saves at most one card: "never imports twice", for every set of jobs,
\* every limit and every number of faults.  (app-bridge.js,
\* browserExtensionImportRuntime.ts processPending.)
THEOREM ImportedOnce == QuickAddSpec => []NeverImportsTwice
<1>1. QuickInv => NeverImportsTwice
  BY DEF QuickInv, OneWay, Way, NeverImportsTwice
<1> QED BY <1>1, InvInit, InvNext, PTL DEF QuickAddSpec

-----------------------------------------------------------------------------
(* One outcome.  The invariant, job by job.                                *)

JobFields == {"source", "created", "bound", "import", "result", "error"}
Full(job) == DOMAIN job = JobFields
At(m, at) == \E k \in Notifiers : m.flow[k].at = at

\* No page was loaded for the job, and no result of one is on its way.
Silent(j) ==
    /\ tab[j] # "page" /\ page[j].bridge = "none" /\ page[j].app = "none" /\ answer[j] = {}
    /\ mem[j].result = "idle" /\ told[j].done = 0
\* The command has stored its job.
Begun(j) == mem[j].add # "save" /\ (asked[j] # NoSource \/ j \in Leftover)
\* The user has heard, or is about to hear, of the end of a job whose page may
\* have loaded or may still load.
Heard(j) ==
    \/ mem[j].result = "tell" \/ told[j].done > 0 \/ At(mem[j], "tell")
    \/ told[j].failed > 0 /\ (mem[j].add # "idle" \/ ~Silent(j))

OutShape(j) ==
    /\ told[j] \in [done : Nat, failed : Nat]
    /\ DOMAIN mem[j].flow = Notifiers
    /\ \A k \in Notifiers : DOMAIN mem[j].flow[k] = {"at", "bound"}
    /\ Stored(j) => Full(jobs[j])
    /\ mem[j].by # "free" => Full(mem[j].copy)
    /\ mem[j].verify = "save" => Full(mem[j].seen)
\* Who saves the end of a job holds its terminal lock.
Held(j) ==
    /\ mem[j].result = "save" => mem[j].by = "result"
    /\ \A k \in Notifiers : mem[j].flow[k].at = "save" => mem[j].by = k
\* Before the job is stored nothing can end it, and until the command is done with
\* its tab no result can come.
NotYet(j) ==
    /\ ~Begun(j) =>
         /\ ~Stored(j) /\ told[j].failed = 0 /\ mem[j].verify # "save"
         /\ ~At(mem[j], "save") /\ ~At(mem[j], "tell")
         /\ Silent(j)
    /\ asked[j] = NoSource /\ j \notin Leftover => mem[j].add = "idle"
    /\ mem[j].add # "idle" => Silent(j)
\* An end the user hears of is in storage, or the job is gone from it, and nobody
\* is about to save another one.
Over(j) ==
    j \notin undone /\ Heard(j) => (~Stored(j) \/ Claimed(jobs[j])) /\ mem[j].by = "free"
\* One kind of end.
Single(j) ==
    j \notin undone =>
        /\ told[j].done <= 1
        /\ mem[j].result = "tell" =>
              told[j].done = 0 /\ told[j].failed = 0 /\ ~At(mem[j], "tell")
        /\ At(mem[j], "tell") => told[j].done = 0
        /\ told[j].done > 0 => told[j].failed = 0
Good(j) == OutShape(j) /\ Held(j) /\ NotYet(j) /\ Over(j) /\ Single(j)
StoreShape == DOMAIN jobs = Jobs /\ DOMAIN answer = Jobs /\ DOMAIN told = Jobs
OutInv == StoreShape /\ \A j \in Jobs : Good(j)

-----------------------------------------------------------------------------
(* What the helpers leave of a job's way to its end.                       *)

Alike(m, n) ==
    /\ n.add = m.add /\ n.verify = m.verify /\ n.seen = m.seen /\ n.result = m.result
    /\ n.flow = m.flow /\ n.by = m.by /\ n.copy = m.copy

\* A cleanup does not touch it;
LEMMA CleaningLeaves ==
    ASSUME NEW m, DOMAIN m = MemFields, NEW b, NEW r
    PROVE  Alike(m, Cleaning(m, b, r))
BY DEF Cleaning, MemFields, Alike

\* a job that ends is cleaned up or is to be claimed;
LEMMA EndingLeaves ==
    ASSUME NEW m, DOMAIN m = MemFields, NEW job, NEW k
    PROVE  \/ Alike(m, Ending(m, job, k))
           \/ Alike([m EXCEPT !.flow[k] = Flow("claim", job.bound)], Ending(m, job, k))
<1>1. CASE Claimed(job)
  BY <1>1, CleaningLeaves DEF Ending
<1>2. CASE ~Claimed(job)
  BY <1>2 DEF Ending, Alike
<1> QED BY <1>1, <1>2

\* a command that is reported is at its end;
LEMMA ReportingLeaves ==
    ASSUME NEW m, DOMAIN m = MemFields, NEW b
    PROVE  Alike([m EXCEPT !.add = "report"], Reporting(m, b))
<1> DEFINE n == [m EXCEPT !.add = "report"]
<1>1. DOMAIN n = MemFields
  BY DEF MemFields
<1>2. Reporting(m, b) = Cleaning(n, b, FALSE)
  BY DEF Reporting
<1> HIDE DEF n
<1>3. Alike(n, Reporting(m, b))
  BY <1>1, <1>2, CleaningLeaves
<1> QED BY <1>3 DEF n

-----------------------------------------------------------------------------
(* Steps that leave a job's way to its end alone.                          *)

SameTab(j) ==
    /\ asked'[j] = asked[j] /\ tab'[j] = tab[j] /\ page'[j] = page[j]
    /\ answer'[j] = answer[j] /\ told'[j] = told[j]
SameJob(j) == jobs'[j] = jobs[j] /\ (j \in undone' <=> j \in undone)
Same(j) == Alike(mem[j], mem'[j]) /\ SameTab(j) /\ SameJob(j)

\* What a job's end depends on did not change.
LEMMA SameGood ==
    ASSUME NEW j \in Jobs, Good(j), Same(j)
    PROVE  Good(j)'
BY DEF Good, Same, Alike, SameTab, SameJob, OutShape, Held, NotYet, Over, Single,
       Heard, Begun, Silent, At, Stored

\* One job's memory goes on as n.
LEMMA OneAlike ==
    ASSUME MemShape, NEW j \in Jobs, NEW n, mem' = [mem EXCEPT ![j] = n]
    PROVE  mem'[j] = n /\ \A i \in Jobs : i # j => Alike(mem[i], mem'[i])
BY DEF MemShape, Alike

-----------------------------------------------------------------------------
(* The command.                                                            *)

\* A new command: its job is not in storage yet.  Of the other jobs those that are
\* over time are cleaned up.
LEMMA BeginOut ==
    ASSUME QuickInv, OutInv, NEW j \in Jobs, NEW s \in Sources, AddBegin(j, s)
    PROVE  OutInv'
<1> DEFINE m == mem[j]
           started == [m EXCEPT !.add = "save", !.created = clock]
           other(i) == IF Expired(i) THEN Cleaning(mem[i], jobs[i].bound, FALSE) ELSE mem[i]
<1>1. /\ mem = [i \in Jobs |-> mem[i]] /\ \A i \in Jobs : DOMAIN mem[i] = MemFields
      /\ asked = [i \in Jobs |-> asked[i]]
      /\ s # NoSource
  BY JobsAssumption DEF QuickInv, MemShape, TabShape
<1>2. /\ asked' = [asked EXCEPT ![j] = s] /\ asked[j] = NoSource /\ j \notin Leftover
      /\ UNCHANGED <<tab, page, answer, told, jobs, undone>>
      /\ \A i \in Jobs : i # j => mem'[i] = other(i)
      /\ mem'[j] = started \/ mem'[j] = Reporting(started, FALSE)
  BY DEF AddBegin, MayAsk, tabVars, pageVars
<1>3. ASSUME NEW i \in Jobs, i # j PROVE Good(i)'
  <2>1. Alike(mem[i], other(i))
    <3>1. CASE Expired(i)
      BY <1>1, <3>1, CleaningLeaves
    <3>2. CASE ~Expired(i)
      BY <3>2 DEF Alike
    <3> QED BY <3>1, <3>2
  <2>2. Same(i)
    BY <1>1, <1>2, <1>3, <2>1 DEF Same, SameTab, SameJob
  <2> QED BY <2>2, SameGood DEF OutInv
<1>4. Good(j) /\ ~Begun(j) /\ m.add = "idle"
  BY <1>2 DEF OutInv, Begun, Good, NotYet
<1>5. DOMAIN started = MemFields /\ Alike([m EXCEPT !.add = "save"], started)
  BY <1>1 DEF MemFields, Alike
<1>6. \/ Alike([m EXCEPT !.add = "save"], mem'[j])
      \/ Alike([m EXCEPT !.add = "report"], mem'[j])
  <2>1. CASE mem'[j] = started
    BY <1>5, <2>1
  <2>2. CASE mem'[j] = Reporting(started, FALSE)
    <3>1. Alike([started EXCEPT !.add = "report"], mem'[j])
      <4> HIDE DEF started
      <4> QED BY <1>5, <2>2, ReportingLeaves
    <3> QED BY <1>1, <1>5, <3>1 DEF Alike, MemFields
  <2> QED BY <1>2, <2>1, <2>2
<1>7. ASSUME NEW a \in {"save", "report"}, Alike([m EXCEPT !.add = a], mem'[j]) PROVE Good(j)'
  <2>1. /\ mem'[j].add = a /\ mem'[j].verify = m.verify /\ mem'[j].seen = m.seen
        /\ mem'[j].result = m.result /\ mem'[j].flow = m.flow /\ mem'[j].by = m.by
        /\ mem'[j].copy = m.copy
    BY <1>1, <1>7 DEF Alike, MemFields
  <2>2. asked'[j] = s
    BY <1>1, <1>2
  <2> QED BY <1>1, <1>2, <1>4, <2>1, <2>2
       DEF Good, OutShape, Held, NotYet, Over, Single, Heard, Begun, Silent, At, Stored
<1> QED BY <1>2, <1>3, <1>6, <1>7 DEF OutInv, StoreShape

\* What an action on one job leaves of the others.
LEMMA OthersGood ==
    ASSUME QuickInv, OutInv, NEW j \in Jobs, StoreShape',
           \A i \in Jobs : i # j => Same(i),
           Good(j)'
    PROVE  OutInv'
BY SameGood DEF OutInv

\* The command stores its job, opens its tab and stores that: an end that was
\* claimed in between is written over.
LEMMA AddOut ==
    ASSUME QuickInv, OutInv, NEW j \in Jobs, AddSave(j) \/ AddOpen(j) \/ AddBind(j)
    PROVE  OutInv'
<1> DEFINE m == mem[j]
<1>1. /\ mem = [i \in Jobs |-> mem[i]] /\ \A i \in Jobs : DOMAIN mem[i] = MemFields
      /\ DOMAIN jobs = Jobs /\ DOMAIN tab = Jobs /\ StoreShape /\ Good(j)
  BY DEF QuickInv, MemShape, TabShape, OutInv, StoreShape
<1>2. /\ UNCHANGED <<asked, page, answer, told>>
  BY DEF AddSave, AddOpen, AddBind, userVars, pageVars
<1>3. CASE AddSave(j)
  <2> DEFINE b == NewJob(asked[j], m.created)
  <2>1. Full(b) /\ ~Claimed(b) /\ b # NoJob
    BY DEF NewJob, Full, JobFields, Claimed, NoJob
  <2>2. m.add = "save" /\ jobs' = [jobs EXCEPT ![j] = b] /\ UNCHANGED <<tab, undone>>
        /\ mem' = [mem EXCEPT ![j].add = "open"]
    BY <1>3 DEF AddSave, tabVars
  <2> HIDE DEF b
  <2>3. /\ mem'[j].add = "open" /\ mem'[j].verify = m.verify /\ mem'[j].seen = m.seen
        /\ mem'[j].result = m.result /\ mem'[j].flow = m.flow /\ mem'[j].by = m.by
        /\ mem'[j].copy = m.copy /\ jobs'[j] = b
    BY <1>1, <2>2 DEF MemFields
  <2>4. \A i \in Jobs : i # j => Same(i)
    BY <1>1, <1>2, <2>2 DEF Same, SameTab, SameJob, Alike
  <2>5. Good(j)'
    BY <1>1, <1>2, <2>1, <2>2, <2>3
       DEF Good, OutShape, Held, NotYet, Over, Single, Heard, Begun, Silent, At, Stored
  <2> QED BY <1>1, <1>2, <2>2, <2>4, <2>5, OthersGood DEF StoreShape
<1>4. CASE AddOpen(j)
  <2>2. m.add = "open" /\ tab' = [tab EXCEPT ![j] = "blank"] /\ UNCHANGED <<jobs, undone>>
        /\ mem' = [mem EXCEPT ![j].add = "bind"]
    BY <1>4 DEF AddOpen
  <2>3. /\ mem'[j].add = "bind" /\ mem'[j].verify = m.verify /\ mem'[j].seen = m.seen
        /\ mem'[j].result = m.result /\ mem'[j].flow = m.flow /\ mem'[j].by = m.by
        /\ mem'[j].copy = m.copy /\ tab'[j] = "blank"
    BY <1>1, <2>2 DEF MemFields
  <2>4. \A i \in Jobs : i # j => Same(i)
    BY <1>1, <1>2, <2>2 DEF Same, SameTab, SameJob, Alike
  <2>5. Good(j)'
    BY <1>1, <1>2, <2>2, <2>3
       DEF Good, OutShape, Held, NotYet, Over, Single, Heard, Begun, Silent, At, Stored
  <2> QED BY <1>1, <1>2, <2>2, <2>4, <2>5, OthersGood DEF StoreShape
<1>5. CASE AddBind(j)
  <2> DEFINE b == [NewJob(asked[j], m.created) EXCEPT !.bound = TRUE]
  <2>1. Full(b) /\ ~Claimed(b) /\ b # NoJob
    BY DEF NewJob, Full, JobFields, Claimed, NoJob
  <2>2. m.add = "bind" /\ jobs' = [jobs EXCEPT ![j] = b] /\ UNCHANGED <<tab>>
        /\ mem' = [mem EXCEPT ![j].add = "go"] /\ WrittenOver(j)
    BY <1>5 DEF AddBind, tabVars
  <2> HIDE DEF b
  <2>3. /\ mem'[j].add = "go" /\ mem'[j].verify = m.verify /\ mem'[j].seen = m.seen
        /\ mem'[j].result = m.result /\ mem'[j].flow = m.flow /\ mem'[j].by = m.by
        /\ mem'[j].copy = m.copy /\ jobs'[j] = b
    BY <1>1, <2>2 DEF MemFields
  <2>4. \A i \in Jobs : i # j => Same(i)
    BY <1>1, <1>2, <2>2 DEF Same, SameTab, SameJob, Alike, WrittenOver
  <2>5. Good(j)'
    <3>1. j \notin undone' => Stored(j) /\ ~Claimed(jobs[j]) /\ j \notin undone
      BY <2>2 DEF WrittenOver
    <3> QED BY <1>1, <1>2, <2>1, <2>2, <2>3, <3>1
       DEF Good, OutShape, Held, NotYet, Over, Single, Heard, Begun, Silent, At, Stored
  <2> QED BY <1>1, <1>2, <2>2, <2>4, <2>5, OthersGood DEF StoreShape
<1> QED BY <1>3, <1>4, <1>5

\* The tab goes to the app's page, or is gone: from here on a result can come.
LEMMA GoOut ==
    ASSUME QuickInv, OutInv, NEW j \in Jobs, AddGo(j)
    PROVE  OutInv'
<1> DEFINE m == mem[j]
<1>1. /\ mem = [i \in Jobs |-> mem[i]] /\ \A i \in Jobs : DOMAIN mem[i] = MemFields
      /\ DOMAIN page = Jobs /\ DOMAIN tab = Jobs /\ StoreShape /\ Good(j)
  BY DEF QuickInv, MemShape, TabShape, OutInv
<1>2. UNCHANGED <<asked, answer, told, jobs, undone>> /\ m.add = "go"
  BY DEF AddGo, userVars
<1>3. CASE /\ tab[j] = "blank" /\ tab' = [tab EXCEPT ![j] = "page"]
           /\ page' = [page EXCEPT ![j] = [NoPage EXCEPT !.bridge = "hash", !.app = "loading"]]
           /\ mem' = [mem EXCEPT ![j].add = "idle"]
  <2>1. /\ mem'[j].add = "idle" /\ mem'[j].verify = m.verify /\ mem'[j].seen = m.seen
        /\ mem'[j].result = m.result /\ mem'[j].flow = m.flow /\ mem'[j].by = m.by
        /\ mem'[j].copy = m.copy /\ tab'[j] = "page"
    BY <1>1, <1>3 DEF MemFields
  <2>2. \A i \in Jobs : i # j => Same(i)
    BY <1>1, <1>2, <1>3 DEF Same, SameTab, SameJob, Alike
  <2>3. Good(j)'
    BY <1>1, <1>2, <2>1
       DEF Good, OutShape, Held, NotYet, Over, Single, Heard, Begun, Silent, At, Stored
  <2> QED BY <1>1, <1>2, <2>2, <2>3, OthersGood DEF StoreShape
<1>4. CASE UNCHANGED <<tab, page>> /\ mem' = [mem EXCEPT ![j] = Reporting(mem[j], TRUE)]
  <2> DEFINE n == Reporting(m, TRUE)
  <2>1. Alike([m EXCEPT !.add = "report"], n)
    BY <1>1, ReportingLeaves
  <2>2. mem' = [mem EXCEPT ![j] = n]
    BY <1>4
  <2> HIDE DEF n
  <2>3. /\ mem'[j].add = "report" /\ mem'[j].verify = m.verify /\ mem'[j].seen = m.seen
        /\ mem'[j].result = m.result /\ mem'[j].flow = m.flow /\ mem'[j].by = m.by
        /\ mem'[j].copy = m.copy
    BY <1>1, <2>1, <2>2 DEF MemFields, Alike
  <2>4. \A i \in Jobs : i # j => Same(i)
    BY <1>1, <1>2, <1>4, <2>2 DEF Same, SameTab, SameJob, Alike
  <2>5. Good(j)'
    <3>1. OutShape(j)' /\ Held(j)' /\ NotYet(j)'
      BY <1>1, <1>2, <1>4, <2>3
         DEF Good, OutShape, Held, NotYet, Begun, Silent, At, Stored
    <3>2. Over(j)' /\ Single(j)'
      BY <1>1, <1>2, <1>4, <2>3
         DEF Good, Over, Single, Heard, Silent, At, Stored
    <3> QED BY <3>1, <3>2 DEF Good
  <2> QED BY <1>1, <1>2, <2>4, <2>5, OthersGood DEF StoreShape
<1> QED BY <1>3, <1>4 DEF AddGo

\* A command that fails is reported, and its page never loads.
LEMMA FailsOut ==
    ASSUME QuickInv, OutInv, NEW j \in Jobs, AddFails(j) \/ AddReport(j)
    PROVE  OutInv'
<1> DEFINE m == mem[j]
<1>1. /\ mem = [i \in Jobs |-> mem[i]] /\ \A i \in Jobs : DOMAIN mem[i] = MemFields
      /\ StoreShape /\ Good(j)
  BY DEF QuickInv, MemShape, OutInv
<1>2. UNCHANGED <<asked, answer, jobs, undone, tab, page>> /\ m.add # "idle"
  BY DEF AddFails, AddReport, userVars, tabVars, pageVars
<1>3. CASE AddFails(j)
  <2> DEFINE n == Reporting(m, tab[j] # "none")
  <2>1. Alike([m EXCEPT !.add = "report"], n)
    <3> DEFINE b == tab[j] # "none"
    <3> HIDE DEF b
    <3> QED BY <1>1, ReportingLeaves
  <2>2. mem' = [mem EXCEPT ![j] = n] /\ UNCHANGED told
    BY <1>3 DEF AddFails
  <2> HIDE DEF n
  <2>3. /\ mem'[j].add = "report" /\ mem'[j].verify = m.verify /\ mem'[j].seen = m.seen
        /\ mem'[j].result = m.result /\ mem'[j].flow = m.flow /\ mem'[j].by = m.by
        /\ mem'[j].copy = m.copy
    BY <1>1, <2>1, <2>2 DEF MemFields, Alike
  <2>4. \A i \in Jobs : i # j => Same(i)
    BY <1>1, <1>2, <2>2 DEF Same, SameTab, SameJob, Alike
  <2>5. Good(j)'
    BY <1>1, <1>2, <2>2, <2>3
       DEF Good, OutShape, Held, NotYet, Over, Single, Heard, Begun, Silent, At, Stored
  <2> QED BY <1>1, <1>2, <2>2, <2>4, <2>5, OthersGood DEF StoreShape
<1>4. CASE AddReport(j)
  <2>1. mem' = [mem EXCEPT ![j].add = "idle"] /\ m.add = "report"
        /\ told' = [told EXCEPT ![j].failed = @ + 1]
    BY <1>4 DEF AddReport, Told
  <2>2. /\ mem'[j].add = "idle" /\ mem'[j].verify = m.verify /\ mem'[j].seen = m.seen
        /\ mem'[j].result = m.result /\ mem'[j].flow = m.flow /\ mem'[j].by = m.by
        /\ mem'[j].copy = m.copy
    BY <1>1, <2>1 DEF MemFields
  <2>3. told'[j] = [done |-> told[j].done, failed |-> told[j].failed + 1]
        /\ told[j] \in [done : Nat, failed : Nat]
    BY <1>1, <2>1 DEF StoreShape, Good, OutShape
  <2>4. \A i \in Jobs : i # j => Same(i)
    BY <1>1, <1>2, <2>1 DEF Same, SameTab, SameJob, Alike, StoreShape
  <2>5. told'[j].done = told[j].done /\ told'[j].failed > 0
        /\ told'[j] \in [done : Nat, failed : Nat]
    BY <2>3
  <2>6. Good(j)'
    BY <1>1, <1>2, <2>1, <2>2, <2>5
       DEF Good, OutShape, Held, NotYet, Over, Single, Heard, Begun, Silent, At, Stored
  <2> QED BY <1>1, <1>2, <2>1, <2>4, <2>6, OthersGood DEF StoreShape
<1> QED BY <1>3, <1>4

-----------------------------------------------------------------------------
(* The verification and the page.                                          *)

\* A page is there, so the command is done with its tab; the verification, as long
\* as the job is unclaimed, undoes no end.
LEMMA VerifyOut ==
    ASSUME QuickInv, OutInv, NEW j \in Jobs, VerifyRead(j) \/ VerifySave(j) \/ VerifyFails(j)
    PROVE  OutInv'
<1> DEFINE m == mem[j]
<1>1. /\ mem = [i \in Jobs |-> mem[i]] /\ \A i \in Jobs : DOMAIN mem[i] = MemFields
      /\ page = [i \in Jobs |-> page[i]] /\ page[j] \in Page /\ StoreShape /\ Good(j)
  BY DEF QuickInv, MemShape, TabShape, OutInv
<1>2. UNCHANGED <<asked, answer, told, tab>>
  BY DEF VerifyRead, VerifySave, VerifyFails, userVars, tabVars
<1>3. /\ page'[j].app = page[j].app /\ (page'[j].bridge = "none" <=> page[j].bridge = "none")
      /\ \A i \in Jobs : i # j => page'[i] = page[i]
  <2>1. \/ page' = page
        \/ /\ page[j].bridge # "none"
           /\ \/ page' = [page EXCEPT ![j].bridge = "asking"]
              \/ page' = [page EXCEPT ![j].bridge = "off"]
              \/ page' = [page EXCEPT ![j].bridge = "handed", ![j].stored = TRUE]
    BY DEF VerifyRead, VerifySave, VerifyFails
  <2>2. CASE page' = page
    BY <2>2
  <2>3. CASE page' = [page EXCEPT ![j].bridge = "handed", ![j].stored = TRUE]
    BY <1>1, <2>1, <2>3 DEF Page
  <2>4. ASSUME NEW b \in {"asking", "off"}, page' = [page EXCEPT ![j].bridge = b],
               page[j].bridge # "none"
        PROVE  /\ page'[j].app = page[j].app /\ page'[j].bridge # "none"
               /\ \A i \in Jobs : i # j => page'[i] = page[i]
    BY <1>1, <2>4 DEF Page
  <2> QED BY <2>1, <2>2, <2>3, <2>4
<1>4. CASE VerifyRead(j)
  <2>1. UNCHANGED <<jobs, undone>> /\ page[j].bridge = "hash"
    BY <1>4 DEF VerifyRead
  <2>2. \/ Stored(j) /\ mem' = [mem EXCEPT ![j].verify = "save", ![j].seen = jobs[j]]
        \/ mem' = [mem EXCEPT ![j] = Cleaning(mem[j], jobs[j].bound, FALSE)]
        \/ mem' = [mem EXCEPT ![j] = mem[j]]
    BY <1>4 DEF VerifyRead, Verifiable, Stored
  <2>3. CASE Stored(j) /\ mem' = [mem EXCEPT ![j].verify = "save", ![j].seen = jobs[j]]
    <3>1. /\ mem'[j].add = m.add /\ mem'[j].verify = "save" /\ mem'[j].seen = jobs[j]
          /\ mem'[j].result = m.result /\ mem'[j].flow = m.flow /\ mem'[j].by = m.by
          /\ mem'[j].copy = m.copy
      BY <1>1, <2>3 DEF MemFields
    <3>2. \A i \in Jobs : i # j => Same(i)
      BY <1>1, <1>2, <1>3, <2>1, <2>3 DEF Same, SameTab, SameJob, Alike
    <3>3. Good(j)'
      BY <1>1, <1>2, <1>3, <2>1, <2>3, <3>1
         DEF Good, OutShape, Held, NotYet, Over, Single, Heard, Begun, Silent, At, Stored
    <3> QED BY <1>1, <1>2, <2>1, <3>2, <3>3, OthersGood DEF StoreShape
  <2>4. ASSUME NEW n, Alike(m, n), mem' = [mem EXCEPT ![j] = n] PROVE OutInv'
    <3>1. mem'[j] = n
      BY <1>1, <2>4
    <3>2. \A i \in Jobs : i # j => Same(i)
      BY <1>1, <1>2, <1>3, <2>1, <2>4 DEF Same, SameTab, SameJob, Alike
    <3>3. Good(j)'
      BY <1>1, <1>2, <1>3, <2>1, <2>4, <3>1
         DEF Good, OutShape, Held, NotYet, Over, Single, Heard, Begun, Silent, At, Stored, Alike
    <3> QED BY <1>1, <1>2, <2>1, <3>2, <3>3, OthersGood DEF StoreShape
  <2>5. CASE mem' = [mem EXCEPT ![j] = Cleaning(mem[j], jobs[j].bound, FALSE)]
    <3> DEFINE b == jobs[j].bound
               n == Cleaning(m, b, FALSE)
    <3>1. mem' = [mem EXCEPT ![j] = n]
      BY <2>5
    <3>2. Alike(m, n)
      <4> HIDE DEF b
      <4> QED BY <1>1, CleaningLeaves
    <3> HIDE DEF n
    <3> QED BY <2>4, <3>1, <3>2
  <2>6. CASE mem' = [mem EXCEPT ![j] = mem[j]]
    <3>1. Alike(m, m)
      BY DEF Alike
    <3> QED BY <2>4, <2>6, <3>1
  <2> QED BY <2>2, <2>3, <2>5, <2>6
<1>5. CASE VerifySave(j) \/ VerifyFails(j)
  <2>1. m.verify = "save" /\ mem' = [mem EXCEPT ![j].verify = "idle", ![j].seen = NoJob]
    BY <1>5 DEF VerifySave, VerifyFails, VerifyDone
  <2>2. /\ mem'[j].add = m.add /\ mem'[j].verify = "idle"
        /\ mem'[j].result = m.result /\ mem'[j].flow = m.flow /\ mem'[j].by = m.by
        /\ mem'[j].copy = m.copy
    BY <1>1, <2>1 DEF MemFields
  <2>3. CASE VerifyFails(j)
    <3>1. UNCHANGED <<jobs, undone>>
      BY <2>3 DEF VerifyFails
    <3>2. \A i \in Jobs : i # j => Same(i)
      BY <1>1, <1>2, <1>3, <2>1, <3>1 DEF Same, SameTab, SameJob, Alike
    <3>3. Good(j)'
      BY <1>1, <1>2, <1>3, <2>2, <3>1
         DEF Good, OutShape, Held, NotYet, Over, Single, Heard, Begun, Silent, At, Stored
    <3> QED BY <1>1, <1>2, <3>1, <3>2, <3>3, OthersGood DEF StoreShape
  <2>4. CASE VerifySave(j)
    <3> DEFINE b == [m.seen EXCEPT !.import = TRUE]
    <3>1. Full(b) /\ b # NoJob
      BY <1>1, <2>1 DEF Good, OutShape, Full, JobFields, NoJob
    <3>2. jobs' = [jobs EXCEPT ![j] = b] /\ WrittenOver(j)
      BY <2>4 DEF VerifySave
    <3> HIDE DEF b
    <3>3. jobs'[j] = b
      BY <1>1, <3>2 DEF StoreShape
    <3>4. \A i \in Jobs : i # j => Same(i)
      BY <1>1, <1>2, <1>3, <2>1, <3>2 DEF Same, SameTab, SameJob, Alike, WrittenOver, StoreShape
    <3>5. j \notin undone' => Stored(j) /\ ~Claimed(jobs[j]) /\ j \notin undone
      BY <3>2 DEF WrittenOver
    <3>6. Good(j)'
      BY <1>1, <1>2, <1>3, <2>1, <2>2, <3>1, <3>3, <3>5
         DEF Good, OutShape, Held, NotYet, Over, Single, Heard, Begun, Silent, At, Stored
    <3> QED BY <1>1, <1>2, <3>2, <3>4, <3>6, OthersGood DEF StoreShape
  <2> QED BY <1>5, <2>3, <2>4
<1> QED BY <1>4, <1>5

\* A loaded page stays a loaded page, whatever it sends.
LEMMA LoadedOut ==
    ASSUME QuickInv, OutInv, NEW j \in Jobs, ~Silent(j), ~Silent(j)', StoreShape',
           UNCHANGED <<asked, tab, mem, jobs, told, undone>>,
           \A i \in Jobs : i # j => page'[i] = page[i] /\ answer'[i] = answer[i]
    PROVE  OutInv'
<1>1. Good(j)
  BY DEF OutInv
<1>2. \A i \in Jobs : i # j => Same(i)
  BY DEF Same, SameTab, SameJob, Alike
<1>3. Good(j)'
  BY <1>1 DEF Good, OutShape, Held, NotYet, Over, Single, Heard, Begun, At, Stored
<1> QED BY <1>2, <1>3, OthersGood

\* The bridge and the app.
LEMMA PageOut ==
    ASSUME QuickInv, OutInv, NEW j \in Jobs,
           \/ AppClaims(j) \/ BridgeHears(j) \/ BridgeGivesUp(j) \/ AppRefuses(j)
           \/ AppGenerates(j) \/ AppBusy(j) \/ AppSaves(j) \/ AppFails(j) \/ Reload(j)
    PROVE  OutInv'
<1> DEFINE p == page[j]
<1>1. UNCHANGED <<asked, tab, mem, jobs, told, undone>>
  BY DEF AppClaims, BridgeHears, BridgeGivesUp, AppRefuses, AppGenerates, AppBusy, AppSaves,
     AppFails, Reload, userVars, tabVars
<1>2. page = [i \in Jobs |-> page[i]] /\ p \in Page /\ StoreShape
  BY DEF QuickInv, TabShape, OutInv
<1>3. /\ \A i \in Jobs : i # j => page'[i] = page[i]
      /\ answer' = answer \/ \E r : answer' = [answer EXCEPT ![j] = @ \union {r}]
  BY <1>2 DEF AppClaims, BridgeHears, BridgeGivesUp, AppRefuses, AppGenerates, AppBusy,
     AppSaves, AppFails, Reload, Passing
<1>4. \/ p.app \notin {"none"} /\ page'[j].app \notin {"none"}
      \/ p.bridge \notin {"none"} /\ page'[j].bridge \notin {"none"}
      \/ tab[j] = "page"
  <2>1. CASE AppClaims(j)
    BY <1>2, <2>1 DEF AppClaims, Page
  <2>2. CASE BridgeHears(j)
    BY <1>2, <2>2 DEF BridgeHears, Page
  <2>3. CASE AppGenerates(j) \/ AppBusy(j)
    BY <1>2, <2>3 DEF AppGenerates, AppBusy, Page
  <2>4. CASE BridgeGivesUp(j)
    BY <1>2, <2>4 DEF BridgeGivesUp, Passing, Page
  <2>5. CASE AppRefuses(j) \/ AppSaves(j) \/ AppFails(j)
    BY <1>2, <2>5 DEF AppRefuses, AppSaves, AppFails, Passing, Page
  <2>6. CASE Reload(j)
    BY <2>6 DEF Reload
  <2> QED BY <2>1, <2>2, <2>3, <2>4, <2>5, <2>6
<1>5. ~Silent(j) /\ ~Silent(j)'
  BY <1>1, <1>4 DEF Silent
<1>6. StoreShape' /\ \A i \in Jobs : i # j => answer'[i] = answer[i]
  BY <1>1, <1>2, <1>3 DEF StoreShape
<1> QED BY <1>1, <1>3, <1>5, <1>6, LoadedOut

\* A worker tab that closes takes its page with it.
LEMMA ClosingOut ==
    ASSUME QuickInv, OutInv, NEW j \in Jobs, Open(j), Closing(j), Alike(mem[j], mem'[j]),
           \A i \in Jobs : i # j => Alike(mem[i], mem'[i]),
           UNCHANGED <<asked, jobs, answer, told, undone>>
    PROVE  OutInv'
<1>1. /\ DOMAIN page = Jobs /\ DOMAIN tab = Jobs /\ StoreShape /\ Good(j)
  BY DEF QuickInv, TabShape, OutInv
<1>2. tab'[j] = "closed" /\ page'[j].bridge = "none" /\ page'[j].app = "none"
  BY <1>1 DEF Closing, NoPage
<1>3. \A i \in Jobs : i # j => Same(i)
  BY <1>1 DEF Closing, Same, SameTab, SameJob
<1>4. Good(j)'
  BY <1>1, <1>2 
     DEF Good, OutShape, Held, NotYet, Over, Single, Heard, Begun, Silent, At, Stored, Alike
<1> QED BY <1>1, <1>3, <1>4, OthersGood DEF StoreShape

\* Steps that only touch alarms, cleanups, the clock or the source tabs.
LEMMA AsideOut ==
    ASSUME QuickInv, OutInv, \A i \in Jobs : Alike(mem[i], mem'[i]),
           UNCHANGED <<asked, tab, page, jobs, answer, told, undone>>
    PROVE  OutInv'
<1>1. \A i \in Jobs : Same(i)
  BY DEF Same, SameTab, SameJob
<1> QED BY <1>1, SameGood DEF OutInv, StoreShape

\* A job that is found over, or its tab closed, is cleaned up or is to be claimed:
\* neither ends it yet.
LEMMA EndOut ==
    ASSUME QuickInv, OutInv, NEW j \in Jobs, NEW n, NEW job, NEW k \in Notifiers,
           DOMAIN n = MemFields, Alike(mem[j], n),
           mem' = [mem EXCEPT ![j] = Ending(n, job, k)],
           UNCHANGED <<asked, tab, page, jobs, answer, told, undone>>
    PROVE  OutInv'
<1> DEFINE m == mem[j]
           e == Ending(n, job, k)
           f == Flow("claim", job.bound)
           c == [n EXCEPT !.flow[k] = f]
<1>1. Alike(n, e) \/ Alike(c, e)
  BY EndingLeaves
<1>2. f.at = "claim" /\ DOMAIN f = {"at", "bound"}
  BY DEF Flow
<1> HIDE DEF e, f
<1>3. mem'[j] = e /\ \A i \in Jobs : i # j => Alike(mem[i], mem'[i])
  <2>1. mem' = [mem EXCEPT ![j] = e]
    BY DEF e
  <2> QED BY <2>1, OneAlike DEF QuickInv
<1>4. CASE Alike(n, e)
  <2>1. \A i \in Jobs : Alike(mem[i], mem'[i])
    BY <1>3, <1>4 DEF Alike
  <2> QED BY <2>1, AsideOut
<1>5. CASE Alike(c, e)
  <2>1. /\ e.add = m.add /\ e.verify = m.verify /\ e.seen = m.seen /\ e.result = m.result
        /\ e.by = m.by /\ e.copy = m.copy /\ e.flow = [m.flow EXCEPT ![k] = f]
    BY <1>5 DEF Alike, MemFields
  <2>2. Good(j) /\ DOMAIN m.flow = Notifiers
    BY DEF OutInv, Good, OutShape
  <2>3. /\ DOMAIN e.flow = Notifiers
        /\ \A l \in Notifiers : DOMAIN e.flow[l] = {"at", "bound"}
        /\ \A l \in Notifiers : e.flow[l].at \in {"save", "tell"} => e.flow[l].at = m.flow[l].at
    BY <1>2, <2>1, <2>2 DEF Good, OutShape
  <2>4. Good(j)'
    BY <1>3, <2>1, <2>2, <2>3
       DEF Good, OutShape, Held, NotYet, Over, Single, Heard, Begun, Silent, At, Stored
  <2>5. \A i \in Jobs : i # j => Same(i)
    BY <1>3 DEF Same, SameTab, SameJob
  <2> QED BY <2>4, <2>5, OthersGood DEF OutInv, StoreShape
<1> QED BY <1>1, <1>4, <1>5

-----------------------------------------------------------------------------
(* The ends of a job.                                                      *)

\* A result is taken up if the job has not ended, under the terminal lock.
LEMMA ReadOut ==
    ASSUME QuickInv, OutInv, NEW j \in Jobs, NEW r, ResultRead(j, r)
    PROVE  OutInv'
<1> DEFINE m == mem[j]
<1>1. /\ mem = [i \in Jobs |-> mem[i]] /\ \A i \in Jobs : DOMAIN mem[i] = MemFields
      /\ StoreShape /\ Good(j)
  BY DEF QuickInv, MemShape, OutInv
<1>2. /\ UNCHANGED <<asked, told, tab, page, jobs, undone>>
      /\ answer' = [answer EXCEPT ![j] = @ \ {r}] /\ r \in answer[j]
      /\ m.result = "idle" /\ m.by = "free"
  BY DEF ResultRead, userVars, tabVars
<1>3. ~Silent(j) /\ m.add = "idle"
  BY <1>1, <1>2 DEF Silent, Good, NotYet
<1>4. \A i \in Jobs : i # j => answer'[i] = answer[i]
  BY <1>1, <1>2 DEF StoreShape
<1>5. CASE mem' = mem
  <2>1. \A i \in Jobs : i # j => Same(i)
    BY <1>2, <1>4, <1>5 DEF Same, SameTab, SameJob, Alike
  <2>2. Good(j)'
    BY <1>1, <1>2, <1>3, <1>5
       DEF Good, OutShape, Held, NotYet, Over, Single, Heard, Begun, At, Stored
  <2> QED BY <1>1, <1>2, <2>1, <2>2, OthersGood DEF StoreShape
<1>6. CASE /\ Stored(j) /\ ~Claimed(jobs[j])
           /\ mem' = [mem EXCEPT ![j].result = "save", ![j].status = r,
                                 ![j].by = "result", ![j].copy = jobs[j]]
  <2>1. /\ mem'[j].add = m.add /\ mem'[j].verify = m.verify /\ mem'[j].seen = m.seen
        /\ mem'[j].result = "save" /\ mem'[j].flow = m.flow /\ mem'[j].by = "result"
        /\ mem'[j].copy = jobs[j]
    BY <1>1, <1>6 DEF MemFields
  <2>2. \A i \in Jobs : i # j => Same(i)
    BY <1>1, <1>2, <1>4, <1>6 DEF Same, SameTab, SameJob, Alike
  <2>3. \A k \in Notifiers : m.flow[k].at # "save"
    BY <1>1, <1>2 DEF Good, Held, Notifiers, Sides
  <2>4. Good(j)'
    <3>1. OutShape(j)' /\ Held(j)' /\ NotYet(j)'
      BY <1>1, <1>2, <1>3, <1>6, <2>1, <2>3
         DEF Good, OutShape, Held, NotYet, Begun, At, Stored
    <3>2. Over(j)' /\ Single(j)'
      BY <1>1, <1>2, <1>3, <1>6, <2>1, <2>3
         DEF Good, Over, Single, Heard, At, Stored
    <3> QED BY <3>1, <3>2 DEF Good
  <2> QED BY <1>1, <1>2, <2>2, <2>4, OthersGood DEF StoreShape
<1> QED BY <1>5, <1>6 DEF ResultRead

\* Only the holder of the lock saves the end, so no other end was told.
LEMMA SaveOut ==
    ASSUME QuickInv, OutInv, NEW j \in Jobs, ResultSave(j) \/ ResultFails(j)
    PROVE  OutInv'
<1> DEFINE m == mem[j]
<1>1. /\ mem = [i \in Jobs |-> mem[i]] /\ \A i \in Jobs : DOMAIN mem[i] = MemFields
      /\ StoreShape /\ Good(j)
  BY DEF QuickInv, MemShape, OutInv
<1>2. UNCHANGED <<asked, told, tab, page, answer, undone>> /\ m.result = "save"
  BY DEF ResultSave, ResultFails, userVars, tabVars, pageVars
<1>3. /\ m.by = "result" /\ m.add = "idle" /\ Full(m.copy) /\ ~Silent(j)
      /\ \A k \in Notifiers : m.flow[k].at # "save"
  BY <1>1, <1>2 DEF Good, Held, Silent, NotYet, OutShape, Notifiers, Sides
<1>4. CASE ResultSave(j)
  <2> DEFINE b == [m.copy EXCEPT !.result = TRUE]
             n == [Released(m) EXCEPT !.result = "tell"]
  <2>1. Full(b) /\ b # NoJob /\ Claimed(b)
    BY <1>3 DEF Full, JobFields, NoJob, Claimed
  <2>2. /\ n.add = m.add /\ n.verify = m.verify /\ n.seen = m.seen /\ n.flow = m.flow
        /\ n.result = "tell" /\ n.by = "free"
    BY <1>1 DEF Released, MemFields
  <2>3. jobs' = [jobs EXCEPT ![j] = b] /\ mem' = [mem EXCEPT ![j] = n]
    BY <1>4 DEF ResultSave
  <2> HIDE DEF b, n
  <2>4. jobs'[j] = b /\ mem'[j] = n
    BY <1>1, <2>3 DEF StoreShape
  <2>5. \A i \in Jobs : i # j => Same(i)
    BY <1>1, <1>2, <2>3 DEF Same, SameTab, SameJob, Alike, StoreShape
  <2>6. Good(j)'
    BY <1>1, <1>2, <1>3, <2>1, <2>2, <2>4
       DEF Good, OutShape, Held, NotYet, Over, Single, Heard, Begun, Silent, At, Stored
  <2> QED BY <1>1, <1>2, <2>3, <2>5, <2>6, OthersGood DEF StoreShape
<1>5. CASE ResultFails(j)
  <2> DEFINE n == [Released(m) EXCEPT !.result = "idle", !.status = "none"]
  <2>2. /\ n.add = m.add /\ n.verify = m.verify /\ n.seen = m.seen /\ n.flow = m.flow
        /\ n.result = "idle" /\ n.by = "free"
    BY <1>1 DEF Released, MemFields
  <2>3. UNCHANGED jobs /\ mem' = [mem EXCEPT ![j] = n]
    BY <1>5 DEF ResultFails
  <2> HIDE DEF n
  <2>4. mem'[j] = n
    BY <1>1, <2>3
  <2>5. \A i \in Jobs : i # j => Same(i)
    BY <1>1, <1>2, <2>3 DEF Same, SameTab, SameJob, Alike
  <2>6. Good(j)'
    BY <1>1, <1>2, <1>3, <2>2, <2>3, <2>4
       DEF Good, OutShape, Held, NotYet, Over, Single, Heard, Begun, At, Stored
  <2> QED BY <1>1, <1>2, <2>3, <2>5, <2>6, OthersGood DEF StoreShape
<1> QED BY <1>4, <1>5

\* The result is told once, and nothing else was.
LEMMA TellOut ==
    ASSUME QuickInv, OutInv, NEW j \in Jobs, ResultTell(j)
    PROVE  OutInv'
<1> DEFINE m == mem[j]
           n == [m EXCEPT !.result = "idle", !.status = "none"]
           b == jobs[j] # NoJob => jobs[j].bound
           c == Cleaning(n, b, FALSE)
           what == IF m.status = "created" THEN "done" ELSE "failed"
<1>1. /\ mem = [i \in Jobs |-> mem[i]] /\ \A i \in Jobs : DOMAIN mem[i] = MemFields
      /\ StoreShape /\ Good(j)
  BY DEF QuickInv, MemShape, OutInv
<1>2. /\ UNCHANGED <<asked, tab, page, answer, jobs, undone>> /\ m.result = "tell"
      /\ told' = [told EXCEPT ![j][what] = @ + 1] /\ mem' = [mem EXCEPT ![j] = c]
  BY DEF ResultTell, Told, userVars, tabVars, pageVars
<1>3. m.add = "idle" /\ ~Silent(j)
  BY <1>1, <1>2 DEF Good, Silent, NotYet
<1>4. DOMAIN n = MemFields /\ n.result = "idle" /\ Alike([m EXCEPT !.result = "idle"], n)
  BY <1>1 DEF MemFields, Alike
<1>5. Alike(n, c)
  <2> HIDE DEF n, b
  <2> QED BY <1>4, CleaningLeaves
<1> HIDE DEF c
<1>6. /\ mem'[j].add = m.add /\ mem'[j].verify = m.verify /\ mem'[j].seen = m.seen
      /\ mem'[j].result = "idle" /\ mem'[j].flow = m.flow /\ mem'[j].by = m.by
      /\ mem'[j].copy = m.copy
  BY <1>1, <1>2, <1>5 DEF MemFields, Alike
<1>7. /\ told[j] \in [done : Nat, failed : Nat] /\ told'[j] \in [done : Nat, failed : Nat]
      /\ \/ told'[j].done = told[j].done + 1 /\ told'[j].failed = told[j].failed
         \/ told'[j].done = told[j].done /\ told'[j].failed = told[j].failed + 1
  <2>1. told[j] \in [done : Nat, failed : Nat] /\ j \in DOMAIN told
    BY <1>1 DEF Good, OutShape, StoreShape
  <2> QED BY <1>2, <2>1
<1>8. \A i \in Jobs : i # j => Same(i)
  BY <1>1, <1>2 DEF Same, SameTab, SameJob, Alike, StoreShape
<1>9. Good(j)'
  BY <1>1, <1>2, <1>3, <1>6, <1>7
     DEF Good, OutShape, Held, NotYet, Over, Single, Heard, Begun, At, Stored
<1> QED BY <1>1, <1>2, <1>8, <1>9, OthersGood DEF StoreShape

\* An alarm or a closed tab.
LEMMA NoticeOut ==
    ASSUME QuickInv, OutInv, NEW j \in Jobs, Alarm(j) \/ \E side \in Sides : Removed(j, side)
    PROVE  OutInv'
<1> DEFINE m == mem[j]
           job == jobs[j]
<1>1. /\ mem = [i \in Jobs |-> mem[i]] /\ \A i \in Jobs : DOMAIN mem[i] = MemFields
  BY DEF QuickInv, MemShape
<1>2. UNCHANGED <<asked, told, tab, page, answer, jobs, undone>>
  BY DEF Alarm, Removed, userVars, tabVars, pageVars
<1>3. CASE mem' = mem
  <2>1. \A i \in Jobs : Alike(mem[i], mem'[i])
    BY <1>3 DEF Alike
  <2> QED BY <1>2, <2>1, AsideOut
<1>4. CASE Alarm(j)
  <2>1. CASE mem' = [mem EXCEPT ![j].rearm = TRUE]
    <3>1. \A i \in Jobs : Alike(mem[i], mem'[i])
      BY <1>1, <2>1 DEF Alike, MemFields
    <3> QED BY <1>2, <3>1, AsideOut
  <2>2. CASE mem' = [mem EXCEPT ![j] = Ending(m, job, "alarm")]
    <3>1. DOMAIN m = MemFields /\ Alike(mem[j], m) /\ "alarm" \in Notifiers
      BY <1>1 DEF Alike, Notifiers
    <3> HIDE DEF m, job
    <3> QED BY <1>2, <2>2, <3>1, EndOut
  <2> QED BY <1>3, <1>4, <2>1, <2>2 DEF Alarm
<1>5. ASSUME NEW side \in Sides, Removed(j, side) PROVE OutInv'
  <2> DEFINE n == [m EXCEPT !.removing = TRUE]
  <2>1. DOMAIN n = MemFields /\ Alike(mem[j], n) /\ side \in Notifiers
    BY <1>1 DEF Alike, MemFields, Notifiers
  <2>2. mem' = mem \/ mem' = [mem EXCEPT ![j] = Ending(n, job, side)]
    BY <1>5 DEF Removed
  <2> HIDE DEF n, job
  <2> QED BY <1>2, <1>3, <2>1, <2>2, EndOut
<1> QED BY <1>4, <1>5

\* The terminal error is claimed by whoever finds the job stored and unclaimed
\* under the terminal lock.
LEMMA ClaimOut ==
    ASSUME QuickInv, OutInv, NEW j \in Jobs, NEW k \in Notifiers, ClaimRead(j, k)
    PROVE  OutInv'
<1> DEFINE m == mem[j]
           claiming == [m EXCEPT !.claimed = TRUE]
           taken == [claiming EXCEPT !.flow[k].at = "save", !.by = k, !.copy = jobs[j]]
           left == [claiming EXCEPT !.flow[k] = NoFlow]
           b == m.flow[k].bound
           c == Cleaning(left, b, TRUE)
<1>1. /\ mem = [i \in Jobs |-> mem[i]] /\ \A i \in Jobs : DOMAIN mem[i] = MemFields
      /\ StoreShape /\ Good(j)
      /\ DOMAIN m.flow = Notifiers /\ \A l \in Notifiers : DOMAIN m.flow[l] = {"at", "bound"}
  BY DEF QuickInv, MemShape, OutInv, Good, OutShape
<1>2. /\ UNCHANGED <<asked, told, tab, page, answer, jobs, undone>>
      /\ m.flow[k].at = "claim" /\ m.by = "free"
      /\ \/ Stored(j) /\ ~Claimed(jobs[j]) /\ mem' = [mem EXCEPT ![j] = taken]
         \/ mem' = [mem EXCEPT ![j] = c]
  BY DEF ClaimRead, userVars, tabVars, pageVars
<1>3. DOMAIN claiming = MemFields /\ Alike(m, claiming)
  BY <1>1 DEF MemFields, Alike
<1>4. CASE Stored(j) /\ ~Claimed(jobs[j]) /\ mem' = [mem EXCEPT ![j] = taken]
  <2>1. /\ taken.add = m.add /\ taken.verify = m.verify /\ taken.seen = m.seen
        /\ taken.result = m.result /\ taken.by = k /\ taken.copy = jobs[j]
        /\ taken.flow = [m.flow EXCEPT ![k].at = "save"]
    <3> HIDE DEF claiming
    <3> QED BY <1>3 DEF MemFields, Alike
  <2> HIDE DEF taken
  <2>2. mem'[j] = taken
    BY <1>1, <1>4
  <2>3. \A i \in Jobs : i # j => Same(i)
    BY <1>1, <1>2, <1>4 DEF Same, SameTab, SameJob, Alike
  <2>4. /\ DOMAIN taken.flow = Notifiers
        /\ \A l \in Notifiers : DOMAIN taken.flow[l] = {"at", "bound"}
        /\ taken.flow[k].at = "save"
        /\ \A l \in Notifiers : l # k => taken.flow[l] = m.flow[l]
    BY <1>1, <2>1
  <2>5. m.result # "save" /\ \A l \in Notifiers : m.flow[l].at # "save"
    BY <1>1, <1>2 DEF Good, Held, Notifiers, Sides
  <2>6. Begun(j)
    BY <1>1, <1>4 DEF Good, NotYet
  <2>7. At(taken, "tell") => At(m, "tell")
    BY <2>4 DEF At
  <2>8. Good(j)'
    BY <1>1, <1>2, <1>4, <2>1, <2>2, <2>4, <2>5, <2>6, <2>7
       DEF Good, OutShape, Held, NotYet, Over, Single, Heard, Begun, Silent, Stored
  <2> QED BY <1>1, <1>2, <2>3, <2>8, OthersGood DEF StoreShape
<1>5. CASE mem' = [mem EXCEPT ![j] = c]
  <2>1. DOMAIN left = MemFields /\ Alike([m EXCEPT !.flow[k] = NoFlow], left)
    <3> HIDE DEF claiming
    <3> QED BY <1>1, <1>3 DEF MemFields, Alike
  <2>2. Alike(left, c)
    <3> HIDE DEF left, b
    <3> QED BY <2>1, CleaningLeaves
  <2>3. /\ c.add = m.add /\ c.verify = m.verify /\ c.seen = m.seen
        /\ c.result = m.result /\ c.by = m.by /\ c.copy = m.copy
        /\ c.flow = [m.flow EXCEPT ![k] = NoFlow]
    <3> HIDE DEF c, left
    <3> QED BY <1>1, <2>1, <2>2 DEF MemFields, Alike
  <2> HIDE DEF c
  <2>4. mem'[j] = c /\ \A i \in Jobs : i # j => Same(i)
    BY <1>1, <1>2, <1>5 DEF Same, SameTab, SameJob, Alike
  <2>5. /\ DOMAIN c.flow = Notifiers
        /\ \A l \in Notifiers : DOMAIN c.flow[l] = {"at", "bound"}
        /\ \A l \in Notifiers : c.flow[l].at \in {"save", "tell"} => c.flow[l].at = m.flow[l].at
    BY <1>1, <2>3 DEF NoFlow, Flow
  <2>6. Good(j)'
    BY <1>1, <1>2, <2>3, <2>4, <2>5
       DEF Good, OutShape, Held, NotYet, Over, Single, Heard, Begun, Silent, At, Stored
  <2> QED BY <1>1, <1>2, <2>4, <2>6, OthersGood DEF StoreShape
<1> QED BY <1>2, <1>4, <1>5

\* It is saved by the holder of the lock, so no other end was told.
LEMMA ClaimSaveOut ==
    ASSUME QuickInv, OutInv, NEW j \in Jobs, NEW k \in Notifiers,
           ClaimSave(j, k) \/ ClaimFails(j, k)
    PROVE  OutInv'
<1> DEFINE m == mem[j]
<1>1. /\ mem = [i \in Jobs |-> mem[i]] /\ \A i \in Jobs : DOMAIN mem[i] = MemFields
      /\ StoreShape /\ Good(j)
      /\ DOMAIN m.flow = Notifiers /\ \A l \in Notifiers : DOMAIN m.flow[l] = {"at", "bound"}
  BY DEF QuickInv, MemShape, OutInv, Good, OutShape
<1>2. UNCHANGED <<asked, told, tab, page, answer, undone>> /\ m.flow[k].at = "save"
  BY DEF ClaimSave, ClaimFails, userVars, tabVars, pageVars
<1>3. /\ m.by = k /\ m.result # "save" /\ Begun(j) /\ Full(m.copy)
      /\ \A l \in Notifiers : l # k => m.flow[l].at # "save"
  BY <1>1, <1>2 DEF Good, Held, NotYet, OutShape, At, Notifiers, Sides
<1>r. /\ DOMAIN Released(m) = MemFields
      /\ Alike([m EXCEPT !.by = "free", !.copy = NoJob], Released(m))
  BY <1>1, ReleasedKeeps DEF Released, Alike
<1>4. CASE ClaimSave(j, k)
  <2> DEFINE b == [m.copy EXCEPT !.error = TRUE]
             n == [Released(m) EXCEPT !.flow[k].at = "tell"]
  <2>1. Full(b) /\ b # NoJob /\ Claimed(b)
    BY <1>3 DEF Full, JobFields, NoJob, Claimed
  <2>2. /\ n.add = m.add /\ n.verify = m.verify /\ n.seen = m.seen /\ n.result = m.result
        /\ n.by = "free" /\ n.flow = [m.flow EXCEPT ![k].at = "tell"]
    BY <1>1, <1>r DEF MemFields, Alike
  <2>3. jobs' = [jobs EXCEPT ![j] = b] /\ mem' = [mem EXCEPT ![j] = n]
    BY <1>4 DEF ClaimSave
  <2> HIDE DEF b, n
  <2>4. jobs'[j] = b /\ mem'[j] = n
    BY <1>1, <2>3 DEF StoreShape
  <2>5. \A i \in Jobs : i # j => Same(i)
    BY <1>1, <1>2, <2>3 DEF Same, SameTab, SameJob, Alike, StoreShape
  <2>6. /\ DOMAIN n.flow = Notifiers
        /\ \A l \in Notifiers : DOMAIN n.flow[l] = {"at", "bound"}
        /\ \A l \in Notifiers : n.flow[l].at # "save"
    BY <1>1, <1>3, <2>2
  <2>7. j \notin undone => m.result # "tell" /\ told[j].done = 0
    <3>1. told[j].done \in Nat /\ m.by # "free"
      BY <1>1, <1>3 DEF Good, OutShape, Notifiers, Sides
    <3> QED BY <1>1, <3>1 DEF Good, Over, Heard
  <2>8. Good(j)'
    BY <1>1, <1>2, <1>3, <2>1, <2>2, <2>4, <2>6, <2>7
       DEF Good, OutShape, Held, NotYet, Over, Single, Heard, Begun, Silent, Stored
  <2> QED BY <1>1, <1>2, <2>3, <2>5, <2>8, OthersGood DEF StoreShape
<1>5. CASE ClaimFails(j, k)
  <2> DEFINE n == [Released(m) EXCEPT !.flow[k] = NoFlow, !.claimed = FALSE]
  <2>2. /\ n.add = m.add /\ n.verify = m.verify /\ n.seen = m.seen /\ n.result = m.result
        /\ n.by = "free" /\ n.flow = [m.flow EXCEPT ![k] = NoFlow]
    BY <1>1, <1>r DEF MemFields, Alike
  <2>3. UNCHANGED jobs /\ mem' = [mem EXCEPT ![j] = n]
    BY <1>5 DEF ClaimFails
  <2> HIDE DEF n
  <2>4. mem'[j] = n
    BY <1>1, <2>3
  <2>5. \A i \in Jobs : i # j => Same(i)
    BY <1>1, <1>2, <2>3 DEF Same, SameTab, SameJob, Alike
  <2>6. /\ DOMAIN n.flow = Notifiers
        /\ \A l \in Notifiers : DOMAIN n.flow[l] = {"at", "bound"}
        /\ \A l \in Notifiers : n.flow[l].at \in {"save", "tell"} => n.flow[l].at = m.flow[l].at
    BY <1>1, <2>2 DEF NoFlow, Flow
  <2>7. /\ At(n, "tell") => At(m, "tell")
        /\ \A l \in Notifiers : n.flow[l].at # "save"
    BY <1>1, <1>3, <2>2, <2>6 DEF At, NoFlow, Flow
  <2>8. Good(j)'
    <3>1. OutShape(j)' /\ Held(j)' /\ NotYet(j)'
      BY <1>1, <1>2, <1>3, <2>2, <2>3, <2>4, <2>6, <2>7
         DEF Good, OutShape, Held, NotYet, Begun, Silent, Stored
    <3>2. Over(j)' /\ Single(j)'
      BY <1>1, <1>2, <1>3, <2>2, <2>3, <2>4, <2>7
         DEF Good, Over, Single, Heard, Silent, Stored
    <3> QED BY <3>1, <3>2 DEF Good
  <2> QED BY <1>1, <1>2, <2>3, <2>5, <2>8, OthersGood DEF StoreShape
<1> QED BY <1>4, <1>5

\* The error is told, when no card was.
LEMMA ClaimTellOut ==
    ASSUME QuickInv, OutInv, NEW j \in Jobs, NEW k \in Notifiers, ClaimTell(j, k)
    PROVE  OutInv'
<1> DEFINE m == mem[j]
           n == [m EXCEPT !.flow[k] = NoFlow]
           b == m.flow[k].bound
           c == Cleaning(n, b, TRUE)
<1>1. /\ mem = [i \in Jobs |-> mem[i]] /\ \A i \in Jobs : DOMAIN mem[i] = MemFields
      /\ StoreShape /\ Good(j)
      /\ DOMAIN m.flow = Notifiers /\ \A l \in Notifiers : DOMAIN m.flow[l] = {"at", "bound"}
  BY DEF QuickInv, MemShape, OutInv, Good, OutShape
<1>2. /\ UNCHANGED <<asked, tab, page, answer, jobs, undone>> /\ m.flow[k].at = "tell"
      /\ told' = [told EXCEPT ![j].failed = @ + 1] /\ mem' = [mem EXCEPT ![j] = c]
  BY DEF ClaimTell, Told, userVars, tabVars, pageVars
<1>3. DOMAIN n = MemFields
  BY <1>1 DEF MemFields
<1>4. Alike(n, c)
  <2> HIDE DEF n, b
  <2> QED BY <1>3, CleaningLeaves
<1> HIDE DEF c
<1>5. /\ c.add = m.add /\ c.verify = m.verify /\ c.seen = m.seen
      /\ c.result = m.result /\ c.by = m.by /\ c.copy = m.copy
      /\ c.flow = [m.flow EXCEPT ![k] = NoFlow]
  BY <1>1, <1>4 DEF MemFields, Alike
<1>6. mem'[j] = c /\ \A i \in Jobs : i # j => Same(i)
  BY <1>1, <1>2 DEF Same, SameTab, SameJob, Alike, StoreShape
<1>7. /\ DOMAIN c.flow = Notifiers
      /\ \A l \in Notifiers : DOMAIN c.flow[l] = {"at", "bound"}
      /\ \A l \in Notifiers : c.flow[l].at \in {"save", "tell"} => c.flow[l].at = m.flow[l].at
  BY <1>1, <1>5 DEF NoFlow, Flow
<1>8. told[j] \in [done : Nat, failed : Nat] /\ told'[j].done = told[j].done
      /\ told'[j] \in [done : Nat, failed : Nat]
  <2>1. told[j] \in [done : Nat, failed : Nat] /\ j \in DOMAIN told
    BY <1>1 DEF Good, OutShape, StoreShape
  <2> QED BY <1>2, <2>1
<1>9. Begun(j) /\ (j \notin undone => told[j].done = 0 /\ m.result # "tell") /\ Heard(j)
  BY <1>1, <1>2, <1>8 DEF Good, NotYet, At, Single, Heard
<1>10. Good(j)'
  BY <1>1, <1>2, <1>5, <1>6, <1>7, <1>8, <1>9
     DEF Good, OutShape, Held, NotYet, Over, Single, Heard, Begun, Silent, At, Stored
<1> QED BY <1>1, <1>2, <1>6, <1>10, OthersGood DEF StoreShape

\* A cleanup takes the job from storage and closes its tab.
LEMMA CleanOut ==
    ASSUME QuickInv, OutInv, NEW j \in Jobs, CleanRemove(j) \/ CleanClose(j)
    PROVE  OutInv'
<1> DEFINE m == mem[j]
<1>1. /\ mem = [i \in Jobs |-> mem[i]] /\ \A i \in Jobs : DOMAIN mem[i] = MemFields
      /\ StoreShape /\ Good(j)
  BY DEF QuickInv, MemShape, OutInv
<1>2. UNCHANGED <<asked, told, answer, undone>>
  BY DEF CleanRemove, CleanClose, userVars, tabVars, pageVars
<1>3. CASE CleanRemove(j)
  <2>1. \/ mem' = [mem EXCEPT ![j].clean = "close", ![j].removed = TRUE]
        \/ mem' = [mem EXCEPT ![j].clean = "close"]
    BY <1>3 DEF CleanRemove
  <2>2. \A i \in Jobs : Alike(mem[i], mem'[i])
    BY <1>1, <2>1 DEF MemFields, Alike
  <2>3. UNCHANGED <<tab, page>> /\ (UNCHANGED jobs \/ jobs' = [jobs EXCEPT ![j] = NoJob])
    BY <1>3 DEF CleanRemove, tabVars, pageVars
  <2>4. CASE UNCHANGED jobs
    BY <1>2, <2>2, <2>3, <2>4, AsideOut
  <2>5. CASE jobs' = [jobs EXCEPT ![j] = NoJob]
    <3>1. jobs'[j] = NoJob /\ \A i \in Jobs : i # j => Same(i)
      BY <1>1, <1>2, <2>2, <2>3, <2>5 DEF Same, SameTab, SameJob, StoreShape
    <3>2. Alike(m, mem'[j])
      BY <2>2
    <3>3. Good(j)'
      BY <1>1, <1>2, <2>3, <3>1, <3>2
         DEF Good, OutShape, Held, NotYet, Over, Single, Heard, Begun, Silent, At, Stored, Alike
    <3> QED BY <1>1, <1>2, <2>5, <3>1, <3>3, OthersGood DEF StoreShape
  <2> QED BY <2>3, <2>4, <2>5
<1>4. CASE CleanClose(j)
  <2> DEFINE n == [m EXCEPT !.clean = "idle", !.bound = FALSE, !.rearm = FALSE,
                            !.removed = FALSE, !.removing = FALSE,
                            !.claimed = @ /\ ~m.removed]
  <2>1. Alike(m, n)
    BY <1>1 DEF MemFields, Alike
  <2>2. mem' = [mem EXCEPT ![j] = n] /\ UNCHANGED jobs
    BY <1>4 DEF CleanClose
  <2> HIDE DEF n
  <2>3. Alike(mem[j], mem'[j]) /\ \A i \in Jobs : i # j => Alike(mem[i], mem'[i])
    BY <2>1, <2>2, OneAlike DEF QuickInv
  <2>4. CASE Open(j) /\ Closing(j)
    BY <1>2, <2>2, <2>3, <2>4, ClosingOut
  <2>5. CASE UNCHANGED <<tab, page>>
    <3>1. \A i \in Jobs : Alike(mem[i], mem'[i])
      BY <2>3
    <3> QED BY <1>2, <2>2, <2>5, <3>1, AsideOut
  <2> QED BY <1>4, <2>4, <2>5 DEF CleanClose
<1> QED BY <1>3, <1>4

\* A new worker forgets who was about to save or tell an end; what is over time is
\* to be claimed.
LEMMA WorkerOut ==
    ASSUME QuickInv, OutInv, Rest \/ Stop
    PROVE  OutInv'
<1>1. /\ UNCHANGED <<asked, told, answer, tab, jobs, undone>> /\ mem' = Swept
  BY DEF Rest, Stop, userVars, tabVars, pageVars
<1>2. \A i \in Jobs : /\ page'[i].app = page[i].app
                      /\ page'[i].bridge = "none" <=> page[i].bridge = "none"
  <2>1. CASE UNCHANGED page
    BY <2>1
  <2>2. CASE page' = [i \in Jobs |-> IF page[i].bridge = "asking"
                                     THEN [page[i] EXCEPT !.bridge = "off"] ELSE page[i]]
    BY <2>2 DEF QuickInv, TabShape, Page
  <2> QED BY <2>1, <2>2 DEF Rest, Stop, pageVars
<1>3. ASSUME NEW i \in Jobs PROVE Good(i)'
  <2> DEFINE m == mem[i]
             job == jobs[i]
             f == Flow("claim", job.bound)
             c == [Quiet EXCEPT !.flow["sweep"] = f]
             e == Ending(Quiet, job, "sweep")
  <2>1. f.at = "claim" /\ DOMAIN f = {"at", "bound"}
    BY DEF Flow
  <2>2. mem'[i] = Quiet \/ mem'[i] = e
    BY <1>1 DEF Swept
  <2>3. DOMAIN Quiet = MemFields
    BY DEF Quiet, MemFields
  <2>4. Alike(Quiet, e) \/ Alike(c, e)
    <3> HIDE DEF job
    <3> QED BY <2>3, EndingLeaves
  <2>5. Alike(Quiet, Quiet)
    BY DEF Alike
  <2> HIDE DEF e, f
  <2>6. Alike(Quiet, mem'[i]) \/ Alike(c, mem'[i])
    BY <2>2, <2>4, <2>5
  <2>7. /\ Quiet.add = "idle" /\ Quiet.verify = "idle" /\ Quiet.result = "idle"
        /\ Quiet.by = "free" /\ Quiet.flow = [k \in Notifiers |-> NoFlow]
        /\ c.add = "idle" /\ c.verify = "idle" /\ c.result = "idle"
        /\ c.by = "free" /\ c.flow = [k \in Notifiers |-> IF k = "sweep" THEN f ELSE NoFlow]
    BY DEF Quiet
  <2> HIDE DEF c
  <2>8. /\ mem'[i].add = "idle" /\ mem'[i].verify = "idle" /\ mem'[i].result = "idle"
        /\ mem'[i].by = "free"
        /\ \/ mem'[i].flow = [k \in Notifiers |-> NoFlow]
           \/ mem'[i].flow = [k \in Notifiers |-> IF k = "sweep" THEN f ELSE NoFlow]
    BY <2>6, <2>7 DEF Alike
  <2>9. /\ DOMAIN mem'[i].flow = Notifiers
        /\ \A k \in Notifiers : /\ DOMAIN mem'[i].flow[k] = {"at", "bound"}
                                /\ mem'[i].flow[k].at \in {"idle", "claim"}
    BY <2>1, <2>8 DEF NoFlow, Flow
  <2>10. Good(i)
    BY DEF OutInv
  <2>11. ~At(mem'[i], "tell") /\ ~At(mem'[i], "save")
    BY <2>9 DEF At
  <2>12. OutShape(i)' /\ Held(i)'
    BY <1>1, <2>8, <2>9, <2>10 DEF Good, OutShape, Held, Stored
  <2>13. NotYet(i)'
    BY <1>1, <1>2, <2>8, <2>10, <2>11 DEF Good, NotYet, Begun, Silent, Stored
  <2>14. Over(i)' /\ Single(i)'
    BY <1>1, <1>2, <2>8, <2>10, <2>11 DEF Good, Over, Single, Heard, Silent, Stored
  <2> QED BY <2>12, <2>13, <2>14 DEF Good
<1> QED BY <1>1, <1>3 DEF OutInv, StoreShape

-----------------------------------------------------------------------------
(* Every state has the invariant.                                          *)

\* What an earlier worker left has no page, and its failure was told.
LEMMA OutInit == Init => OutInv
<1> SUFFICES ASSUME Init PROVE OutInv
  OBVIOUS
<1>1. StoreShape
  BY DEF Init, StoreShape
<1>2. ASSUME NEW j \in Jobs PROVE Good(j)
  <2>1. /\ mem[j] = Quiet /\ asked[j] = NoSource /\ page[j] = NoPage /\ answer[j] = {}
        /\ told[j].done = 0 /\ told[j] \in [done : Nat, failed : Nat]
        /\ j \notin Leftover => told[j].failed = 0 /\ jobs[j] = NoJob
        /\ j \in Leftover => jobs[j] = OldJob
        /\ tab[j] # "page"
    BY <1>2 DEF Init
  <2>2. /\ Quiet.add = "idle" /\ Quiet.verify = "idle" /\ Quiet.result = "idle"
        /\ Quiet.by = "free" /\ Quiet.flow = [k \in Notifiers |-> NoFlow]
    BY DEF Quiet
  <2>3. NoFlow.at = "idle" /\ DOMAIN NoFlow = {"at", "bound"}
    BY DEF NoFlow, Flow
  <2>4. Full(OldJob) /\ NoPage.bridge = "none" /\ NoPage.app = "none"
    BY DEF OldJob, NewJob, Full, JobFields, NoPage
  <2>5. \A a \in {"save", "tell"} : ~At(mem[j], a)
    BY <2>1, <2>2, <2>3 DEF At
  <2>6. Silent(j)
    BY <2>1, <2>2, <2>4 DEF Silent
  <2>7. OutShape(j) /\ Held(j)
    BY <2>1, <2>2, <2>3, <2>4 DEF OutShape, Held, Stored
  <2>8. NotYet(j) /\ Over(j) /\ Single(j)
    BY <2>1, <2>2, <2>5, <2>6 DEF NotYet, Begun, Over, Single, Heard, Stored
  <2> QED BY <2>7, <2>8 DEF Good
<1> QED BY <1>1, <1>2 DEF OutInv

\* Every step keeps it.
LEMMA OutNext == QuickInv /\ OutInv /\ [Next]_vars => OutInv'
<1> SUFFICES ASSUME QuickInv, OutInv, [Next]_vars PROVE OutInv'
  OBVIOUS
<1>0. ASSUME UNCHANGED <<mem, asked, tab, page, jobs, answer, told, undone>> PROVE OutInv'
  <2>1. \A i \in Jobs : Alike(mem[i], mem'[i])
    BY <1>0 DEF Alike
  <2> QED BY <1>0, <2>1, AsideOut
<1>1. CASE UNCHANGED vars
  BY <1>0, <1>1 DEF vars, userVars, tabVars, pageVars
<1>2. ASSUME NEW j \in Jobs, Serve(j) PROVE OutInv'
  BY <1>2, AddOut, GoOut, FailsOut, VerifyOut, SaveOut, TellOut, ClaimOut, ClaimSaveOut,
     ClaimTellOut, CleanOut DEF Serve
<1>3. ASSUME NEW j \in Jobs, CloseWorkerTab(j) PROVE OutInv'
  <2>1. /\ Open(j) /\ Closing(j) /\ \A i \in Jobs : Alike(mem[i], mem'[i])
        /\ UNCHANGED <<asked, jobs, answer, told, undone>>
    BY <1>3 DEF CloseWorkerTab, Alike, userVars
  <2> QED BY <2>1, ClosingOut
<1>4. CASE (\E s \in Sources : CloseSource(s)) \/ Tick
  BY <1>0, <1>4 DEF CloseSource, Tick, tabVars, pageVars
<1> QED BY <1>1, <1>2, <1>3, <1>4, BeginOut, NoticeOut, ReadOut, VerifyOut, FailsOut, SaveOut,
           ClaimSaveOut, PageOut, WorkerOut DEF Next

\* The user hears one outcome of a command: however alarms, closing tabs, sweeps,
\* late or repeated results and stopped workers interleave, a job does not both
\* succeed and fail, nor succeed twice, unless its claimed end was written over.
\* (background-core.js claimTerminalError, claimTerminalResult.)
THEOREM OneOutcomeHeard == QuickAddSpec => []OneOutcome
<1>1. Init => QuickInv /\ OutInv
  BY InvInit, OutInit
<1>2. QuickInv /\ OutInv /\ [Next]_vars => (QuickInv /\ OutInv)'
  BY InvNext, OutNext
<1>3. QuickInv /\ OutInv => OneOutcome
  <2> SUFFICES ASSUME OutInv, NEW j \in Jobs \ undone
               PROVE  told[j].done <= 1 /\ (told[j].done = 0 \/ told[j].failed = 0)
    BY DEF OneOutcome
  <2>1. Good(j) /\ told[j].done \in Nat
    BY DEF OutInv, Good, OutShape
  <2> QED BY <2>1 DEF Good, Single
<1> QED BY <1>1, <1>2, <1>3, PTL DEF QuickAddSpec
=============================================================================
