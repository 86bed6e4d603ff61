------------------------------ MODULE QuickAdd ------------------------------
(***************************************************************************)
(* The quick add of the browser extension: a word selected on any page is  *)
(* handed to the app in a worker tab, and what became of it is told on the *)
(* page.  The background worker keeps a job per word in session storage    *)
(* and serves, interleaved at every await, the user's commands, the        *)
(* messages of the worker tab, alarms and closing tabs.  The browser stops *)
(* the worker when it likes; what it held in memory is gone then, and the  *)
(* next worker begins with a sweep of the jobs that are over time.         *)
(***************************************************************************)
EXTENDS Integers, FiniteSets, TLC

CONSTANTS
    Jobs,         \* job ids, one per command of the user
    Leftover,     \* failed jobs an earlier worker could not remove, their tabs long closed
    Sources,      \* tabs with a page the user selects words on
    MaxActive,    \* MAX_ACTIVE_JOBS
    Life,         \* JOB_TIMEOUT_MS, in ticks
    MaxClock,     \* bound on the clock
    MaxFaults,    \* bound on failed storage and tab calls, stopped workers, reloads
    NoSource

ASSUME JobsAssumption == IsFiniteSet(Jobs) /\ Leftover \subseteq Jobs /\ NoSource \notin Sources
ASSUME LimitsAssumption ==
    /\ {MaxActive, Life} \subseteq Nat \ {0} /\ {MaxClock, MaxFaults} \subseteq Nat
    /\ Life <= MaxClock

VARIABLES
    clock,
    closed,       \* the source tabs the user has closed
    asked,        \* per job: the source tab of the command
    jobs,         \* session storage: the jobs
    armed,        \* the jobs with an alarm
    tab,          \* per job: its worker tab
    gone,         \* closed tabs the worker has not heard of: <<job, "source" or "worker">>
    mem,          \* per job: what the background worker holds in memory
    page,         \* per job: bridge, app and session storage of the worker tab
    answer,       \* per job: results on their way from the bridge to the worker
    faults,
    told,         \* history: the final notices the user got about a job
    cards,        \* history: the cards the app has saved for a job
    undone        \* history: the jobs with a claim, or an end, that was written over

userVars == <<clock, closed, asked, faults>>
tabVars == <<tab, gone>>
pageVars == <<page, answer, cards>>
vars == <<userVars, jobs, armed, tabVars, mem, pageVars, told, undone>>

Sides == {"source", "worker"}
Notifiers == {"alarm", "sweep"} \union Sides
NoJob == [source |-> NoSource]
NewJob(s, t) == [source |-> s, created |-> t, bound |-> FALSE,
                 import |-> FALSE, result |-> FALSE, error |-> FALSE]
OldJob == [NewJob(NoSource, -Life) EXCEPT !.bound = TRUE, !.error = TRUE]
NoPage == [bridge |-> "none", app |-> "none", stored |-> FALSE]
Flow(at, bound) == [at |-> at, bound |-> bound]
NoFlow == Flow("idle", FALSE)
\* by, copy: terminalLocks and what its holder has read; claimed:
\* terminalErrorClaims; removing: tabRemovalLocks; clean: cleanupLocks.
Quiet == [add |-> "idle", created |-> 0, verify |-> "idle", seen |-> NoJob,
          result |-> "idle", status |-> "none", flow |-> [k \in Notifiers |-> NoFlow],
          by |-> "free", copy |-> NoJob, claimed |-> FALSE, removing |-> FALSE,
          clean |-> "idle", bound |-> FALSE, rearm |-> FALSE, removed |-> FALSE]

Stored(j) == jobs[j] # NoJob
Expired(j) == Stored(j) /\ clock - jobs[j].created >= Life
Claimed(job) == job.result \/ job.error
Working(m) == \/ m.add # "idle" \/ m.verify # "idle" \/ m.result # "idle" \/ m.clean # "idle"
              \/ \E k \in Notifiers : m.flow[k] # NoFlow

\* A second cleanup joins the one under way; rearm: an alarm is to try again.
Cleaning(m, bound, rearm) ==
    IF m.clean = "idle" THEN [m EXCEPT !.clean = "remove", !.bound = bound, !.rearm = rearm]
                        ELSE [m EXCEPT !.rearm = @ \/ rearm]

Ending_ClaimedIsOver(m, job, k) ==
    IF Claimed(job) THEN m ELSE [m EXCEPT !.flow[k] = Flow("claim", job.bound)]

\* How a handler that found the job over, or its tab closed, goes on.
Ending(m, job, k) ==
    IF Claimed(job) THEN Cleaning(m, job.bound, TRUE)
                    ELSE [m EXCEPT !.flow[k] = Flow("claim", job.bound)]

Init ==
    /\ clock = 0 /\ closed = {} /\ faults = 0
    /\ asked = [j \in Jobs |-> NoSource]
    /\ jobs = [j \in Jobs |-> IF j \in Leftover THEN OldJob ELSE NoJob]
    /\ armed = {} /\ gone = {}
    /\ tab = [j \in Jobs |-> IF j \in Leftover THEN "closed" ELSE "none"]
    /\ mem = [j \in Jobs |-> Quiet]
    /\ page = [j \in Jobs |-> NoPage]
    /\ answer = [j \in Jobs |-> {}]
    /\ told = [j \in Jobs |-> [done |-> 0, failed |-> IF j \in Leftover THEN 1 ELSE 0]]
    /\ cards = [j \in Jobs |-> 0]
    /\ undone = {}

Fault == faults < MaxFaults /\ faults' = faults + 1
Told(j, what) == told' = [told EXCEPT ![j][what] = @ + 1]

-----------------------------------------------------------------------------
(* The command of the user.                                                *)

Reporting(m, bound) == Cleaning([m EXCEPT !.add = "report"], bound, FALSE)

\* One command per source tab, and one in the capacity lock, at a time.
MayAsk(j, s) ==
    /\ asked[j] = NoSource /\ j \notin Leftover /\ s \notin closed
    /\ \A i \in Jobs : /\ mem[i].add \in {"idle", "report"}
                       /\ asked[i] = s => mem[i].add = "idle"
    /\ clock + Life <= MaxClock

\* Jobs over time are cleaned up and do not count.
AddBegin(j, s) ==
    LET active == {i \in Jobs : Stored(i) /\ ~Expired(i)}
        refused == (\E i \in active : jobs[i].source = s) \/ Cardinality(active) >= MaxActive
        started == [mem[j] EXCEPT !.add = "save", !.created = clock]
    IN  /\ MayAsk(j, s)
        /\ asked' = [asked EXCEPT ![j] = s]
        /\ mem' = [i \in Jobs |->
              IF i = j THEN IF refused THEN Reporting(started, FALSE) ELSE started
              ELSE IF Expired(i) THEN Cleaning(mem[i], jobs[i].bound, FALSE) ELSE mem[i]]
        /\ UNCHANGED <<clock, closed, faults, jobs, armed, tabVars, pageVars, told, undone>>

AddSave(j) ==
    /\ mem[j].add = "save"
    /\ jobs' = [jobs EXCEPT ![j] = NewJob(asked[j], mem[j].created)]
    /\ mem' = [mem EXCEPT ![j].add = "open"]
    /\ UNCHANGED <<userVars, armed, tabVars, pageVars, told, undone>>

AddOpen(j) ==
    /\ mem[j].add = "open"
    /\ tab' = [tab EXCEPT ![j] = "blank"]
    /\ mem' = [mem EXCEPT ![j].add = "bind"]
    /\ UNCHANGED <<userVars, jobs, armed, gone, pageVars, told, undone>>

\* quickAdd and the verification write the job they have in memory over the
\* one in storage, outside the terminal lock.
WrittenOver(j) ==
    undone' = IF ~Stored(j) \/ Claimed(jobs[j]) THEN undone \union {j} ELSE undone

AddBind(j) ==
    /\ mem[j].add = "bind"
    /\ jobs' = [jobs EXCEPT ![j] = [NewJob(asked[j], mem[j].created) EXCEPT !.bound = TRUE]]
    /\ WrittenOver(j)
    /\ armed' = armed \union {j}
    /\ mem' = [mem EXCEPT ![j].add = "go"]
    /\ UNCHANGED <<userVars, tabVars, pageVars, told>>

AddGo(j) ==
    /\ mem[j].add = "go"
    /\ \/ /\ tab[j] = "blank"
          /\ tab' = [tab EXCEPT ![j] = "page"]
          /\ page' = [page EXCEPT ![j] = [NoPage EXCEPT !.bridge = "hash", !.app = "loading"]]
          /\ mem' = [mem EXCEPT ![j].add = "idle"]
       \/ /\ tab[j] = "closed"
          /\ mem' = [mem EXCEPT ![j] = Reporting(@, TRUE)]
          /\ UNCHANGED <<tab, page>>
    /\ UNCHANGED <<userVars, jobs, armed, gone, answer, cards, told, undone>>

AddFails(j) ==
    /\ mem[j].add \in {"save", "open", "bind", "go"} /\ Fault
    /\ mem' = [mem EXCEPT ![j] = Reporting(@, tab[j] # "none")]
    /\ UNCHANGED <<clock, closed, asked, jobs, armed, tabVars, pageVars, told, undone>>

\* reportQuickAddFailure: the notice follows the cleanup.
AddReport(j) ==
    /\ mem[j].add = "report" /\ mem[j].clean = "idle"
    /\ Told(j, "failed")
    /\ mem' = [mem EXCEPT ![j].add = "idle"]
    /\ UNCHANGED <<userVars, jobs, armed, tabVars, pageVars, undone>>

-----------------------------------------------------------------------------
(* The import is verified once, for the page in the worker tab.            *)

Verifiable(job) == job # NoJob /\ ~job.import /\ ~Claimed(job)

VerifyRead(j) ==
    /\ page[j].bridge = "hash" /\ mem[j].verify = "idle"
    /\ IF Verifiable(jobs[j]) /\ ~Expired(j) /\ jobs[j].bound
       THEN /\ mem' = [mem EXCEPT ![j].verify = "save", ![j].seen = jobs[j]]
            /\ page' = [page EXCEPT ![j].bridge = "asking"]
       ELSE /\ mem' = [mem EXCEPT ![j] = IF Verifiable(jobs[j]) /\ Expired(j)
                                         THEN Cleaning(@, jobs[j].bound, FALSE) ELSE @]
            /\ page' = [page EXCEPT ![j].bridge = "off"]
    /\ UNCHANGED <<userVars, jobs, armed, tabVars, answer, cards, told, undone>>

VerifyDone(j) == [mem EXCEPT ![j].verify = "idle", ![j].seen = NoJob]

\* The bridge puts the verified word into the tab's session storage.
VerifySave(j) ==
    /\ mem[j].verify = "save"
    /\ jobs' = [jobs EXCEPT ![j] = [mem[j].seen EXCEPT !.import = TRUE]]
    /\ WrittenOver(j)
    /\ mem' = VerifyDone(j)
    /\ page' = IF page[j].bridge = "asking"
               THEN [page EXCEPT ![j].bridge = "handed", ![j].stored = TRUE] ELSE page
    /\ UNCHANGED <<userVars, armed, tabVars, answer, cards, told>>

VerifyFails(j) ==
    /\ mem[j].verify = "save" /\ Fault
    /\ mem' = VerifyDone(j)
    /\ page' = IF page[j].bridge = "asking" THEN [page EXCEPT ![j].bridge = "off"] ELSE page
    /\ UNCHANGED <<clock, closed, asked, jobs, armed, tabVars, answer, cards, told, undone>>

-----------------------------------------------------------------------------
(* The page in the worker tab.                                             *)

\* A bridge that knows the verified word passes results about it on.
Passing(j, app, r) ==
    LET knows == page[j].bridge \in {"handed", "called", "answered"}
    IN  /\ page' = [page EXCEPT ![j].app = app, ![j].stored = FALSE,
                               ![j].bridge = IF knows THEN "answered" ELSE @]
        /\ answer' = IF knows THEN [answer EXCEPT ![j] = @ \union {r}] ELSE answer

\* The app takes the word and calls back, which the bridge may hear too late.
AppClaims(j) ==
    /\ page[j].app = "loading" /\ page[j].stored
    /\ page' = [page EXCEPT ![j].app = "pending",
                           ![j].bridge = IF @ = "handed" THEN "called" ELSE @]
    /\ UNCHANGED <<userVars, jobs, armed, tabVars, mem, answer, cards, told, undone>>

BridgeHears(j) ==
    /\ page[j].bridge = "called"
    /\ page' = [page EXCEPT ![j].bridge = "answered"]
    /\ UNCHANGED <<userVars, jobs, armed, tabVars, mem, answer, cards, told, undone>>

\* No call in time: the word is taken back and reported failed.
BridgeGivesUp(j) ==
    /\ page[j].bridge \in {"handed", "called"}
    /\ Passing(j, page[j].app, "error")
    /\ UNCHANGED <<userVars, jobs, armed, tabVars, mem, cards, told, undone>>

\* Nobody is signed in, or the deck asked for is gone.
AppRefuses(j) ==
    /\ page[j].app = "pending"
    /\ Passing(j, "done", "error")
    /\ UNCHANGED <<userVars, jobs, armed, tabVars, mem, cards, told, undone>>

AppGenerates_Keeps(j) ==
    /\ page[j].app = "pending"
    /\ page' = [page EXCEPT ![j].app = "generating"]
    /\ UNCHANGED <<userVars, jobs, armed, tabVars, mem, answer, cards, told, undone>>

\* The word leaves session storage before the card is asked for.
AppGenerates(j) ==
    /\ page[j].app = "pending"
    /\ page' = [page EXCEPT ![j].app = "generating", ![j].stored = FALSE]
    /\ UNCHANGED <<userVars, jobs, armed, tabVars, mem, answer, cards, told, undone>>

AppBusy(j) ==
    /\ page[j].app = "generating"
    /\ page' = [page EXCEPT ![j].app = "pending"]
    /\ UNCHANGED <<userVars, jobs, armed, tabVars, mem, answer, cards, told, undone>>

AppSaves(j) ==
    /\ page[j].app = "generating"
    /\ cards' = [cards EXCEPT ![j] = @ + 1]
    /\ Passing(j, "done", "created")
    /\ UNCHANGED <<userVars, jobs, armed, tabVars, mem, told, undone>>

AppFails(j) ==
    /\ page[j].app = "generating"
    /\ Passing(j, "done", "error")
    /\ UNCHANGED <<userVars, jobs, armed, tabVars, mem, cards, told, undone>>

\* What a reload leaves: session storage, and perhaps the card under way.
Reload(j) ==
    /\ tab[j] = "page" /\ Fault
    /\ page' = [page EXCEPT ![j] = [NoPage EXCEPT !.bridge = "off", !.app = "loading",
                                                   !.stored = page[j].stored]]
    /\ \/ UNCHANGED cards
       \/ page[j].app = "generating" /\ cards' = [cards EXCEPT ![j] = @ + 1]
    /\ UNCHANGED <<clock, closed, asked, jobs, armed, tabVars, mem, answer, told, undone>>

-----------------------------------------------------------------------------
(* A result from the worker tab ends the job, unless it has ended.         *)

ResultRead(j, r) ==
    /\ r \in answer[j] /\ mem[j].result = "idle" /\ mem[j].by = "free"
    /\ answer' = [answer EXCEPT ![j] = @ \ {r}]
    /\ mem' = IF Stored(j) /\ jobs[j].bound /\ ~Claimed(jobs[j]) /\ ~Expired(j)
              THEN [mem EXCEPT ![j].result = "save", ![j].status = r,
                               ![j].by = "result", ![j].copy = jobs[j]]
              ELSE mem
    /\ UNCHANGED <<userVars, jobs, armed, tabVars, page, cards, told, undone>>

Released(m) == [m EXCEPT !.by = "free", !.copy = NoJob]

ResultSave(j) ==
    /\ mem[j].result = "save"
    /\ jobs' = [jobs EXCEPT ![j] = [mem[j].copy EXCEPT !.result = TRUE]]
    /\ mem' = [mem EXCEPT ![j] = [Released(@) EXCEPT !.result = "tell"]]
    /\ UNCHANGED <<userVars, armed, tabVars, pageVars, told, undone>>

ResultFails(j) ==
    /\ mem[j].result = "save" /\ Fault
    /\ mem' = [mem EXCEPT ![j] = [Released(@) EXCEPT !.result = "idle", !.status = "none"]]
    /\ UNCHANGED <<clock, closed, asked, jobs, armed, tabVars, pageVars, told, undone>>

ResultTell(j) ==
    /\ mem[j].result = "tell"
    /\ Told(j, IF mem[j].status = "created" THEN "done" ELSE "failed")
    /\ mem' = [mem EXCEPT ![j] = Cleaning([@ EXCEPT !.result = "idle", !.status = "none"],
                                          jobs[j] # NoJob => jobs[j].bound, FALSE)]
    /\ UNCHANGED <<userVars, jobs, armed, tabVars, pageVars, undone>>

-----------------------------------------------------------------------------
(* A job ends without a result: over time, or with one of its tabs.        *)

\* An alarm that comes early, or fails to end its job, is set again.
Alarm(j) ==
    /\ j \in armed
    /\ \/ /\ mem[j].clean # "idle"
          /\ armed' = armed \ {j}
          /\ mem' = [mem EXCEPT ![j].rearm = TRUE]
       \/ /\ mem[j].clean = "idle" /\ Expired(j) /\ mem[j].flow["alarm"] = NoFlow
          /\ armed' = armed \ {j}
          /\ mem' = [mem EXCEPT ![j] = Ending(@, jobs[j], "alarm")]
       \/ /\ mem[j].clean = "idle" /\ ~Stored(j)
          /\ armed' = armed \ {j}
          /\ UNCHANGED mem
    /\ UNCHANGED <<userVars, jobs, tabVars, pageVars, told, undone>>

Visible(j, side) == Stored(j) /\ (side = "worker" => jobs[j].bound)

Removed(j, side) ==
    /\ <<j, side>> \in gone
    /\ gone' = gone \ {<<j, side>>}
    /\ mem' = IF Visible(j, side) /\ ~mem[j].removing /\ mem[j].clean = "idle"
              THEN [mem EXCEPT ![j] = Ending([@ EXCEPT !.removing = TRUE], jobs[j], side)]
              ELSE mem
    /\ UNCHANGED <<userVars, jobs, armed, tab, pageVars, told, undone>>

ClaimRead_ErrorsOnly(j, k) ==
    LET m == mem[j]
        mine == ~m.claimed /\ Stored(j) /\ ~jobs[j].error
        claiming == [m EXCEPT !.claimed = TRUE]
    IN  /\ m.flow[k].at = "claim" /\ m.by = "free"
        /\ mem' = [mem EXCEPT ![j] =
              IF mine THEN [claiming EXCEPT !.flow[k].at = "save", !.by = k, !.copy = jobs[j]]
              ELSE Cleaning([claiming EXCEPT !.flow[k] = NoFlow], m.flow[k].bound, TRUE)]
        /\ UNCHANGED <<userVars, jobs, armed, tabVars, pageVars, told, undone>>

\* claimTerminalError: who finds the job unclaimed claims it and gives notice.
ClaimRead(j, k) ==
    LET m == mem[j]
        mine == ~m.claimed /\ Stored(j) /\ ~Claimed(jobs[j])
        claiming == [m EXCEPT !.claimed = TRUE]
    IN  /\ m.flow[k].at = "claim" /\ m.by = "free"
        /\ mem' = [mem EXCEPT ![j] =
              IF mine THEN [claiming EXCEPT !.flow[k].at = "save", !.by = k, !.copy = jobs[j]]
              ELSE Cleaning([claiming EXCEPT !.flow[k] = NoFlow], m.flow[k].bound, TRUE)]
        /\ UNCHANGED <<userVars, jobs, armed, tabVars, pageVars, told, undone>>

ClaimSave(j, k) ==
    /\ mem[j].flow[k].at = "save"
    /\ jobs' = [jobs EXCEPT ![j] = [mem[j].copy EXCEPT !.error = TRUE]]
    /\ mem' = [mem EXCEPT ![j] = [Released(@) EXCEPT !.flow[k].at = "tell"]]
    /\ UNCHANGED <<userVars, armed, tabVars, pageVars, told, undone>>

ClaimFails(j, k) ==
    /\ mem[j].flow[k].at = "save" /\ Fault
    /\ mem' = [mem EXCEPT ![j] = [Released(@) EXCEPT !.flow[k] = NoFlow, !.claimed = FALSE]]
    /\ armed' = armed \union {j}
    /\ UNCHANGED <<clock, closed, asked, jobs, tabVars, pageVars, told, undone>>

ClaimTell(j, k) ==
    /\ mem[j].flow[k].at = "tell"
    /\ Told(j, "failed")
    /\ mem' = [mem EXCEPT ![j] = Cleaning([@ EXCEPT !.flow[k] = NoFlow], @.flow[k].bound, TRUE)]
    /\ UNCHANGED <<userVars, jobs, armed, tabVars, pageVars, undone>>

\* cleanup: the job leaves storage before its tab is closed.
CleanRemove(j) ==
    /\ mem[j].clean = "remove"
    /\ \/ /\ jobs' = [jobs EXCEPT ![j] = NoJob]
          /\ mem' = [mem EXCEPT ![j].clean = "close", ![j].removed = TRUE]
          /\ UNCHANGED faults
       \/ /\ Fault
          /\ mem' = [mem EXCEPT ![j].clean = "close"]
          /\ UNCHANGED jobs
    /\ UNCHANGED <<clock, closed, asked, armed, tabVars, pageVars, told, undone>>

Open(j) == tab[j] \in {"blank", "page"}
Closing(j) ==
    /\ tab' = [tab EXCEPT ![j] = "closed"]
    /\ page' = [page EXCEPT ![j] = NoPage]
    /\ gone' = gone \union {<<j, "worker">>}

CleanClose(j) ==
    LET m == mem[j]
    IN  /\ m.clean = "close"
        /\ IF m.bound /\ Open(j) THEN Closing(j) ELSE UNCHANGED <<tab, page, gone>>
        /\ armed' = IF m.rearm /\ ~m.removed THEN armed \union {j} ELSE armed \ {j}
        /\ mem' = [mem EXCEPT ![j] = [m EXCEPT
              !.clean = "idle", !.bound = FALSE, !.rearm = FALSE, !.removed = FALSE,
              !.removing = FALSE, !.claimed = @ /\ ~m.removed]]
        /\ UNCHANGED <<userVars, jobs, answer, cards, told, undone>>

-----------------------------------------------------------------------------
(* Tabs, time and the life of the background worker.                       *)

CloseSource(s) ==
    /\ s \in Sources \ closed
    /\ closed' = closed \union {s}
    /\ gone' = gone \union {<<j, "source">> : j \in {i \in Jobs : asked[i] = s}}
    /\ UNCHANGED <<clock, asked, faults, jobs, armed, tab, mem, pageVars, told, undone>>

CloseWorkerTab(j) ==
    /\ Open(j) /\ Closing(j)
    /\ UNCHANGED <<userVars, jobs, armed, mem, answer, cards, told, undone>>

Tick ==
    /\ clock < MaxClock
    /\ clock' = clock + 1
    /\ UNCHANGED <<closed, asked, faults, jobs, armed, tabVars, mem, pageVars, told, undone>>

\* sweepExpiredJobs: a new worker looks for jobs that are over time.
Swept == [j \in Jobs |-> IF Expired(j) THEN Ending(Quiet, jobs[j], "sweep") ELSE Quiet]

Rest ==
    /\ \A j \in Jobs : ~Working(mem[j])
    /\ mem' = Swept
    /\ UNCHANGED <<userVars, jobs, armed, tabVars, pageVars, told, undone>>

\* A bridge that waits for its answer takes the word for unverified.
Stop ==
    /\ \E j \in Jobs : Working(mem[j])
    /\ Fault
    /\ mem' = Swept
    /\ page' = [j \in Jobs |-> IF page[j].bridge = "asking" THEN [page[j] EXCEPT !.bridge = "off"]
                                                            ELSE page[j]]
    /\ UNCHANGED <<clock, closed, asked, jobs, armed, tabVars, answer, cards, told, undone>>

Serve(j) ==
    \/ AddSave(j) \/ AddOpen(j) \/ AddBind(j) \/ AddGo(j) \/ AddReport(j)
    \/ VerifySave(j) \/ ResultSave(j) \/ ResultTell(j)
    \/ \E k \in Notifiers : ClaimRead(j, k) \/ ClaimSave(j, k) \/ ClaimTell(j, k)
    \/ CleanRemove(j) \/ CleanClose(j)

Next ==
    \/ \E j \in Jobs :
        \/ Serve(j) \/ Alarm(j)
        \/ \E s \in Sources : AddBegin(j, s)
        \/ \E side \in Sides : Removed(j, side)
        \/ \E r \in {"created", "error"} : ResultRead(j, r)
        \/ VerifyRead(j) \/ AddFails(j) \/ VerifyFails(j) \/ ResultFails(j)
        \/ \E k \in Notifiers : ClaimFails(j, k)
        \/ AppClaims(j) \/ BridgeHears(j) \/ BridgeGivesUp(j) \/ AppRefuses(j)
        \/ AppGenerates(j) \/ AppBusy(j) \/ AppSaves(j) \/ AppFails(j)
        \/ Reload(j) \/ CloseWorkerTab(j)
    \/ \E s \in Sources : CloseSource(s)
    \/ Tick \/ Rest \/ Stop

QuickAddSpec == Init /\ [][Next]_vars
QuickAddFairSpec ==
    QuickAddSpec /\ WF_vars(Tick) /\ WF_vars(Rest) /\ WF_vars(\E j \in Jobs : Serve(j))
=============================================================================
