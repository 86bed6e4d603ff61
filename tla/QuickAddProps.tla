--------------------------- MODULE QuickAddProps ---------------------------
\* What the extension promises of a captured word: QuickAdd's properties, by the
\* documents that state them.
EXTENDS QuickAdd

\* "ignores a valid result at the terminal deadline and never imports twice":
\* a reloaded worker tab, an app that was busy and a worker that was stopped
\* do not make the app save a second card for one command.
NeverImportsTwice == \A j \in Jobs : cards[j] <= 1

\* The user hears one outcome of a command: no alarm, closing tab, sweep, late
\* or repeated result and no stopped worker makes a job both succeed and fail.
\* (background-core.js claimTerminalError, claimTerminalResult.)  Only a claim
\* that was written over is lost.
OneOutcome ==
    \A j \in Jobs \ undone : told[j].done <= 1 /\ (told[j].done = 0 \/ told[j].failed = 0)

\* No job stays in session storage for ever, where it would count against the
\* limit and keep its source tab from asking again: whatever failed, was written
\* over or was lost with a worker, storage is empty again and again.
\* (background-core.js sweepExpiredJobs, cleanup and the alarm listener.)
JobsEnd == []<>(\A j \in Jobs : ~Stored(j))
=============================================================================
