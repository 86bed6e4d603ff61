----------------------------- MODULE MCQuickAdd -----------------------------
(* Small instances of QuickAdd. *)
EXTENDS QuickAddProps
CONSTANTS j1, j2, s1, s2
OneJob == {j1}
TwoJobs == {j1, j2}
OldJobs == {j2}
OneSource == {s1}
TwoSources == {s1, s2}
=============================================================================
