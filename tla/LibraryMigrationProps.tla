----------------------- MODULE LibraryMigrationProps ------------------------
(***************************************************************************)
(* What the migration of an old library owes its owner.                    *)
(***************************************************************************)
EXTENDS LibraryMigration

\* A generation that was cleared may still have documents when the discovery
\* reads the library: the merge takes them for cards of the current one.
Leftover(w) == \E id \in Sources(w) : groups[w].sources[id].gen # job.epoch

\* At every moment, in the middle of a merge or of a rollback and whatever
\* dies, every word is as well known as when the owner last wrote: no learning
\* is lost with a card that is merged away, and no deleted word comes back.
AsTheUserLeftIt ==
    \A w \in Words :
        Knows(cards, epoch, w) # known[w] => w \in Manifest /\ Leftover(w)

\* A rollback that finishes has put every document of every merged word back to
\* what it was when the apply closed the library.
RollbackRestores ==
    [][job' # NoJob /\ job'.phase = "rolled-back" /\ job.phase # "rolled-back" =>
         \A w \in Manifest : /\ taken'[w] = before.taken[w]
                             /\ \A id \in Touched(w) : /\ cards'[id] = before.cards[id]
                                                       /\ tombs'[id] = before.tombs[id]]_vars

\* An owner who is locked out by an apply is let in again, by its end, by the
\* catch of a job that fails, or by a rollback.
FenceLifts == (Fenced /\ fence.phase # "rollback") ~> ~Fenced
=============================================================================
