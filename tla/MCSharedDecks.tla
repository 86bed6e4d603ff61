---------------------------- MODULE MCSharedDecks ----------------------------
(* A bounded instance of the shared decks, for TLC.                          *)
EXTENDS SharedDecks, TLC

CONSTANTS k1, k2

\* Two decks that a tab cannot tell apart, of different sizes.
Sizes == (k1 :> 1) @@ (k2 :> 2)
Collision == [d \in Decks |-> 1]
Alike == Permutations(Shares) \cup Permutations(Tabs) \cup Permutations(Owners)
=============================================================================
