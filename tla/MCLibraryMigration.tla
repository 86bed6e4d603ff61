------------------------- MODULE MCLibraryMigration -------------------------
\* Small instances of LibraryMigration for TLC.
EXTENDS LibraryMigrationProps

\* Two words.  The cards of the first lie on one page (1 and 2), the second
\* has a card under a foreign id (3); its canonical id (4) is still free.
CONSTANTS wA, wB
TheIds == 1 .. 4
TheWords == {wA, wB}
TheWordOf == [id \in TheIds |-> IF id \in {1, 2} THEN wA ELSE wB]
TheCanon == [w \in TheWords |-> IF w = wA THEN 2 ELSE 4]
TheOrder == [i \in TheIds |-> i]
TheOldCards ==
    {[id \in TheIds |-> CASE id = 1 -> Card(0, 0, 1)
                          [] id = 2 -> two
                          [] id = 3 -> three
                          [] OTHER -> NoCard] :
       two \in {Card(0, 2, 0)}, three \in {NoCard, Card(0, 0, 1)}}
=============================================================================
