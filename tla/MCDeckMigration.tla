--------------------------- MODULE MCDeckMigration ---------------------------
(* A bounded instance of the migration, for TLC.                             *)
EXTENDS DeckMigration

CONSTANTS k1, k2, me, other

Sizes == (k1 :> 1) @@ (k2 :> 2)
Alike == [d \in Decks |-> 1]
Both(p, q) == [pub |-> p, priv |-> q]
V1 == PrivateDoc(1, me, -1, 0, 0)
Legacy(deck) == PublicDoc("legacy", Nobody, -1, Never, deck)
Nothing == Both(NoDoc, NoDoc)

\* One share of any kind, and an old share or room for a new one beside it.
Older ==
    {Nothing,
     Both(Legacy(k2), V1),
     Both(PublicDoc("transitional", me, 0, 1, k2), NoDoc),
     Both(SharePublic(k1, 0, 1), PrivateDoc(1, me, 0, 1, 0)),
     Both(SharePublic(k2, 0, 1), SharePrivate(me, k2, 0, 1)),
     Both(PublicDoc("transitional", other, 0, 1, k1), NoDoc),
     Both(PublicDoc("malformed", Nobody, -1, Never, k1), NoDoc),
     Both(NoDoc, V1)}
Mixes ==
    {<<x, Both(Legacy(k1), NoDoc)>> : x \in Older}
    \cup {<<x, Nothing>> : x \in {Nothing, Both(SharePublic(k2, 0, 1),
                                              SharePrivate(me, k2, 0, 1))}}
=============================================================================
