---------------------------- MODULE MCDeckNames ----------------------------
(* Two tabs of one owner. *)
EXTENDS DeckNames
CONSTANTS t1, t2, o1
TwoTabs == {t1, t2}
OneOwner == {o1}
=============================================================================
