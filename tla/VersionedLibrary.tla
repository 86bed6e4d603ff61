-------------------------- MODULE VersionedLibrary --------------------------
(***************************************************************************)
(* What the revision protocol of the library promises its clients, without *)
(* documents, tombstones, receipts or requests: each card of a generation  *)
(* has a stamp that rises with every change of what the card shows, so a   *)
(* client that read the pair (generation, stamp) knows, when it meets the  *)
(* same pair again, that nothing happened to the card.                     *)
(***************************************************************************)
EXTENDS Naturals

CONSTANTS Cards, Contents

VARIABLES
    gen,       \* the generation of the library
    stamp,     \* the latest revision of each card in this generation
    content    \* what each card shows: {} or one member of Contents

versionedVars == <<gen, stamp, content>>

Shown == {{}} \cup {{x} : x \in Contents}

VersionedInit ==
    /\ gen = 0
    /\ stamp = [c \in Cards |-> 0]
    /\ content = [c \in Cards |-> {}]

\* A card appears, changes, vanishes or is buried again, under a new stamp.
Write(c) ==
    /\ stamp' \in [Cards -> Nat]
    /\ stamp'[c] > stamp[c]
    /\ content' \in [Cards -> Shown]
    /\ \A d \in Cards \ {c} : stamp'[d] = stamp[d] /\ content'[d] = content[d]
    /\ UNCHANGED gen

\* A clear-all hides every card at once and opens a new range of stamps.
Reset ==
    /\ gen' = gen + 1
    /\ stamp' = [c \in Cards |-> 0]
    /\ content' = [c \in Cards |-> {}]

VersionedNext == Reset \/ \E c \in Cards : Write(c)

VersionedSpec == VersionedInit /\ [][VersionedNext]_versionedVars
=============================================================================
