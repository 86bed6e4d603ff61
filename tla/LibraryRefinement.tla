------------------------- MODULE LibraryRefinement --------------------------
(***************************************************************************)
(* The server's transactions implement the abstract versioned library: a   *)
(* document of an older generation, whether already purged or not, shows   *)
(* nothing, and the stamp of a card is the higher of its revision and its  *)
(* tombstone's.                                                            *)
(***************************************************************************)
EXTENDS LibraryServer

Contents == [val : [Fields -> Values], last : Time]

ShownContent(c) ==
    IF Live(c) THEN {[val |-> card[c].val, last |-> card[c].last]} ELSE {}

Versioned == INSTANCE VersionedLibrary WITH
    gen <- epoch,
    stamp <- [c \in Cards |-> Stamp(c)],
    content <- [c \in Cards |-> ShownContent(c)]

\* Every transaction changes what a card shows only under a higher stamp of
\* the same generation, or starts a generation that shows nothing: no
\* re-creation, rebased delete, retry or purge ever reuses a revision.
ImplementsVersionedLibrary == Versioned!VersionedSpec
=============================================================================
