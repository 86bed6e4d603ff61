-------------------------- MODULE MCLibraryServer ---------------------------
(* One owner's cloud library under arbitrary requests, for TLC.            *)
EXTENDS LibraryRefinement
=============================================================================
