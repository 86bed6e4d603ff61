---------------------------- MODULE MCXpStreams -----------------------------
(* Bounded instances of the experience points, for TLC.                    *)
EXTENDS XpStreams

CONSTANTS t1, t2
=============================================================================
