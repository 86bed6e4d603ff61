------------------------------- MODULE Lists --------------------------------
(***************************************************************************)
(* Lists of operations: what one holds, and what is left of one when some  *)
(* operations are taken out.                                               *)
(***************************************************************************)
EXTENDS Naturals, Sequences

\* The operations of q that are in S, in their order.
Keep(q, S) ==
    LET kept[n \in 0 .. Len(q)] ==
          IF n = 0 THEN <<>>
          ELSE IF q[n] \in S THEN Append(kept[n - 1], q[n]) ELSE kept[n - 1]
    IN  kept[Len(q)]

Ops(q) == {q[k] : k \in DOMAIN q}
=============================================================================
