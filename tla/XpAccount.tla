----------------------------- MODULE XpAccount ------------------------------
(***************************************************************************)
(* What the experience points promise the learner, without operations,     *)
(* streams, ledgers or tabs: an award is earned, and later it is credited  *)
(* to the account, once.                                                   *)
(***************************************************************************)
EXTENDS Naturals

CONSTANT Awards

VARIABLES
    earned,     \* the awards the application has made
    credit      \* how many times each award is in the account

accountVars == <<earned, credit>>

AccountInit ==
    /\ earned = {}
    /\ credit = [a \in Awards |-> 0]

Earn(a) ==
    /\ earned' = earned \cup {a}
    /\ UNCHANGED credit

\* Some awards that were earned and not yet credited are credited together.
Settle(batch) ==
    /\ batch \subseteq {a \in earned : credit[a] = 0}
    /\ credit' = [a \in Awards |-> IF a \in batch THEN 1 ELSE credit[a]]
    /\ UNCHANGED earned

AccountNext ==
    \/ \E a \in Awards : Earn(a)
    \/ \E batch \in SUBSET Awards : Settle(batch)

AccountSpec == AccountInit /\ [][AccountNext]_accountVars
=============================================================================
