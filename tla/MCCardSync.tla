----------------------------- MODULE MCCardSync -----------------------------
(* Bounded instances of the devices and the cloud, for TLC.                *)
EXTENDS CardSync

CONSTANTS d1, d2, t1, t2, f1, f2

\* Two tabs of one device, and a tab on each of two devices.
SharedHome == (t1 :> d1) @@ (t2 :> d1)
OwnHome == (t1 :> d1) @@ (t2 :> d2)

Command(kind) == [kind |-> kind, mask |-> {}]
Edit(f) == [kind |-> "patch", mask |-> {f}]

CreateDelete == {Command("create"), Command("delete")}
CreateDeleteReview == CreateDelete \cup {Command("review")}
Edits == {Edit(f1), Edit(f2)}
Every(S) == [t \in Tabs |-> S]
AllEdits == Every({Command("review")} \cup Edits)
AllKinds == Every(CreateDeleteReview \cup {Edit(f1)})
OneCreates == (t1 :> Edits) @@ (t2 :> {Command("create")})
AllButReview == Every(CreateDelete \cup Edits)

\* An edit, a review and another edit of a card staged on one device, and two
\* edits of the card on another.
OneReviewBetween ==
    LET script == <<[on |-> d1, what |-> Edit(f1)], [on |-> d1, what |-> Command("review")],
                    [on |-> d1, what |-> Edit(f2)], [on |-> d2, what |-> Edit(f2)],
                    [on |-> d2, what |-> Edit(f2)]>>
    IN  ops' # ops => /\ Now' \in IdsIn(queue'[script[Now'].on])
                      /\ [kind |-> Kind(Now)', mask |-> ops'[Now'].mask] = script[Now'].what
=============================================================================
