--------------------------- MODULE LibraryServer ---------------------------
(***************************************************************************)
(* The cloud side of one owner's flash-card library: the documents         *)
(*   users/<owner>/profile/library_state   (the library epoch)             *)
(*   users/<owner>/cards/<card>            (one document a card)           *)
(*   users/<owner>/card_tombstones/<card>  (what the last delete left)     *)
(*   users/<owner>/review_receipts/<..>    (one document a review)         *)
(* and the transactions that write them.  Every action is one Firestore    *)
(* transaction, which is atomic, and every operator named ...Reply is the  *)
(* answer that transaction gives.  A transaction that answers a refusal    *)
(* or replays an earlier answer writes nothing.                            *)
(*                                                                         *)
(* The library starts empty under the version 2 protocol; documents of the *)
(* earlier protocol belong to the migration and are not modelled here.     *)
(***************************************************************************)
EXTENDS Integers, FiniteSets

CONSTANTS
    Cards,        \* card ids
    Fields,       \* the patchable fields of a card
    Values,       \* the contents a field can have
    OpIds,        \* the ids of the clients' operations
    MaxCounter,   \* MAX_PROTOCOL_COUNTER, past which no counter moves
    MaxClock,     \* bound on the time stamps
    PageSize      \* documents one clear-all transaction reads

ASSUME CounterAssumption == MaxCounter \in Nat \ {0}
ASSUME ClockAssumption == MaxClock \in Nat
ASSUME PageAssumption == PageSize \in Nat \ {0}
ASSUME ValuesAssumption == Values # {} /\ OpIds # {}

VARIABLES
    epoch,        \* libraryEpoch of the library_state document
    card,         \* the card documents
    tomb,         \* the tombstone documents
    receipt       \* the review receipts

serverVars == <<epoch, card, tomb, receipt>>

Counter == 0 .. MaxCounter
Time == 0 .. MaxClock

\* last is the time of the latest review the document's schedule shows.
CardDoc == [epoch : Counter, rev : Counter, val : [Fields -> Values],
            last : Time]

Tombstone == [epoch : Counter, rev : Counter, op : OpIds, at : Time]

Receipt == [card : Cards, op : OpIds, base : Counter, epoch : Counter,
            rev : Counter, expired : BOOLEAN]

\* No transaction writes a document of revision 0: it stands for none.
Present(doc) == doc.rev > 0

Blank == [f \in Fields |-> CHOOSE v \in Values : TRUE]
NoCard == [epoch |-> 0, rev |-> 0, val |-> Blank, last |-> 0]

-----------------------------------------------------------------------------
(* What the handlers read.                                                 *)

\* A card document of the current generation, the only kind that counts.
Live(c) == Present(card[c]) /\ card[c].epoch = epoch
OldGeneration(c) == Present(card[c]) /\ card[c].epoch < epoch
CurrentTombstone(c) == Present(tomb[c]) /\ tomb[c].epoch = epoch

\* The revision of the tombstone of this generation, 0 without one.
TombRev(c) == IF CurrentTombstone(c) THEN tomb[c].rev ELSE 0

\* Mutant of WrongEpoch: a request from a future generation passes.
WrongEpoch_PastOnly(e) == e < epoch

WrongEpoch(e) == e # epoch

EpochRefusal(e) == IF e < epoch THEN "stale-library-epoch"
                                ELSE "future-library-epoch"

\* The greater of two revisions.
Later(m, n) == IF m >= n THEN m ELSE n

-----------------------------------------------------------------------------
(* createCardForOwner                                                      *)

BehindDeletion(op) ==
    /\ TombRev(op.card) > op.base
    /\ ~(op.at > tomb[op.card].at)

CreateReply(op) ==
    IF WrongEpoch(op.epoch) THEN EpochRefusal(op.epoch)
    ELSE IF Live(op.card) THEN "exists"
    ELSE IF BehindDeletion(op) THEN "deleted"
    ELSE IF TombRev(op.card) = MaxCounter THEN "counter-exhausted"
    ELSE "created"

\* Mutant of Created: a re-creation starts over at revision one.
Created_AtOne(op) == [epoch |-> epoch, rev |-> 1,
                      val |-> op.val, last |-> op.last]

Created(op) == [epoch |-> epoch, rev |-> TombRev(op.card) + 1,
                val |-> op.val, last |-> op.last]

CreateCard(op) ==
    /\ CreateReply(op) = "created"
    /\ card' = [card EXCEPT ![op.card] = Created(op)]
    /\ UNCHANGED <<epoch, tomb, receipt>>

-----------------------------------------------------------------------------
(* applyCardPatchIfCurrent                                                 *)

\* The patch writes the fields of its mask and no other.
Overlay(val, op) == [f \in Fields |-> IF f \in op.mask THEN op.val[f]
                                                       ELSE val[f]]

PatchReply(op) ==
    LET doc == card[op.card] IN
    IF WrongEpoch(op.epoch) THEN EpochRefusal(op.epoch)
    ELSE IF ~Present(doc) THEN "missing"
    ELSE IF OldGeneration(op.card) THEN "stale-library-epoch"
    ELSE IF doc.rev = MaxCounter THEN "counter-exhausted"
    ELSE IF op.base = doc.rev THEN "applied"
    ELSE IF Overlay(doc.val, op) = doc.val THEN "already-applied"
    ELSE "revision-conflict"

\* Mutant of Patched: the fields change, the revision does not.
Patched_SameRevision(op) == [card[op.card] EXCEPT !.val = Overlay(@, op)]

Patched(op) == [card[op.card] EXCEPT !.val = Overlay(@, op), !.rev = @ + 1]

PatchCard(op) ==
    /\ PatchReply(op) = "applied"
    /\ op.mask # {}
    /\ card' = [card EXCEPT ![op.card] = Patched(op)]
    /\ UNCHANGED <<epoch, tomb, receipt>>

-----------------------------------------------------------------------------
(* deleteCardWithTombstone                                                 *)

\* An absent card adopts the revision the command brings.
DeleteBase(op) ==
    LET found == IF Present(card[op.card]) THEN card[op.card].rev ELSE op.base
    IN  Later(op.base, Later(found, TombRev(op.card)))

\* Mutant of DeleteReply: a delete sent again is not recognized.
DeleteReply_NoReplay(op) ==
    IF WrongEpoch(op.epoch) THEN EpochRefusal(op.epoch)
    ELSE IF ~Present(card[op.card])
         THEN IF CurrentTombstone(op.card) THEN "replayed"
              ELSE IF Present(tomb[op.card]) THEN "deleted"
              ELSE "nothing-to-delete"
    ELSE IF op.base # card[op.card].rev THEN "revision-conflict"
    ELSE IF DeleteBase(op) >= MaxCounter THEN "counter-exhausted"
    ELSE "deleted"

DeleteReply(op) ==
    LET found == Present(card[op.card]) IN
    IF WrongEpoch(op.epoch) THEN EpochRefusal(op.epoch)
    ELSE IF /\ CurrentTombstone(op.card)
            /\ tomb[op.card].op = op.id \/ ~found THEN "replayed"
    ELSE IF ~found /\ ~Present(tomb[op.card]) THEN "nothing-to-delete"
    ELSE IF found /\ op.base # card[op.card].rev THEN "revision-conflict"
    ELSE IF DeleteBase(op) >= MaxCounter THEN "counter-exhausted"
    ELSE "deleted"

\* now is the clock of the client that runs the transaction.
DeleteCard(op, now) ==
    /\ DeleteReply(op) = "deleted"
    /\ tomb' = [tomb EXCEPT ![op.card] =
                  [epoch |-> op.epoch, rev |-> DeleteBase(op) + 1,
                   op |-> op.id, at |-> now]]
    /\ card' = [card EXCEPT ![op.card] = NoCard]
    /\ UNCHANGED <<epoch, receipt>>

-----------------------------------------------------------------------------
(* applyReviewForOwner                                                     *)

\* Mutant of ReceiptsOf: receipts are looked up by base revision too.
ReceiptsOf_SameBase(op) ==
    {r \in receipt : r.card = op.card /\ r.op = op.id /\ r.base = op.base}

ReceiptsOf(op) == {r \in receipt : r.card = op.card /\ r.op = op.id}
ValidReceipt(op) == {r \in ReceiptsOf(op) : ~r.expired}

\* The fingerprint covers the base revision and the epoch of the request.
SameRequest(r, op) == r.base = op.base /\ r.epoch = op.epoch

ReviewReply(op, now) ==
    LET doc == card[op.card] IN
    IF ValidReceipt(op) # {}
    THEN IF \A r \in ValidReceipt(op) : SameRequest(r, op)
         THEN "duplicate" ELSE "receipt-fingerprint-conflict"
    ELSE IF WrongEpoch(op.epoch) THEN EpochRefusal(op.epoch)
    ELSE IF ~Present(doc) THEN "missing"
    ELSE IF OldGeneration(op.card) THEN "stale-library-epoch"
    ELSE IF op.base # doc.rev THEN "revision-conflict"
    ELSE IF doc.rev = MaxCounter THEN "counter-exhausted"
    ELSE IF op.at > now THEN "future-review-clock-skew"
    ELSE IF op.at <= doc.last THEN "stale-review"
    ELSE IF ReceiptsOf(op) # {} THEN "already-exists"
    ELSE "applied"

\* Mutant of Reviewed: the schedule changes, the revision does not.
Reviewed_SameRevision(op) == [card[op.card] EXCEPT !.last = op.at]

Reviewed(op) == [card[op.card] EXCEPT !.rev = @ + 1, !.last = op.at]

ReviewCard(op, now) ==
    /\ ReviewReply(op, now) = "applied"
    /\ card' = [card EXCEPT ![op.card] = Reviewed(op)]
    /\ receipt' = receipt \cup
          {[card |-> op.card, op |-> op.id, base |-> op.base,
            epoch |-> op.epoch, rev |-> card[op.card].rev + 1,
            expired |-> FALSE]}
    /\ UNCHANGED <<epoch, tomb>>

\* Thirty days pass: the receipt no longer counts, its document still stands.
ExpireReceipt ==
    /\ \E r \in receipt :
          /\ ~r.expired
          /\ receipt' = (receipt \ {r}) \cup {[r EXCEPT !.expired = TRUE]}
    /\ UNCHANGED <<epoch, card, tomb>>

\* The store's own time-to-live sweep removes it some time later.
PurgeReceipt ==
    /\ \E r \in receipt : r.expired /\ receipt' = receipt \ {r}
    /\ UNCHANGED <<epoch, card, tomb>>

-----------------------------------------------------------------------------
(* Clear-all: advance the epoch, then delete what older epochs left.       *)

\* Mutant of AdvanceEpoch: the counter is stepped without its bound.
AdvanceEpoch_Unbounded ==
    /\ epoch' = epoch + 1
    /\ UNCHANGED <<card, tomb, receipt>>

AdvanceEpoch ==
    /\ epoch < MaxCounter
    /\ epoch' = epoch + 1
    /\ UNCHANGED <<card, tomb, receipt>>

\* One transaction of deleteAllCards over a page: it re-reads each document
\* and keeps those of generation e or later.
PurgePage(e, page) ==
    /\ Cardinality(page) <= PageSize
    /\ \E c \in page : Present(card[c]) /\ card[c].epoch < e
    /\ card' = [c \in Cards |->
                  IF c \in page /\ card[c].epoch < e THEN NoCard ELSE card[c]]
    /\ UNCHANGED <<epoch, tomb, receipt>>

-----------------------------------------------------------------------------
(* The library under any sequence of well-formed requests.                 *)

CreateRequest == [card : Cards, base : Counter, epoch : Counter, at : Time,
                  last : Time, val : [Fields -> Values]]
PatchRequest == [card : Cards, base : Counter, epoch : Counter,
                 mask : SUBSET Fields, val : [Fields -> Values]]
DeleteRequest == [card : Cards, id : OpIds, base : Counter, epoch : Counter]
ReviewRequest == [card : Cards, id : OpIds, base : Counter, epoch : Counter,
                  at : Time]

ServerInit ==
    /\ epoch = 0
    /\ card = [c \in Cards |-> NoCard]
    /\ tomb = [c \in Cards |-> [epoch |-> 0, rev |-> 0,
                                op |-> CHOOSE o \in OpIds : TRUE, at |-> 0]]
    /\ receipt = {}

\* Only a generation that exists can be purged.
PurgeAny == \E e \in Counter, page \in SUBSET Cards :
               e <= epoch /\ PurgePage(e, page)

ServerNext ==
    \/ \E op \in CreateRequest : CreateCard(op)
    \/ \E op \in PatchRequest : PatchCard(op)
    \/ \E op \in DeleteRequest, now \in Time : DeleteCard(op, now)
    \/ \E op \in ReviewRequest, now \in Time : ReviewCard(op, now)
    \/ ExpireReceipt
    \/ PurgeReceipt
    \/ AdvanceEpoch
    \/ PurgeAny

ServerSpec == ServerInit /\ [][ServerNext]_serverVars
-----------------------------------------------------------------------------
(* Properties.                                                             *)

\* Every document the handlers write has the shape they later read.
ServerTypeOK ==
    /\ epoch \in Counter
    /\ card \in [Cards -> CardDoc]
    /\ tomb \in [Cards -> Tombstone]
    /\ receipt \subseteq Receipt

\* No document is stamped with a generation the library has not reached:
\* what makes a clear-all hide every document that exists when it runs.
NoFutureDocuments ==
    /\ \A c \in Cards : card[c].epoch <= epoch /\ tomb[c].epoch <= epoch
    /\ \A r \in receipt : r.epoch <= epoch

\* A card that lives beside a tombstone of its own generation is a later
\* re-creation: its revision is above the tombstone's, so that a request
\* based on the deleted card cannot match it.
TombstoneOrder ==
    \A c \in Cards : Live(c) /\ CurrentTombstone(c)
                        => card[c].rev > tomb[c].rev

\* The highest revision of this generation that a client can have seen.
Stamp(c) == IF Live(c) THEN Later(card[c].rev, TombRev(c)) ELSE TombRev(c)

\* A review receipt names a revision its card really reached, and no two
\* reviews of a card produced the same one, whatever retries, deletions and
\* re-creations ran in between.
ReceiptsNameRevisions ==
    \A r \in receipt :
        /\ r.epoch = epoch => r.rev <= Stamp(r.card)
        /\ \A s \in receipt :
              r.card = s.card /\ r.epoch = s.epoch /\ r.rev = s.rev => r = s

\* One review operation leaves at most one receipt on a card.
OneReceiptPerReview ==
    \A r, s \in receipt : r.card = s.card /\ r.op = s.op => r = s
=============================================================================
