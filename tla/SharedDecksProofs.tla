------------------------- MODULE SharedDecksProofs --------------------------
(***************************************************************************)
(* For every number of owners, decks, shares and tabs, and every limit: one *)
(* operation makes one share, a tab shows only the link of its own owner's *)
(* deck, an unanswered create stays known to the device, the ledgers list  *)
(* the active shares, no quota is passed and the budgets count what was    *)
(* made.                                                                   *)
(***************************************************************************)
EXTENDS SharedDecks, FiniteSetTheorems, WellFoundedInduction, TLAPS

-----------------------------------------------------------------------------
(* The shape of the state.                                                 *)

OpId == 1..MaxOps
CreateCall == [kind : {"create"}, n : Nat, owner : Owners, op : OpId,
               at : Nat, deck : Decks]
RevokeCall == [kind : {"revoke"}, n : Nat, owner : Owners, share : Shares]
Answer == [result : {"created"}, share : Shares]
          \cup [result : {"expired", "conflict", "migration required",
                          "inconsistent", "quota", "limited",
                          "revoked", "failed"}]
Message == [call : CreateCall \cup RevokeCall, tab : Tabs,
            answer : {NoDoc} \cup Answer]
Creation == [op : OpId, asked : Nat, owner : Owners, share : Shares,
             deck : Decks, at : Nat]
ReceiptDoc == [deck : Decks, share : Shares, expires : Nat]
PublicShare == [doc : {"public"}, kind : {"current"}, author : {Nobody},
                created : Nat, expires : Nat, deck : Decks]
PrivateShare == [doc : {"private"}, version : {2}, owner : Owners,
                 created : Nat, expires : Nat, bytes : Nat]
IsOp(x) == x.id \in OpId /\ x.owner \in Owners /\ x.at \in Nat
LinkShape == {NoLink} \cup [share : Shares, deck : Decks]

DocsShape ==
    /\ clock \in Nat
    /\ public \in [Shares -> {NoDoc} \cup PublicShare]
    /\ private \in [Shares -> {NoDoc} \cup PrivateShare]
    /\ receipts \in [Owners -> [OpId -> {NoDoc} \cup ReceiptDoc]]
    /\ made \subseteq Creation
TabsShape ==
    /\ \A x \in stored : IsOp(x)
    /\ DOMAIN memory = Tabs /\ memory = [t \in Tabs |-> memory[t]]
    /\ \A t \in Tabs : \A x \in memory[t] : IsOp(x)
    /\ user \in [Tabs -> Owners \cup {Nobody}]
    /\ busy \in [Tabs -> {NoCall} \cup CreateCall \cup RevokeCall]
    /\ link \in [Tabs -> LinkShape]
    /\ calls \in Nat
    /\ wire \subseteq Message
    /\ minted \in 0..MaxOps

-----------------------------------------------------------------------------
(* What is true of the documents.                                          *)

\* A share is made at a time between its asking and now, and its receipt is
\* there until no retry of the operation is accepted any more.
ReceiptsBack ==
    /\ \A m \in made : m.asked <= m.at /\ m.at <= clock
    /\ \A m \in made : \/ /\ receipts[m.owner][m.op] # NoDoc
                          /\ receipts[m.owner][m.op].expires = m.at + ReceiptLife
                       \/ clock - m.asked > ReceiptLife
    /\ \A o \in Owners, op \in OpId : receipts[o][op] # NoDoc =>
          \E m \in made : /\ m.owner = o
                          /\ m.share = receipts[o][op].share
                          /\ m.deck = receipts[o][op].deck
\* The documents of a share keep the owner and the deck it was made for.
SharesBack ==
    \A m \in made :
        /\ private[m.share] # NoDoc => private[m.share].owner = m.owner
        /\ public[m.share] # NoDoc => public[m.share].deck = m.deck

-----------------------------------------------------------------------------
(* What is true of the tabs.                                               *)

\* The operations that calls under way and shares made carry, and those that
\* the device and its tabs remember, by their owner and their time.
AskedAs(id, o, at) ==
    \/ \E w \in wire : /\ w.call.kind = "create"
                       /\ w.call.op = id /\ w.call.owner = o /\ w.call.at = at
    \/ \E m \in made : m.op = id /\ m.owner = o /\ m.asked = at
KeptAs(id, o, at) ==
    \/ \E x \in stored : x.id = id /\ x.owner = o /\ x.at = at
    \/ \E t \in Tabs : \E x \in memory[t] : x.id = id /\ x.owner = o /\ x.at = at
KnownAs(id, o, at) == AskedAs(id, o, at) \/ KeptAs(id, o, at)

\* An operation has one owner and one time, wherever it is known.
OneName ==
    \A id \in OpId, o, p \in Owners, at, bt \in Nat :
        KnownAs(id, o, at) =>
            /\ id <= minted /\ at <= clock
            /\ KnownAs(id, p, bt) => o = p /\ at = bt

OneByKey(S) == \A x, y \in S : x.owner = y.owner /\ x.print = y.print => x.id = y.id
\* The device knows every operation that may have made a share unseen.
StillPending ==
    /\ OneByKey(stored) /\ \A t \in Tabs : OneByKey(memory[t])
    /\ \A id \in OpId, o \in Owners, at \in Nat :
          AskedAs(id, o, at) /\ id \notin acked /\ clock - at < PendingAge
              => \E x \in stored : x.id = id

MadeFor(o, s, d) == \E m \in made : m.owner = o /\ m.share = s /\ m.deck = d
\* Links, and answers that will become links, are of shares made for them.
LinksBack ==
    /\ \A w \in wire : w.answer # NoDoc /\ w.answer.result = "created" =>
          w.call.kind = "create" /\ MadeFor(w.call.owner, w.answer.share, w.call.deck)
    /\ \A t \in Tabs : busy[t] # NoCall => busy[t].owner = user[t]
    /\ \A t \in Tabs : link[t] # NoLink =>
          user[t] \in Owners /\ MadeFor(user[t], link[t].share, link[t].deck)

DeckInv ==
    /\ DocsShape /\ TabsShape
    /\ ReceiptsBack /\ OneSharePerOperation /\ SharesBack
    /\ OneName /\ StillPending /\ LinksBack

-----------------------------------------------------------------------------
(* What a step does to the documents.                                      *)

Answered(m, a) == [call |-> m.call, tab |-> m.tab, answer |-> a]
\* A create that writes: its operation is neither too old nor answered, and
\* the owner's quota leaves room for it.
Creates(m, s) ==
    LET c == m.call IN
    /\ c \in CreateCall /\ m.answer = NoDoc /\ s \in FreshShares
    /\ ~OutOfDate(c.at) /\ receipts[c.owner][c.op] = NoDoc
    /\ ledger[c.owner] = NoDoc => ~OwnsMetadata(c.owner)
    /\ ~(Cardinality(DOMAIN LedgerNow(c.owner)) >= MaxShares)
    /\ ~(Ledger(LedgerNow(c.owner)).bytes > MaxBytes - DeckBytes[c.deck])
    /\ CreateShareDoc(c.owner, c.op, c.at, c.deck, s)
    /\ wire' = (wire \ {m}) \cup {Answered(m, [result |-> "created", share |-> s])}
\* A create that is answered without writing anything.
Replies(m, a) ==
    LET c == m.call IN
    /\ c \in CreateCall /\ a \in Answer
    /\ UNCHANGED <<shareVars, made>>
    /\ a.result = "created" => /\ receipts[c.owner][c.op] # NoDoc
                               /\ receipts[c.owner][c.op].deck = c.deck
                               /\ receipts[c.owner][c.op].share = a.share

\* The two kinds of call are told apart by their kind, and neither is no call.
LEMMA CallsDiffer ==
    /\ \A c \in CreateCall : c.kind = "create" /\ c # NoCall /\ c \notin RevokeCall
    /\ \A c \in RevokeCall : c.kind = "revoke" /\ c # NoCall /\ c \notin CreateCall
BY DEF CreateCall, RevokeCall, NoCall

\* The transaction of a create either writes one fresh share or nothing.
LEMMA CreateCases ==
    ASSUME DocsShape, NEW m \in Message, m.call \in CreateCall, m.answer = NoDoc,
           NEW a \in Answer,
           CreateTx(m.call.owner, m.call.op, m.call.at, m.call.deck, a),
           wire' = (wire \ {m}) \cup {Answered(m, a)}
    PROVE  Replies(m, a) \/ \E s \in Shares : Creates(m, s)
<1> DEFINE c == m.call
<1>1. c.owner \in Owners /\ c.op \in OpId /\ c.op # NoOp
  BY DEF CreateCall, OpId, NoOp
<1>2. Receipt(c.owner, c.op) = receipts[c.owner][c.op]
  BY <1>1 DEF Receipt
<1>3. PICK s \in (IF FreshShares = {} THEN {0} ELSE FreshShares) :
        LET answer == CreateAnswer(c.owner, c.op, c.at, c.deck, s)
            writes == answer.result = "created" /\ Receipt(c.owner, c.op) = NoDoc
        IN /\ a = answer
           /\ writes => s # 0
           /\ IF writes THEN CreateShareDoc(c.owner, c.op, c.at, c.deck, s)
                        ELSE UNCHANGED <<shareVars, made>>
  BY DEF CreateTx
<1>4. CASE a.result = "created" /\ Receipt(c.owner, c.op) = NoDoc
  <2>1. s \in FreshShares /\ s \in Shares
    BY <1>3, <1>4 DEF FreshShares
  <2>2. /\ ~OutOfDate(c.at)
        /\ ledger[c.owner] = NoDoc => ~OwnsMetadata(c.owner)
        /\ ~(Cardinality(DOMAIN LedgerNow(c.owner)) >= MaxShares)
        /\ ~(Ledger(LedgerNow(c.owner)).bytes > MaxBytes - DeckBytes[c.deck])
        /\ a = [result |-> "created", share |-> s]
    BY <1>1, <1>3, <1>4 DEF CreateAnswer
  <2>3. Creates(m, s)
    BY <1>2, <1>3, <1>4, <2>1, <2>2 DEF Creates
  <2> QED BY <2>1, <2>3
<1>5. CASE ~(a.result = "created" /\ Receipt(c.owner, c.op) = NoDoc)
  <2>1. UNCHANGED <<shareVars, made>>
    BY <1>3, <1>5
  <2>2. a.result = "created" => /\ Receipt(c.owner, c.op).deck = c.deck
                                /\ Receipt(c.owner, c.op).share = a.share
    BY <1>1, <1>3, <1>5 DEF CreateAnswer, SameRequest
  <2> QED BY <1>2, <1>5, <2>1, <2>2 DEF Replies
<1> QED BY <1>4, <1>5

\* A revoke that takes its share away.
Revokes(o, s) == RevokeAnswer(o, s) = "revoked" /\ RevokeTx(o, s)
\* What a revoke is answered.
RevokeReplies(m, a) ==
    /\ m.call \in RevokeCall /\ a.result \in {"revoked", "failed"}
    /\ \/ UNCHANGED <<shareVars, made>>
       \/ \E o \in Owners, s \in Shares : Revokes(o, s)

\* A served call gets its answer, and the tabs are left alone.
LEMMA ServeCases ==
    ASSUME DocsShape, TabsShape, NEW m \in wire, Serve(m)
    PROVE  /\ UNCHANGED <<clock, fence, stored, memory, user, busy, link, calls,
                          minted, signIns, acked>>
           /\ m.answer = NoDoc
           /\ \E a \in Answer :
                 /\ wire' = (wire \ {m}) \cup {Answered(m, a)}
                 /\ \/ Replies(m, a)
                    \/ \E s \in Shares : Creates(m, s)
                    \/ RevokeReplies(m, a)
<1> DEFINE c == m.call
<1>1. m \in Message /\ c \in CreateCall \cup RevokeCall /\ m.answer = NoDoc
  BY DEF TabsShape, Message, Serve
<1>2. PICK a \in Answer :
         /\ \/ c.kind = "create" /\ CreateTx(c.owner, c.op, c.at, c.deck, a)
            \/ /\ c.kind = "revoke"
               /\ RevokeTx(c.owner, c.share)
               /\ a.result = IF RevokeAnswer(c.owner, c.share) \in {"revoked", "missing"}
                             THEN "revoked" ELSE "failed"
         /\ wire' = (wire \ {m}) \cup {Answered(m, a)}
  BY DEF Serve, Answer, Answered
<1>3. CASE c.kind = "create" /\ CreateTx(c.owner, c.op, c.at, c.deck, a)
  <2>1. c \in CreateCall
    BY <1>1, <1>3, CallsDiffer
  <2>2. Replies(m, a) \/ \E s \in Shares : Creates(m, s)
    BY <1>1, <1>2, <1>3, <2>1, CreateCases
  <2> QED BY <1>1, <1>2, <2>2 DEF Serve
<1>4. CASE /\ c.kind = "revoke"
           /\ RevokeTx(c.owner, c.share)
           /\ a.result = IF RevokeAnswer(c.owner, c.share) \in {"revoked", "missing"}
                         THEN "revoked" ELSE "failed"
  <2>1. c \in RevokeCall
    BY <1>1, <1>4, CallsDiffer
  <2>2. c.owner \in Owners /\ c.share \in Shares
    BY <2>1 DEF RevokeCall
  <2>3. UNCHANGED <<shareVars, made>> \/ Revokes(c.owner, c.share)
    BY <1>4 DEF RevokeTx, Revokes
  <2>4. RevokeReplies(m, a)
    BY <1>4, <2>1, <2>2, <2>3 DEF RevokeReplies
  <2> QED BY <1>1, <1>2, <2>4 DEF Serve
<1> QED BY <1>2, <1>3, <1>4

\* The steps, by what they do to the documents.
LEMMA StepCases ==
    ASSUME DocsShape, TabsShape, [DeckNext]_deckVars
    PROVE  \/ UNCHANGED <<clock, shareVars, made>>
           \/ clock' = clock /\ \E m \in wire, s \in Shares : Creates(m, s)
           \/ clock' = clock /\ \E o \in Owners, s \in Shares : Revokes(o, s)
           \/ Tick
           \/ \E s \in Shares : TtlPublic(s)
           \/ \E s \in Shares : TtlPrivate(s)
           \/ \E o \in Owners, op \in OpId : TtlReceipt(o, op)
<1>1. CASE UNCHANGED deckVars
  BY <1>1 DEF deckVars
<1>2. ASSUME NEW t \in Tabs, NEW d \in Decks, AskShare(t, d)
      PROVE  UNCHANGED <<clock, shareVars, made>>
  BY <1>2 DEF AskShare
<1>3. ASSUME NEW t \in Tabs, NEW d \in Decks, AskRefused(t, d)
      PROVE  UNCHANGED <<clock, shareVars, made>>
  BY <1>3 DEF AskRefused
<1>4. ASSUME NEW t \in Tabs, AskRevoke(t) \/ TimeOut(t) \/ Reload(t)
      PROVE  UNCHANGED <<clock, shareVars, made>>
  BY <1>4 DEF AskRevoke, TimeOut, Reload
<1>5. ASSUME NEW t \in Tabs, NEW o \in Owners \cup {Nobody}, SignIn(t, o)
      PROVE  UNCHANGED <<clock, shareVars, made>>
  BY <1>5 DEF SignIn
<1>6. ASSUME NEW m \in wire, Lose(m) \/ Receive(m)
      PROVE  UNCHANGED <<clock, shareVars, made>>
  BY <1>6 DEF Lose, Receive
<1>7. ASSUME NEW m \in wire, Serve(m)
      PROVE  \/ UNCHANGED <<clock, shareVars, made>>
             \/ clock' = clock /\ \E s \in Shares : Creates(m, s)
             \/ clock' = clock /\ \E o \in Owners, s \in Shares : Revokes(o, s)
  BY <1>7, ServeCases DEF Replies, RevokeReplies
<1> QED
  BY <1>1, <1>2, <1>3, <1>4, <1>5, <1>6, <1>7 DEF DeckNext, TabNext, TimeNext, OpId

-----------------------------------------------------------------------------
(* The documents' invariants are kept.                                     *)

\* A create's new documents, its receipt and its record.
LEMMA CreateEffect ==
    ASSUME DocsShape, NEW m \in wire, NEW s \in Shares, Creates(m, s)
    PROVE  LET c == m.call
               new == [op |-> c.op, asked |-> c.at, owner |-> c.owner, share |-> s,
                       deck |-> c.deck, at |-> clock]
           IN /\ c.owner \in Owners /\ c.op \in OpId /\ c.at \in Nat /\ c.deck \in Decks
              /\ new \in Creation /\ made' = made \cup {new}
              /\ \A n \in made : n.share # s
              /\ public[s] = NoDoc /\ private[s] = NoDoc
              /\ public' = [public EXCEPT ![s] =
                              SharePublic(c.deck, clock, clock + Lifetime)]
              /\ SharePublic(c.deck, clock, clock + Lifetime) \in PublicShare
              /\ private' = [private EXCEPT ![s] =
                              SharePrivate(c.owner, c.deck, clock, clock + Lifetime)]
              /\ SharePrivate(c.owner, c.deck, clock, clock + Lifetime) \in PrivateShare
              /\ receipts' = [receipts EXCEPT ![c.owner][c.op] =
                    [deck |-> c.deck, share |-> s, expires |-> clock + ReceiptLife]]
              /\ ~OutOfDate(c.at) /\ receipts[c.owner][c.op] = NoDoc
<1> DEFINE c == m.call
<1>1. /\ c.owner \in Owners /\ c.op \in OpId /\ c.at \in Nat /\ c.deck \in Decks
      /\ c.op # NoOp
  BY DEF Creates, CreateCall, OpId, NoOp
<1>2. clock \in Nat /\ clock + Lifetime \in Nat /\ DeckBytes[c.deck] \in Nat
  BY <1>1, TimeAssumption, DeckAssumption DEF DocsShape
<1>3. CreateShareDoc(c.owner, c.op, c.at, c.deck, s)
  BY DEF Creates
<1>4. /\ SharePublic(c.deck, clock, clock + Lifetime) \in PublicShare
      /\ SharePrivate(c.owner, c.deck, clock, clock + Lifetime) \in PrivateShare
  BY <1>1, <1>2 DEF SharePublic, PublicDoc, PublicShare, SharePrivate, PrivateDoc, PrivateShare
<1>5. /\ public' = [public EXCEPT ![s] = SharePublic(c.deck, clock, clock + Lifetime)]
      /\ private' = [private EXCEPT ![s] =
                       SharePrivate(c.owner, c.deck, clock, clock + Lifetime)]
      /\ receipts' = [receipts EXCEPT ![c.owner][c.op] =
            [deck |-> c.deck, share |-> s, expires |-> clock + ReceiptLife]]
      /\ made' = made \cup {[op |-> c.op, asked |-> c.at, owner |-> c.owner, share |-> s,
                             deck |-> c.deck, at |-> clock]}
  BY <1>1, <1>3 DEF CreateShareDoc
<1>6. [op |-> c.op, asked |-> c.at, owner |-> c.owner, share |-> s,
       deck |-> c.deck, at |-> clock] \in Creation
  BY <1>1, <1>2 DEF Creation
<1>7. /\ \A n \in made : n.share # s
      /\ public[s] = NoDoc /\ private[s] = NoDoc
      /\ ~OutOfDate(c.at) /\ receipts[c.owner][c.op] = NoDoc
  BY DEF Creates, FreshShares
<1> QED BY <1>1, <1>4, <1>5, <1>6, <1>7

\* A revoke removes both documents of a share of its owner.
LEMMA RevokeEffect ==
    ASSUME DocsShape, NEW o \in Owners, NEW s \in Shares, Revokes(o, s)
    PROVE  /\ public' = [public EXCEPT ![s] = NoDoc]
           /\ private' = [private EXCEPT ![s] = NoDoc]
           /\ private[s] # NoDoc /\ private[s].owner = o
           /\ UNCHANGED <<receipts, budget, made>>
<1>1. RevokeAnswer(o, s) = "revoked" /\ RevokeTx(o, s)
  BY DEF Revokes
<1>2. private[s] # NoDoc /\ private[s].owner = o
  BY <1>1 DEF RevokeAnswer
<1> QED BY <1>1, <1>2 DEF RevokeTx

\* Every step leaves documents of their shape.
LEMMA DocsKept ==
    ASSUME DocsShape, TabsShape, [DeckNext]_deckVars
    PROVE  DocsShape'
<1>1. CASE UNCHANGED <<clock, shareVars, made>>
  BY <1>1 DEF DocsShape, shareVars
<1>2. ASSUME clock' = clock, NEW m \in wire, NEW s \in Shares, Creates(m, s)
      PROVE  DocsShape'
  <2> DEFINE c == m.call
             new == [op |-> c.op, asked |-> c.at, owner |-> c.owner, share |-> s,
                     deck |-> c.deck, at |-> clock]
             receipt == [deck |-> c.deck, share |-> s, expires |-> clock + ReceiptLife]
             pub == SharePublic(c.deck, clock, clock + Lifetime)
             priv == SharePrivate(c.owner, c.deck, clock, clock + Lifetime)
  <2>1. /\ c.owner \in Owners /\ c.op \in OpId /\ c.deck \in Decks
        /\ new \in Creation /\ made' = made \cup {new}
        /\ public' = [public EXCEPT ![s] = pub] /\ pub \in PublicShare
        /\ private' = [private EXCEPT ![s] = priv] /\ priv \in PrivateShare
        /\ receipts' = [receipts EXCEPT ![c.owner][c.op] = receipt]
    BY <1>2, CreateEffect
  <2>2. receipt \in ReceiptDoc
    BY <2>1, TimeAssumption DEF ReceiptDoc, ReceiptLife, DocsShape
  <2> HIDE DEF new, receipt, pub, priv
  <2> QED BY <1>2, <2>1, <2>2 DEF DocsShape
<1>3. ASSUME clock' = clock, NEW o \in Owners, NEW s \in Shares, Revokes(o, s)
      PROVE  DocsShape'
  BY <1>3, RevokeEffect DEF DocsShape
<1>4. CASE Tick
  BY <1>4 DEF Tick, DocsShape, shareVars
<1>5. ASSUME NEW s \in Shares, TtlPublic(s) PROVE DocsShape'
  BY <1>5 DEF TtlPublic, DocsShape
<1>6. ASSUME NEW s \in Shares, TtlPrivate(s) PROVE DocsShape'
  BY <1>6 DEF TtlPrivate, DocsShape
<1>7. ASSUME NEW o \in Owners, NEW op \in OpId, TtlReceipt(o, op) PROVE DocsShape'
  BY <1>7 DEF TtlReceipt, DocsShape
<1> QED BY <1>1, <1>2, <1>3, <1>4, <1>5, <1>6, <1>7, StepCases

\* An operation that has already made a share makes no other: its receipt is
\* there to answer, or the operation is too old.
LEMMA FirstShare ==
    ASSUME DeckInv, NEW m \in wire, NEW s \in Shares, Creates(m, s)
    PROVE  \A n \in made : n.op # m.call.op
<1> SUFFICES ASSUME NEW n \in made, n.op = m.call.op PROVE FALSE
  OBVIOUS
<1> DEFINE c == m.call
<1>1. n \in Creation /\ c \in CreateCall /\ DocsShape /\ OneName /\ ReceiptsBack
  BY DEF DeckInv, DocsShape, Creates
<1>2. AskedAs(c.op, c.owner, c.at) /\ AskedAs(n.op, n.owner, n.asked)
  BY <1>1 DEF AskedAs, CreateCall
<1>3. n.owner = c.owner /\ n.asked = c.at
  BY <1>1, <1>2 DEF OneName, KnownAs, CreateCall, Creation
<1>4. receipts[n.owner][n.op] = NoDoc /\ ~OutOfDate(n.asked)
  BY <1>3 DEF Creates
<1> QED BY <1>1, <1>4 DEF ReceiptsBack, OutOfDate

\* A second share of an operation would need a create that FirstShare excludes.
LEMMA OneShareKept ==
    ASSUME DeckInv, [DeckNext]_deckVars
    PROVE  OneSharePerOperation'
<1>1. ASSUME NEW m \in wire, NEW s \in Shares, Creates(m, s)
      PROVE  OneSharePerOperation'
  <2>1. /\ \A n \in made : n.op # m.call.op
        /\ made' = made \cup {[op |-> m.call.op, asked |-> m.call.at, owner |-> m.call.owner,
                               share |-> s, deck |-> m.call.deck, at |-> clock]}
    BY <1>1, CreateEffect, FirstShare DEF DeckInv
  <2> QED BY <2>1 DEF DeckInv, OneSharePerOperation
<1>2. CASE made' = made
  BY <1>2 DEF DeckInv, OneSharePerOperation
<1> QED
  BY <1>1, <1>2, StepCases, RevokeEffect
     DEF DeckInv, Tick, TtlPublic, TtlPrivate, TtlReceipt

\* A receipt is written with its share and expires only when the server has
\* stopped accepting the operation.
LEMMA ReceiptsKept ==
    ASSUME DeckInv, [DeckNext]_deckVars
    PROVE  ReceiptsBack'
<1>1. CASE UNCHANGED <<clock, shareVars, made>>
  BY <1>1 DEF DeckInv, ReceiptsBack, shareVars
<1>2. ASSUME clock' = clock, NEW m \in wire, NEW s \in Shares, Creates(m, s)
      PROVE  ReceiptsBack'
  <2> DEFINE c == m.call
             new == [op |-> c.op, asked |-> c.at, owner |-> c.owner, share |-> s,
                     deck |-> c.deck, at |-> clock]
             receipt == [deck |-> c.deck, share |-> s, expires |-> clock + ReceiptLife]
  <2>1. /\ c.owner \in Owners /\ c.op \in OpId /\ c.deck \in Decks /\ c.at \in Nat
        /\ made' = made \cup {new}
        /\ receipts' = [receipts EXCEPT ![c.owner][c.op] = receipt]
    BY <1>2, CreateEffect DEF DeckInv
  <2>2. \A n \in made : n.op # c.op
    BY <1>2, FirstShare
  <2>3. c.at <= clock
    <3>1. AskedAs(c.op, c.owner, c.at)
      BY <1>2 DEF AskedAs, Creates, CreateCall
    <3> QED BY <2>1, <3>1 DEF DeckInv, OneName, KnownAs
  <2>4. /\ \A n \in made : n \in Creation
        /\ receipts \in [Owners -> [OpId -> {NoDoc} \cup ReceiptDoc]] /\ clock \in Nat
    BY DEF DeckInv, DocsShape
  <2>5. receipt # NoDoc
    BY DEF NoDoc
  <2>6. \A o \in Owners, op \in OpId :
           receipts'[o][op] = IF o = c.owner /\ op = c.op THEN receipt ELSE receipts[o][op]
    BY <2>1, <2>4
  <2> ReceiptsBack
    BY DEF DeckInv
  <2>7. \A n \in made' : n.asked <= n.at /\ n.at <= clock'
    <3>1. new.asked <= new.at /\ new.at <= clock
      BY <2>3, <2>4
    <3> QED BY <1>2, <2>1, <3>1 DEF ReceiptsBack
  <2>8. \A n \in made' : \/ /\ receipts'[n.owner][n.op] # NoDoc
                            /\ receipts'[n.owner][n.op].expires = n.at + ReceiptLife
                         \/ clock' - n.asked > ReceiptLife
    <3> SUFFICES ASSUME NEW n \in made'
                 PROVE  \/ /\ receipts'[n.owner][n.op] # NoDoc
                           /\ receipts'[n.owner][n.op].expires = n.at + ReceiptLife
                        \/ clock' - n.asked > ReceiptLife
      OBVIOUS
    <3>1. CASE n = new
      BY <2>1, <2>5, <2>6, <3>1
    <3>2. CASE n \in made
      BY <1>2, <2>2, <2>4, <2>6, <3>2 DEF DeckInv, ReceiptsBack, Creation
    <3> QED BY <2>1, <3>1, <3>2
  <2>9. \A o \in Owners, op \in OpId : receipts'[o][op] # NoDoc =>
          \E n \in made' : /\ n.owner = o
                           /\ n.share = receipts'[o][op].share
                           /\ n.deck = receipts'[o][op].deck
    <3> SUFFICES ASSUME NEW o \in Owners, NEW op \in OpId, receipts'[o][op] # NoDoc
                 PROVE  \E n \in made' : /\ n.owner = o
                                         /\ n.share = receipts'[o][op].share
                                         /\ n.deck = receipts'[o][op].deck
      OBVIOUS
    <3>1. CASE o = c.owner /\ op = c.op
      <4>1. new \in made' /\ receipts'[o][op] = receipt
        BY <2>1, <2>6, <3>1
      <4> QED BY <3>1, <4>1
    <3>2. CASE ~(o = c.owner /\ op = c.op)
      <4>1. receipts'[o][op] = receipts[o][op]
        BY <2>6, <3>2
      <4> HIDE DEF new
      <4> QED BY <2>1, <4>1 DEF ReceiptsBack
    <3> QED BY <3>1, <3>2
  <2> QED BY <2>7, <2>8, <2>9 DEF ReceiptsBack
<1>3. ASSUME clock' = clock, NEW o \in Owners, NEW s \in Shares, Revokes(o, s)
      PROVE  ReceiptsBack'
  BY <1>3, RevokeEffect DEF DeckInv, ReceiptsBack
<1>4. CASE Tick
  <2>1. \A n \in made : n.asked \in Nat /\ n.at \in Nat
    BY DEF DeckInv, DocsShape, Creation
  <2> QED
    BY <1>4, <2>1, TimeAssumption
       DEF Tick, DeckInv, ReceiptsBack, DocsShape, shareVars, ReceiptLife
<1>5. ASSUME NEW s \in Shares, TtlPublic(s) \/ TtlPrivate(s) PROVE ReceiptsBack'
  BY <1>5 DEF TtlPublic, TtlPrivate, DeckInv, ReceiptsBack
<1>6. ASSUME NEW o \in Owners, NEW op \in OpId, TtlReceipt(o, op) PROVE ReceiptsBack'
  <2>1. /\ receipts' = [receipts EXCEPT ![o][op] = NoDoc]
        /\ receipts[o][op] # NoDoc /\ receipts[o][op].expires < clock
        /\ clock' = clock /\ made' = made
    BY <1>6 DEF TtlReceipt, Expired
  <2>2. /\ \A n \in made : n \in Creation
        /\ receipts \in [Owners -> [OpId -> {NoDoc} \cup ReceiptDoc]] /\ clock \in Nat
        /\ ReceiptLife \in Nat
    BY TimeAssumption DEF DeckInv, DocsShape, ReceiptLife
  <2>3. \A p \in Owners, id \in OpId :
           receipts'[p][id] = IF p = o /\ id = op THEN NoDoc ELSE receipts[p][id]
    BY <2>1, <2>2
  <2>4. \A n \in made : \/ /\ receipts'[n.owner][n.op] # NoDoc
                           /\ receipts'[n.owner][n.op].expires = n.at + ReceiptLife
                        \/ clock - n.asked > ReceiptLife
    BY <2>1, <2>2, <2>3 DEF DeckInv, ReceiptsBack, Creation
  <2>5. \A p \in Owners, id \in OpId : receipts'[p][id] # NoDoc =>
          \E n \in made : /\ n.owner = p
                          /\ n.share = receipts'[p][id].share
                          /\ n.deck = receipts'[p][id].deck
    BY <2>3 DEF DeckInv, ReceiptsBack
  <2> QED BY <2>1, <2>4, <2>5 DEF DeckInv, ReceiptsBack
<1> QED BY <1>1, <1>2, <1>3, <1>4, <1>5, <1>6, StepCases DEF DeckInv

\* An identifier is never used twice, so no later share overwrites one made.
LEMMA SharesKept ==
    ASSUME DeckInv, [DeckNext]_deckVars
    PROVE  SharesBack'
<1> USE DEF DeckInv
<1>1. CASE UNCHANGED <<clock, shareVars, made>>
  BY <1>1 DEF SharesBack, shareVars
<1>2. ASSUME NEW m \in wire, NEW s \in Shares, Creates(m, s)
      PROVE  SharesBack'
  <2> DEFINE c == m.call
             new == [op |-> c.op, asked |-> c.at, owner |-> c.owner, share |-> s,
                     deck |-> c.deck, at |-> clock]
             pub == SharePublic(c.deck, clock, clock + Lifetime)
             priv == SharePrivate(c.owner, c.deck, clock, clock + Lifetime)
  <2>1. /\ made' = made \cup {new} /\ \A n \in made : n.share # s
        /\ public' = [public EXCEPT ![s] = pub]
        /\ private' = [private EXCEPT ![s] = priv]
    BY <1>2, CreateEffect
  <2>2. pub.deck = c.deck /\ priv.owner = c.owner
    BY DEF SharePublic, PublicDoc, SharePrivate, PrivateDoc
  <2> HIDE DEF pub, priv
  <2>3. \A n \in made : public'[n.share] = public[n.share] /\ private'[n.share] = private[n.share]
    BY <2>1 DEF DocsShape, Creation
  <2>4. public'[s] = pub /\ private'[s] = priv
    BY <2>1 DEF DocsShape
  <2> QED BY <2>1, <2>2, <2>3, <2>4 DEF SharesBack
<1>3. ASSUME NEW o \in Owners, NEW s \in Shares, Revokes(o, s)
      PROVE  SharesBack'
  <2>1. /\ public' = [public EXCEPT ![s] = NoDoc]
        /\ private' = [private EXCEPT ![s] = NoDoc]
        /\ made' = made
    BY <1>3, RevokeEffect
  <2> QED BY <2>1 DEF SharesBack, DocsShape, Creation
<1>4. CASE Tick
  BY <1>4 DEF Tick, SharesBack, shareVars
<1>5. ASSUME NEW s \in Shares, TtlPublic(s) PROVE SharesBack'
  BY <1>5 DEF TtlPublic, SharesBack, DocsShape, Creation
<1>6. ASSUME NEW s \in Shares, TtlPrivate(s) PROVE SharesBack'
  BY <1>6 DEF TtlPrivate, SharesBack, DocsShape, Creation
<1>7. ASSUME NEW o \in Owners, NEW op \in OpId, TtlReceipt(o, op) PROVE SharesBack'
  BY <1>7 DEF TtlReceipt, SharesBack
<1> QED BY <1>1, <1>2, <1>3, <1>4, <1>5, <1>6, <1>7, StepCases

-----------------------------------------------------------------------------
(* The operations a device remembers.                                      *)

\* Normalizing keeps one operation of an owner and a fingerprint, and every
\* usable one that has no rival.
LEMMA NormalizedKeeps ==
    ASSUME NEW S, \A x \in S : IsOp(x)
    PROVE  /\ Normalized(S) \subseteq S
           /\ OneByKey(Normalized(S))
           /\ \A x \in S : Usable(x) /\ OneByKey(S) => x \in Normalized(S)
<1>1. \A x \in S : x.id \in Nat
  BY BoundAssumption DEF IsOp, OpId
<1> QED BY <1>1 DEF Normalized, OneByKey

\* What a tab takes as pending is of the device or its own, one operation of
\* an owner and a fingerprint, and nothing usable in storage is missing.
LEMMA PendingKeeps ==
    ASSUME TabsShape, StillPending, NEW t \in Tabs
    PROVE  /\ Pending(t) \subseteq stored \cup memory[t]
           /\ \A x \in Pending(t) : IsOp(x)
           /\ OneByKey(Pending(t))
           /\ \A x \in stored : Usable(x) => x \in Pending(t)
<1>1. \A x \in stored : IsOp(x)
  BY DEF TabsShape
<1>2. \A x \in memory[t] : IsOp(x)
  BY DEF TabsShape
<1>3. /\ Normalized(stored) \subseteq stored /\ OneByKey(Normalized(stored))
      /\ \A x \in stored : Usable(x) => x \in Normalized(stored)
  BY <1>1, NormalizedKeeps DEF StillPending
<1>4. OneByKey(memory[t])
  BY DEF StillPending
<1> QED BY <1>1, <1>2, <1>3, <1>4 DEF Pending

\* What a request to share is sent with, and what the device then remembers.
Same(t, d) == Pending(t) \ Others(Pending(t), user[t], Fingerprint[d])
Rest(t, d) == Others(Pending(t), user[t], Fingerprint[d])
AskedOp(t, d) ==
    IF Same(t, d) # {} THEN CHOOSE x \in Same(t, d) : TRUE
    ELSE [id |-> minted + 1, owner |-> user[t], print |-> Fingerprint[d], at |-> clock]
KeptOps(t, d) == Normalized(Rest(t, d) \cup {AskedOp(t, d)})
AskedCall(t, d) ==
    [kind |-> "create", n |-> calls, owner |-> user[t], op |-> AskedOp(t, d).id,
     at |-> AskedOp(t, d).at, deck |-> d]

\* A request to share, in the terms above.
LEMMA AskStep ==
    ASSUME NEW t \in Tabs, NEW d \in Decks, AskShare(t, d)
    PROVE  /\ user[t] # Nobody /\ busy[t] = NoCall
           /\ Same(t, d) = {} => minted < MaxOps
           /\ stored' = KeptOps(t, d)
           /\ memory' = [memory EXCEPT ![t] = KeptOps(t, d)]
           /\ minted' = IF Same(t, d) # {} THEN minted ELSE minted + 1
           /\ busy' = [busy EXCEPT ![t] = AskedCall(t, d)]
           /\ wire' = wire \cup {[call |-> AskedCall(t, d), tab |-> t, answer |-> NoDoc]}
           /\ calls' = calls + 1
           /\ UNCHANGED <<clock, shareVars, fence, user, link, signIns, made, acked>>
BY DEF AskShare, CanCall, Send, Same, Rest, AskedOp, KeptOps, AskedCall

\* The operation is the pending one of the same owner and fingerprint, or new.
LEMMA AskedOpIs ==
    ASSUME TabsShape, DocsShape, StillPending, NEW t \in Tabs, NEW d \in Decks,
           AskShare(t, d)
    PROVE  LET op == AskedOp(t, d)
           IN /\ IsOp(op) /\ op.owner = user[t] /\ op.print = Fingerprint[d]
              /\ \/ op \in Pending(t) /\ minted' = minted
                 \/ op.id = minted + 1 /\ op.at = clock /\ minted' = minted + 1
              /\ \A x \in Pending(t) : x \in Rest(t, d) \/ x.id = op.id
<1> DEFINE op == AskedOp(t, d)
<1>0. /\ user[t] \in Owners /\ clock \in Nat /\ minted \in 0..MaxOps
      /\ Same(t, d) = {} => minted < MaxOps
      /\ minted' = IF Same(t, d) # {} THEN minted ELSE minted + 1
  BY AskStep DEF TabsShape, DocsShape
<1>1. CASE Same(t, d) # {}
  <2>1. op \in Same(t, d)
    BY <1>1 DEF AskedOp
  <2>2. op \in Pending(t) /\ op.owner = user[t] /\ op.print = Fingerprint[d]
    BY <2>1 DEF Same, Others
  <2>3. \A x \in Pending(t) : x \in Rest(t, d) \/ x.id = op.id
    BY <2>2, PendingKeeps DEF Rest, Others, OneByKey
  <2> HIDE DEF op
  <2> QED BY <1>0, <1>1, <2>2, <2>3, PendingKeeps DEF op
<1>2. CASE Same(t, d) = {}
  <2>1. op = [id |-> minted + 1, owner |-> user[t], print |-> Fingerprint[d], at |-> clock]
    BY <1>2 DEF AskedOp
  <2>2. IsOp(op) /\ op.id = minted + 1 /\ op.at = clock
    BY <1>0, <1>2, <2>1, BoundAssumption DEF IsOp, OpId
  <2>3. \A x \in Pending(t) : x \in Rest(t, d)
    BY <1>2 DEF Same, Rest
  <2> HIDE DEF op
  <2> QED BY <1>0, <1>2, <2>1, <2>2, <2>3 DEF op
<1> QED BY <1>1, <1>2

\* Every operation remembered afterwards is that one or was pending, one for
\* an owner and a fingerprint, and none that is usable is forgotten.
LEMMA KeptOpsAre ==
    ASSUME TabsShape, DocsShape, OneName, StillPending, NEW t \in Tabs, NEW d \in Decks,
           AskShare(t, d)
    PROVE  /\ KeptOps(t, d) \subseteq Pending(t) \cup {AskedOp(t, d)}
           /\ \A x \in KeptOps(t, d) : IsOp(x)
           /\ OneByKey(KeptOps(t, d))
           /\ Usable(AskedOp(t, d)) => AskedOp(t, d) \in KeptOps(t, d)
           /\ \A x \in stored : Usable(x) => \E y \in KeptOps(t, d) : y.id = x.id
<1> DEFINE op == AskedOp(t, d)
           S == Rest(t, d) \cup {op}
<1>1. /\ IsOp(op) /\ op.owner = user[t] /\ op.print = Fingerprint[d]
      /\ \A x \in Pending(t) : x \in Rest(t, d) \/ x.id = op.id
  BY AskedOpIs
<1>2. Rest(t, d) \subseteq Pending(t)
      /\ \A x \in Rest(t, d) : x.owner # user[t] \/ x.print # Fingerprint[d]
  BY DEF Rest, Others
<1>3. (\A x \in S : IsOp(x)) /\ OneByKey(S)
  <2>1. \A x \in Pending(t) : IsOp(x)
    BY PendingKeeps
  <2>2. OneByKey(Rest(t, d))
    BY <1>2, PendingKeeps DEF OneByKey
  <2> HIDE DEF op
  <2> QED BY <1>1, <1>2, <2>1, <2>2 DEF OneByKey
<1>7. op \in Pending(t) \/ op.id = minted + 1
  BY AskedOpIs
<1> HIDE DEF op
<1>4. /\ Normalized(S) \subseteq S /\ OneByKey(Normalized(S))
      /\ \A x \in S : Usable(x) => x \in Normalized(S)
  BY <1>3, NormalizedKeeps
<1>5. KeptOps(t, d) = Normalized(S)
  BY DEF KeptOps, op
<1>6. ASSUME NEW x \in stored, Usable(x)
      PROVE  \E y \in KeptOps(t, d) : y.id = x.id
  <2>1. x \in Pending(t)
    BY <1>6, PendingKeeps
  <2>2. CASE x \in Rest(t, d)
    BY <1>4, <1>5, <1>6, <2>2
  <2>3. CASE x \notin Rest(t, d)
    <3>1. x.id = op.id
      BY <1>1, <2>1, <2>3
    <3>2. KnownAs(x.id, x.owner, x.at) /\ IsOp(x)
      BY DEF KnownAs, KeptAs, TabsShape
    <3>3. op \in Pending(t)
      BY <1>7, <3>1, <3>2 DEF OneName, IsOp, TabsShape
    <3>4. KnownAs(op.id, op.owner, op.at)
      BY <3>3, PendingKeeps DEF KnownAs, KeptAs
    <3>5. op.at = x.at
      BY <1>1, <3>1, <3>2, <3>4 DEF OneName, IsOp
    <3> QED BY <1>4, <1>5, <1>6, <3>1, <3>5 DEF Usable
  <2> QED BY <2>2, <2>3
<1> QED BY <1>2, <1>3, <1>4, <1>5, <1>6 DEF op

-----------------------------------------------------------------------------
(* The tabs' invariants are kept.                                          *)

\* Time leaves the tabs and the history of shares alone.
LEMMA TimeStep ==
    ASSUME DocsShape, TimeNext
    PROVE  UNCHANGED <<tabVars, made>> /\ clock' \in Nat /\ clock' >= clock
BY DEF TimeNext, Tick, TtlPublic, TtlPrivate, TtlReceipt, DocsShape

\* An answer that reaches the tab awaiting it.
LEMMA ReceiveStep ==
    ASSUME TabsShape, StillPending, NEW m \in wire, Receive(m)
    PROVE  LET t == m.tab
               c == m.call
               left == {op \in Pending(t) : op.id # c.op}
           IN /\ m \in Message /\ m.answer \in Answer /\ wire' = wire \ {m}
              /\ UNCHANGED <<clock, user, calls, minted, made>>
              /\ \/ UNCHANGED <<stored, memory, busy, link, acked>>
                 \/ /\ busy[t] = c /\ busy' = [busy EXCEPT ![t] = NoCall]
                    /\ \/ link' = link
                       \/ link' = [link EXCEPT ![t] = NoLink]
                       \/ /\ m.answer.result = "created"
                          /\ link' = [link EXCEPT ![t] =
                                        [share |-> m.answer.share, deck |-> c.deck]]
                    /\ \/ UNCHANGED <<stored, memory>> /\ acked \subseteq acked'
                       \/ /\ acked' = acked \cup {c.op}
                          /\ stored' = left /\ memory' = [memory EXCEPT ![t] = left]
<1>1. /\ m \in Message /\ m.answer # NoDoc /\ wire' = wire \ {m}
      /\ UNCHANGED <<clock, user, calls, minted, made>>
  BY DEF Receive, TabsShape
<1>2. m.answer \in Answer /\ m.tab \in Tabs
  BY <1>1 DEF Message
<1>3. CASE busy[m.tab] # m.call
  BY <1>1, <1>2, <1>3 DEF Receive
<1>4. CASE busy[m.tab] = m.call
  <2>1. /\ busy' = [busy EXCEPT ![m.tab] = NoCall]
        /\ link' = [link EXCEPT ![m.tab] = Shown(link[m.tab], m.call, m.answer)]
        /\ acked' = IF m.answer.result = "created" THEN acked \cup {m.call.op} ELSE acked
        /\ IF Settles(m.call, m.answer)
           THEN /\ stored' = {op \in Pending(m.tab) : op.id # m.call.op}
                /\ memory' = [memory EXCEPT ![m.tab] =
                                {op \in Pending(m.tab) : op.id # m.call.op}]
           ELSE UNCHANGED <<stored, memory>>
    BY <1>4 DEF Receive
  <2>2. \/ Shown(link[m.tab], m.call, m.answer) = link[m.tab]
        \/ Shown(link[m.tab], m.call, m.answer) = NoLink
        \/ /\ m.answer.result = "created"
           /\ Shown(link[m.tab], m.call, m.answer) =
                 [share |-> m.answer.share, deck |-> m.call.deck]
    BY DEF Shown
  <2>3. \/ link' = link
        \/ link' = [link EXCEPT ![m.tab] = NoLink]
        \/ /\ m.answer.result = "created"
           /\ link' = [link EXCEPT ![m.tab] =
                         [share |-> m.answer.share, deck |-> m.call.deck]]
    BY <1>2, <2>1, <2>2 DEF TabsShape
  <2>4. \/ UNCHANGED <<stored, memory>> /\ acked \subseteq acked'
        \/ /\ acked' = acked \cup {m.call.op}
           /\ stored' = {op \in Pending(m.tab) : op.id # m.call.op}
           /\ memory' = [memory EXCEPT ![m.tab] =
                           {op \in Pending(m.tab) : op.id # m.call.op}]
    BY <2>1 DEF Settles
  <2> QED BY <1>1, <1>2, <1>4, <2>1, <2>3, <2>4
<1> QED BY <1>3, <1>4

\* Every step leaves tabs, calls and answers of their shape.
LEMMA TabsKept ==
    ASSUME DeckInv, [DeckNext]_deckVars
    PROVE  TabsShape'
<1> DocsShape /\ TabsShape /\ OneName /\ StillPending /\ LinksBack
  BY DEF DeckInv
<1>1. CASE UNCHANGED deckVars
  BY <1>1 DEF deckVars, tabVars, TabsShape, IsOp
<1>2. ASSUME NEW t \in Tabs, NEW d \in Decks, AskShare(t, d)
      PROVE  TabsShape'
  <2> DEFINE op == AskedOp(t, d)
             c == AskedCall(t, d)
  <2>1. /\ stored' = KeptOps(t, d) /\ memory' = [memory EXCEPT ![t] = KeptOps(t, d)]
        /\ minted' = IF Same(t, d) # {} THEN minted ELSE minted + 1
        /\ busy' = [busy EXCEPT ![t] = c] /\ calls' = calls + 1
        /\ wire' = wire \cup {[call |-> c, tab |-> t, answer |-> NoDoc]}
        /\ user[t] # Nobody /\ (Same(t, d) = {} => minted < MaxOps)
        /\ user' = user /\ link' = link
    BY <1>2, AskStep
  <2>2. IsOp(op) /\ \A x \in KeptOps(t, d) : IsOp(x)
    BY <1>2, AskedOpIs, KeptOpsAre
  <2>3. c \in CreateCall
    BY <2>1, <2>2 DEF AskedCall, CreateCall, IsOp, TabsShape
  <2>4. [call |-> c, tab |-> t, answer |-> NoDoc] \in Message
    BY <2>3 DEF Message
  <2>5. minted' \in 0..MaxOps
    BY <2>1, BoundAssumption DEF TabsShape
  <2> HIDE DEF c, op
  <2> QED BY <2>1, <2>2, <2>3, <2>4, <2>5 DEF TabsShape
<1>3. ASSUME NEW t \in Tabs, NEW d \in Decks, AskRefused(t, d)
      PROVE  TabsShape'
  <2>1. Normalized(stored) \subseteq stored
    BY DEF Normalized
  <2>2. \A x \in Pending(t) : IsOp(x)
    BY PendingKeeps
  <2> QED BY <1>3, <2>1, <2>2 DEF AskRefused, TabsShape
<1>4. ASSUME NEW t \in Tabs, AskRevoke(t)
      PROVE  TabsShape'
  <2> DEFINE c == [kind |-> "revoke", n |-> calls, owner |-> user[t],
                   share |-> link[t].share]
  <2>1. c \in RevokeCall
    BY <1>4 DEF AskRevoke, CanCall, TabsShape, RevokeCall, LinkShape
  <2>2. [call |-> c, tab |-> t, answer |-> NoDoc] \in Message
    BY <2>1 DEF Message
  <2>3. /\ busy' = [busy EXCEPT ![t] = c] /\ calls' = calls + 1
        /\ wire' = wire \cup {[call |-> c, tab |-> t, answer |-> NoDoc]}
        /\ UNCHANGED <<stored, memory, user, link, minted>>
    BY <1>4 DEF AskRevoke, Send
  <2> HIDE DEF c
  <2> QED BY <2>1, <2>2, <2>3 DEF TabsShape
<1>5. ASSUME NEW t \in Tabs, TimeOut(t) PROVE TabsShape'
  BY <1>5 DEF TimeOut, TabsShape
<1>6. ASSUME NEW t \in Tabs, Reload(t) PROVE TabsShape'
  BY <1>6 DEF Reload, TabsShape, LinkShape
<1>7. ASSUME NEW t \in Tabs, NEW o \in Owners \cup {Nobody}, SignIn(t, o)
      PROVE  TabsShape'
  BY <1>7 DEF SignIn, TabsShape, LinkShape
<1>8. ASSUME NEW m \in wire, Serve(m) PROVE TabsShape'
  <2>1. PICK a \in Answer : wire' = (wire \ {m}) \cup {Answered(m, a)}
    BY <1>8, ServeCases
  <2>2. Answered(m, a) \in Message
    BY DEF Answered, TabsShape, Message
  <2>3. UNCHANGED <<stored, memory, user, busy, link, calls, minted>>
    BY <1>8, ServeCases
  <2> QED BY <2>1, <2>2, <2>3 DEF TabsShape
<1>9. ASSUME NEW m \in wire, Lose(m) PROVE TabsShape'
  BY <1>9 DEF Lose, TabsShape
<1>10. ASSUME NEW m \in wire, Receive(m) PROVE TabsShape'
  <2> DEFINE t == m.tab
             left == {op \in Pending(t) : op.id # m.call.op}
             shown == [share |-> m.answer.share, deck |-> m.call.deck]
  <2>1. /\ m \in Message /\ wire' = wire \ {m} /\ UNCHANGED <<user, calls, minted>>
        /\ busy' = busy \/ busy' = [busy EXCEPT ![t] = NoCall]
        /\ \/ link' = link \/ link' = [link EXCEPT ![t] = NoLink]
           \/ m.answer.result = "created" /\ link' = [link EXCEPT ![t] = shown]
        /\ \/ UNCHANGED <<stored, memory>>
           \/ stored' = left /\ memory' = [memory EXCEPT ![t] = left]
    BY <1>10, ReceiveStep
  <2>2. t \in Tabs /\ \A x \in left : IsOp(x)
    BY <2>1, PendingKeeps DEF Message
  <2>3. link' \in [Tabs -> LinkShape]
    <3>1. CASE link' = link
      BY <3>1 DEF TabsShape
    <3>2. CASE link' = [link EXCEPT ![t] = NoLink]
      BY <2>2, <3>2 DEF TabsShape, LinkShape
    <3>3. CASE m.answer.result = "created" /\ link' = [link EXCEPT ![t] = shown]
      <4>1. m.call.kind = "create" /\ MadeFor(m.call.owner, m.answer.share, m.call.deck)
        BY <1>10, <3>3 DEF LinksBack, Receive
      <4>2. shown \in LinkShape
        BY <4>1 DEF MadeFor, DocsShape, Creation, LinkShape
      <4> QED BY <2>2, <3>3, <4>2 DEF TabsShape
    <3> QED BY <2>1, <3>1, <3>2, <3>3
  <2>4. busy' \in [Tabs -> {NoCall} \cup CreateCall \cup RevokeCall]
    BY <2>1, <2>2 DEF TabsShape
  <2> HIDE DEF left
  <2> QED BY <2>1, <2>2, <2>3, <2>4 DEF TabsShape
<1>11. CASE TimeNext
  BY <1>11, TimeStep DEF tabVars, TabsShape, IsOp
<1> QED
  BY <1>1, <1>2, <1>3, <1>4, <1>5, <1>6, <1>7, <1>8, <1>9, <1>10, <1>11
     DEF DeckNext, TabNext

\* Serving a call asks for nothing that was not asked for.
LEMMA ServeAsks ==
    ASSUME DocsShape, TabsShape, NEW m \in wire, Serve(m),
           NEW id \in OpId, NEW o \in Owners, NEW at \in Nat, AskedAs(id, o, at)'
    PROVE  AskedAs(id, o, at)
<1>1. PICK a \in Answer :
         /\ wire' = (wire \ {m}) \cup {Answered(m, a)}
         /\ Replies(m, a) \/ (\E s \in Shares : Creates(m, s)) \/ RevokeReplies(m, a)
  BY ServeCases
<1>3. Answered(m, a).call = m.call
  BY DEF Answered
<1>4. \A w \in wire' : \E v \in wire : w.call = v.call
  BY <1>1, <1>3
<1>5. \A n \in made' : \/ n \in made
                       \/ m.call.kind = "create" /\ n.op = m.call.op
                          /\ n.owner = m.call.owner /\ n.asked = m.call.at
  <2>1. CASE made' = made
    BY <2>1
  <2>2. ASSUME NEW s \in Shares, Creates(m, s)
        PROVE  \A n \in made' : \/ n \in made
                                \/ m.call.kind = "create" /\ n.op = m.call.op
                                   /\ n.owner = m.call.owner /\ n.asked = m.call.at
    <3>1. made' = made \cup {[op |-> m.call.op, asked |-> m.call.at,
                              owner |-> m.call.owner, share |-> s,
                              deck |-> m.call.deck, at |-> clock]}
      BY <2>2, CreateEffect
    <3>2. m.call.kind = "create"
      BY <2>2, CallsDiffer DEF Creates
    <3> QED BY <3>1, <3>2
  <2> QED BY <1>1, <2>1, <2>2, RevokeEffect DEF Replies, RevokeReplies
<1> QED BY <1>4, <1>5 DEF AskedAs

\* No step knows an operation that was not known, but for the one it mints.
LEMMA NoNewNames ==
    ASSUME DeckInv, [DeckNext]_deckVars,
           NEW id \in OpId, NEW o \in Owners, NEW at \in Nat, KnownAs(id, o, at)'
    PROVE  \/ KnownAs(id, o, at)
           \/ \E t \in Tabs, d \in Decks :
                 /\ AskShare(t, d)
                 /\ id = minted + 1 /\ minted' = minted + 1
                 /\ o = user[t] /\ at = clock
<1> DocsShape /\ TabsShape /\ OneName /\ StillPending
  BY DEF DeckInv
<1>1. CASE UNCHANGED <<stored, memory, wire, made>>
  BY <1>1 DEF KnownAs, AskedAs, KeptAs
<1>2. ASSUME NEW t \in Tabs, NEW d \in Decks, AskShare(t, d)
      PROVE  \/ KnownAs(id, o, at)
             \/ /\ id = minted + 1 /\ minted' = minted + 1
                /\ o = user[t] /\ at = clock
  <2> DEFINE op == AskedOp(t, d)
             c == AskedCall(t, d)
             msg == [call |-> c, tab |-> t, answer |-> NoDoc]
  <2>1. /\ op.owner = user[t]
        /\ \/ op \in Pending(t)
           \/ op.id = minted + 1 /\ op.at = clock /\ minted' = minted + 1
    BY <1>2, AskedOpIs
  <2>2. op \in Pending(t) => KnownAs(op.id, op.owner, op.at)
    BY PendingKeeps DEF KnownAs, KeptAs
  <2>3. \A x \in KeptOps(t, d) : x = op \/ KnownAs(x.id, x.owner, x.at)
    BY <1>2, KeptOpsAre, PendingKeeps DEF KnownAs, KeptAs
  <2>4. msg.call = c /\ c.op = op.id /\ c.owner = user[t] /\ c.at = op.at
    BY DEF AskedCall
  <2>5. /\ stored' = KeptOps(t, d) /\ memory' = [memory EXCEPT ![t] = KeptOps(t, d)]
        /\ wire' = wire \cup {msg} /\ made' = made
    BY <1>2, AskStep
  <2> HIDE DEF op, c, msg
  <2>6. AskedAs(id, o, at)' => \/ AskedAs(id, o, at)
                               \/ id = op.id /\ o = op.owner /\ at = op.at
    BY <2>1, <2>4, <2>5 DEF AskedAs
  <2>7. KeptAs(id, o, at)' => \/ KnownAs(id, o, at)
                              \/ id = op.id /\ o = op.owner /\ at = op.at
    <3>1. ASSUME NEW x \in stored', x.id = id, x.owner = o, x.at = at
          PROVE  KnownAs(id, o, at) \/ (id = op.id /\ o = op.owner /\ at = op.at)
      BY <2>3, <2>5, <3>1
    <3>2. ASSUME NEW u \in Tabs, NEW x \in memory'[u], x.id = id, x.owner = o, x.at = at
          PROVE  KnownAs(id, o, at) \/ (id = op.id /\ o = op.owner /\ at = op.at)
      <4>1. CASE u = t
        BY <2>3, <2>5, <3>2, <4>1 DEF TabsShape
      <4>2. CASE u # t
        <5>1. x \in memory[u]
          BY <2>5, <3>2, <4>2 DEF TabsShape
        <5> QED BY <3>2, <5>1 DEF KnownAs, KeptAs
      <4> QED BY <4>1, <4>2
    <3> QED BY <3>1, <3>2 DEF KeptAs
  <2> QED BY <2>1, <2>2, <2>6, <2>7 DEF KnownAs
<1>3. ASSUME NEW t \in Tabs, NEW d \in Decks, AskRefused(t, d)
      PROVE  KnownAs(id, o, at)
  <2>1. Normalized(stored) \subseteq stored /\ Pending(t) \subseteq stored \cup memory[t]
    BY PendingKeeps DEF Normalized
  <2>2. /\ stored' = Normalized(stored) /\ memory' = [memory EXCEPT ![t] = Pending(t)]
        /\ wire' = wire /\ made' = made
    BY <1>3 DEF AskRefused
  <2>3. \A u \in Tabs : memory'[u] \subseteq stored \cup memory[t] \cup memory[u]
    BY <2>1, <2>2 DEF TabsShape
  <2> QED BY <2>1, <2>2, <2>3 DEF KnownAs, AskedAs, KeptAs
<1>4. ASSUME NEW t \in Tabs, AskRevoke(t)
      PROVE  KnownAs(id, o, at)
  <2>1. PICK c : c.kind = "revoke" /\ wire' = wire \cup {[call |-> c, tab |-> t, answer |-> NoDoc]}
    BY <1>4 DEF AskRevoke, Send
  <2>2. UNCHANGED <<stored, memory, made>>
    BY <1>4 DEF AskRevoke
  <2> QED BY <2>1, <2>2 DEF KnownAs, AskedAs, KeptAs
<1>5. ASSUME NEW t \in Tabs, TimeOut(t) PROVE KnownAs(id, o, at)
  BY <1>5, <1>1 DEF TimeOut, KnownAs, AskedAs, KeptAs
<1>6. ASSUME NEW t \in Tabs, Reload(t) PROVE KnownAs(id, o, at)
  <2>1. /\ memory' = [memory EXCEPT ![t] = {}] /\ UNCHANGED <<stored, wire, made>>
    BY <1>6 DEF Reload
  <2>2. \A u \in Tabs : memory'[u] \subseteq memory[u]
    BY <2>1 DEF TabsShape
  <2> QED BY <2>1, <2>2 DEF KnownAs, AskedAs, KeptAs
<1>7. ASSUME NEW t \in Tabs, NEW p \in Owners \cup {Nobody}, SignIn(t, p)
      PROVE  KnownAs(id, o, at)
  BY <1>7 DEF SignIn, KnownAs, AskedAs, KeptAs
<1>8. ASSUME NEW m \in wire, Serve(m) PROVE KnownAs(id, o, at)
  BY <1>8, ServeCases, ServeAsks DEF KnownAs, KeptAs
<1>9. ASSUME NEW m \in wire, Lose(m) PROVE KnownAs(id, o, at)
  BY <1>9 DEF Lose, KnownAs, AskedAs, KeptAs
<1>10. ASSUME NEW m \in wire, Receive(m) PROVE KnownAs(id, o, at)
  <2> DEFINE t == m.tab
             left == {op \in Pending(t) : op.id # m.call.op}
  <2>1. /\ t \in Tabs /\ wire' = wire \ {m} /\ made' = made
        /\ \/ UNCHANGED <<stored, memory>>
           \/ stored' = left /\ memory' = [memory EXCEPT ![t] = left]
    BY <1>10, ReceiveStep DEF Message
  <2>2. left \subseteq stored \cup memory[t]
    BY <2>1, PendingKeeps
  <2> HIDE DEF left
  <2>3. /\ stored' \subseteq stored \cup memory[t]
        /\ \A u \in Tabs : memory'[u] \subseteq stored \cup memory[t] \cup memory[u]
    BY <2>1, <2>2 DEF TabsShape
  <2> QED BY <2>1, <2>3 DEF KnownAs, AskedAs, KeptAs
<1>11. CASE TimeNext
  BY <1>1, <1>11, TimeStep DEF tabVars
<1>12. CASE UNCHANGED deckVars
  BY <1>1, <1>12 DEF deckVars, tabVars
<1> QED
  BY <1>2, <1>3, <1>4, <1>5, <1>6, <1>7, <1>8, <1>9, <1>10, <1>11, <1>12
     DEF DeckNext, TabNext

\* Only one tab asks in a step.
LEMMA OneAsks ==
    ASSUME TabsShape, NEW t \in Tabs, NEW d \in Decks, AskShare(t, d),
           NEW u \in Tabs, NEW e \in Decks, AskShare(u, e)
    PROVE  t = u
<1>1. /\ busy' = [busy EXCEPT ![t] = AskedCall(t, d)] /\ busy[t] = NoCall
      /\ busy' = [busy EXCEPT ![u] = AskedCall(u, e)]
  BY AskStep
<1>2. AskedCall(t, d).kind = "create"
  BY DEF AskedCall
<1>3. AskedCall(t, d) # NoCall
  BY <1>2 DEF NoCall
<1> HIDE DEF AskedCall
<1>4. busy'[t] = AskedCall(t, d) /\ (t # u => busy'[t] = NoCall)
  BY <1>1 DEF TabsShape
<1> QED BY <1>3, <1>4

\* The counters of operations and of time only rise.
LEMMA CountersRise ==
    ASSUME DeckInv, [DeckNext]_deckVars
    PROVE  clock' >= clock /\ minted' >= minted
<1> DocsShape /\ TabsShape /\ StillPending
  BY DEF DeckInv
<1> clock \in Nat /\ minted \in Nat
  BY BoundAssumption DEF DocsShape, TabsShape
<1>1. clock' >= clock
  BY StepCases, RevokeEffect DEF Tick, TtlPublic, TtlPrivate, TtlReceipt
<1>2. CASE minted' = minted
  BY <1>1, <1>2
<1>3. ASSUME NEW t \in Tabs, NEW d \in Decks, AskShare(t, d) PROVE minted' >= minted
  BY <1>3, AskStep
<1>4. ASSUME NEW t \in Tabs, NEW d \in Decks, AskRefused(t, d) PROVE minted' = minted
  BY <1>4 DEF AskRefused
<1>5. ASSUME NEW t \in Tabs, AskRevoke(t) \/ TimeOut(t) \/ Reload(t) PROVE minted' = minted
  BY <1>5 DEF AskRevoke, TimeOut, Reload
<1>6. ASSUME NEW t \in Tabs, NEW o \in Owners \cup {Nobody}, SignIn(t, o)
      PROVE  minted' = minted
  BY <1>6 DEF SignIn
<1>7. ASSUME NEW m \in wire, Serve(m) \/ Lose(m) \/ Receive(m) PROVE minted' = minted
  BY <1>7 DEF Serve, Lose, Receive
<1>8. CASE TimeNext
  BY <1>8, TimeStep DEF tabVars
<1>9. CASE UNCHANGED deckVars
  BY <1>9 DEF deckVars, tabVars
<1> QED
  BY <1>1, <1>2, <1>3, <1>4, <1>5, <1>6, <1>7, <1>8, <1>9 DEF DeckNext, TabNext

\* A newly minted operation is unknown before, and only one is minted in a step.
LEMMA NamesKept ==
    ASSUME DeckInv, [DeckNext]_deckVars
    PROVE  OneName'
<1> SUFFICES ASSUME NEW id \in OpId, NEW o \in Owners, NEW p \in Owners,
                    NEW at \in Nat, NEW bt \in Nat, KnownAs(id, o, at)'
             PROVE  /\ id <= minted' /\ at <= clock'
                    /\ KnownAs(id, p, bt)' => o = p /\ at = bt
  BY DEF OneName
<1> DocsShape /\ TabsShape /\ OneName
  BY DEF DeckInv
<1>1. clock \in Nat /\ minted \in Nat /\ clock' \in Nat /\ minted' \in Nat
      /\ clock' >= clock /\ minted' >= minted
  BY CountersRise, DocsKept, TabsKept, BoundAssumption DEF DocsShape, TabsShape
<1>2. CASE KnownAs(id, o, at)
  <2>1. id <= minted /\ at <= clock /\ (KnownAs(id, p, bt) => o = p /\ at = bt)
    BY <1>2 DEF OneName
  <2>2. id # minted + 1
    BY <1>1, <2>1 DEF OpId
  <2>3. KnownAs(id, p, bt)' => KnownAs(id, p, bt)
    BY <2>2, NoNewNames
  <2> QED BY <1>1, <2>1, <2>3 DEF OpId
<1>3. CASE ~KnownAs(id, o, at)
  <2>1. PICK t \in Tabs, d \in Decks :
           /\ AskShare(t, d) /\ id = minted + 1 /\ minted' = minted + 1
           /\ o = user[t] /\ at = clock
    BY <1>3, NoNewNames
  <2>2. ASSUME KnownAs(id, p, bt)' PROVE o = p /\ at = bt
    <3>1. ~KnownAs(id, p, bt)
      BY <1>1, <2>1 DEF OneName
    <3>2. PICK u \in Tabs, e \in Decks : AskShare(u, e) /\ p = user[u] /\ bt = clock
      BY <2>2, <3>1, NoNewNames
    <3> QED BY <2>1, <3>2, OneAsks
  <2> QED BY <1>1, <2>1, <2>2
<1> QED BY <1>2, <1>3

\* What was asked for, unanswered, in time is stored and not too old.
LEMMA StoredUsable ==
    ASSUME DeckInv, NEW id \in OpId, NEW o \in Owners, NEW at \in Nat,
           AskedAs(id, o, at), id \notin acked, clock - at < PendingAge
    PROVE  \E x \in stored : x.id = id /\ Usable(x)
<1> DocsShape /\ TabsShape /\ OneName /\ StillPending
  BY DEF DeckInv
<1>1. PICK x \in stored : x.id = id
  BY DEF StillPending
<1>2. IsOp(x) /\ KnownAs(id, x.owner, x.at) /\ KnownAs(id, o, at)
  BY <1>1 DEF TabsShape, KnownAs, KeptAs
<1>3. x.at = at /\ at <= clock
  BY <1>2 DEF OneName, IsOp
<1> QED BY <1>1, <1>3 DEF Usable

\* What is young enough later was young enough before.
LEMMA YoungerBefore ==
    ASSUME NEW c \in Int, NEW d \in Int, NEW at \in Nat, NEW age \in Int,
           d >= c, d - at < age
    PROVE  c - at < age
OBVIOUS

\* An operation leaves the device when it is too old or a tab saw its answer,
\* and then it is not awaited any more.
LEMMA PendingKept ==
    ASSUME DeckInv, [DeckNext]_deckVars
    PROVE  StillPending'
<1> DocsShape /\ TabsShape /\ OneName /\ StillPending
  BY DEF DeckInv
<1> DEFINE Keys == OneByKey(stored) /\ \A t \in Tabs : OneByKey(memory[t])
           Awaits(id, o, at) == AskedAs(id, o, at) /\ id \notin acked /\ clock - at < PendingAge
           Stores(id) == \E x \in stored : x.id = id
           Waits == \A id \in OpId, o \in Owners, at \in Nat : Awaits(id, o, at) => Stores(id)
<1>0. Keys /\ (Keys' /\ Waits' => StillPending')
  BY DEF StillPending
<1>a. ASSUME UNCHANGED <<stored, memory, acked>>, clock' \in Nat /\ clock' >= clock,
             \A id \in OpId, o \in Owners, at \in Nat : AskedAs(id, o, at)' => AskedAs(id, o, at)
      PROVE  StillPending'
  <2>1. Keys'
    BY <1>0, <1>a DEF OneByKey
  <2>2. ASSUME NEW id \in OpId, NEW o \in Owners, NEW at \in Nat, Awaits(id, o, at)'
        PROVE  Stores(id)'
    <3>1. AskedAs(id, o, at)' /\ id \notin acked'
      BY <2>2
    <3>2. AskedAs(id, o, at) /\ id \notin acked
      BY <1>a, <3>1
    <3>3. clock - at < Lifetime
      <4>1. clock \in Int /\ clock' \in Int /\ clock' >= clock /\ Lifetime \in Int
        BY <1>a, TimeAssumption DEF DocsShape
      <4>2. clock' - at < Lifetime
        BY <2>2 DEF PendingAge
      <4> QED BY <4>1, <4>2, YoungerBefore
    <3>4. \E x \in stored : x.id = id
      BY <3>2, <3>3, StoredUsable DEF PendingAge
    <3> QED BY <1>a, <3>4
  <2> QED BY <1>0, <2>1, <2>2
<1>b. ASSUME UNCHANGED <<wire, made>>
      PROVE  \A id \in OpId, o \in Owners, at \in Nat : AskedAs(id, o, at)' => AskedAs(id, o, at)
  BY <1>b DEF AskedAs
<1>1. CASE UNCHANGED deckVars
  BY <1>a, <1>b, <1>1 DEF deckVars, tabVars, DocsShape
<1>2. ASSUME NEW t \in Tabs, NEW d \in Decks, AskShare(t, d)
      PROVE  StillPending'
  <2> DEFINE op == AskedOp(t, d)
             c == AskedCall(t, d)
             msg == [call |-> c, tab |-> t, answer |-> NoDoc]
  <2>1. /\ IsOp(op) /\ op.owner = user[t]
        /\ op \in Pending(t) \/ op.at = clock
    BY <1>2, AskedOpIs
  <2>2. /\ OneByKey(KeptOps(t, d))
        /\ Usable(op) => op \in KeptOps(t, d)
        /\ \A x \in stored : Usable(x) => \E y \in KeptOps(t, d) : y.id = x.id
    BY <1>2, KeptOpsAre
  <2>3. /\ stored' = KeptOps(t, d) /\ memory' = [memory EXCEPT ![t] = KeptOps(t, d)]
        /\ wire' = wire \cup {msg} /\ UNCHANGED <<clock, acked, made>>
    BY <1>2, AskStep
  <2>4. msg.call = c /\ c.op = op.id /\ c.at = op.at
    BY DEF AskedCall
  <2>5. op.at <= clock
    <3>1. op \in Pending(t) => KnownAs(op.id, op.owner, op.at)
      BY PendingKeeps DEF KnownAs, KeptAs
    <3> QED BY <2>1, <3>1 DEF OneName, IsOp, DocsShape
  <2> HIDE DEF op, c, msg
  <2>6. Keys'
    BY <1>0, <2>2, <2>3 DEF TabsShape, OneByKey
  <2>7. ASSUME NEW id \in OpId, NEW o \in Owners, NEW at \in Nat, Awaits(id, o, at)'
        PROVE  Stores(id)'
    <3>1. id \notin acked /\ clock - at < PendingAge
      BY <2>3, <2>7
    <3>2. AskedAs(id, o, at) \/ (id = op.id /\ at = op.at)
      BY <2>3, <2>4, <2>7 DEF AskedAs
    <3>3. CASE AskedAs(id, o, at)
      BY <2>2, <2>3, <3>1, <3>3, StoredUsable
    <3>4. CASE id = op.id /\ at = op.at
      BY <2>2, <2>3, <2>5, <3>1, <3>4 DEF Usable
    <3> QED BY <3>2, <3>3, <3>4
  <2> QED BY <1>0, <2>6, <2>7
<1>3. ASSUME NEW t \in Tabs, NEW d \in Decks, AskRefused(t, d)
      PROVE  StillPending'
  <2>1. /\ stored' = Normalized(stored) /\ memory' = [memory EXCEPT ![t] = Pending(t)]
        /\ UNCHANGED <<clock, wire, made, acked>>
    BY <1>3 DEF AskRefused
  <2>2. OneByKey(Pending(t))
    BY PendingKeeps
  <2>3. OneByKey(Normalized(stored)) /\ \A x \in stored : Usable(x) => x \in Normalized(stored)
    BY <1>0, NormalizedKeeps DEF TabsShape
  <2>4. Keys'
    BY <1>0, <2>1, <2>2, <2>3 DEF TabsShape, OneByKey
  <2>5. ASSUME NEW id \in OpId, NEW o \in Owners, NEW at \in Nat, Awaits(id, o, at)'
        PROVE  Stores(id)'
    <3>1. AskedAs(id, o, at) /\ id \notin acked /\ clock - at < PendingAge
      BY <1>b, <2>1, <2>5
    <3> QED BY <2>1, <2>3, <3>1, StoredUsable
  <2> QED BY <1>0, <2>4, <2>5
<1>4. ASSUME NEW t \in Tabs, AskRevoke(t)
      PROVE  StillPending'
  <2>1. PICK c : c.kind = "revoke" /\ wire' = wire \cup {[call |-> c, tab |-> t, answer |-> NoDoc]}
    BY <1>4 DEF AskRevoke, Send
  <2>2. UNCHANGED <<clock, stored, memory, made, acked>>
    BY <1>4 DEF AskRevoke
  <2>3. \A id \in OpId, o \in Owners, at \in Nat : AskedAs(id, o, at)' => AskedAs(id, o, at)
    BY <2>1, <2>2 DEF AskedAs
  <2> QED BY <1>a, <2>2, <2>3 DEF DocsShape
<1>5. ASSUME NEW t \in Tabs, TimeOut(t) PROVE StillPending'
  BY <1>a, <1>b, <1>5 DEF TimeOut, DocsShape
<1>6. ASSUME NEW t \in Tabs, Reload(t) PROVE StillPending'
  <2>1. /\ memory' = [memory EXCEPT ![t] = {}] /\ UNCHANGED <<clock, stored, wire, made, acked>>
    BY <1>6 DEF Reload
  <2>2. Keys'
    BY <1>0, <2>1 DEF TabsShape, OneByKey
  <2>3. Waits'
    BY <1>b, <2>1, StoredUsable
  <2> QED BY <1>0, <2>2, <2>3
<1>7. ASSUME NEW t \in Tabs, NEW p \in Owners \cup {Nobody}, SignIn(t, p)
      PROVE  StillPending'
  BY <1>a, <1>b, <1>7 DEF SignIn, DocsShape
<1>8. ASSUME NEW m \in wire, Serve(m) PROVE StillPending'
  <2>1. UNCHANGED <<clock, stored, memory, acked>>
    BY <1>8, ServeCases
  <2> QED BY <1>a, <1>8, <2>1, ServeAsks DEF DocsShape
<1>9. ASSUME NEW m \in wire, Lose(m) PROVE StillPending'
  <2>1. wire' = wire \ {m} /\ UNCHANGED <<clock, stored, memory, made, acked>>
    BY <1>9 DEF Lose
  <2>2. \A id \in OpId, o \in Owners, at \in Nat : AskedAs(id, o, at)' => AskedAs(id, o, at)
    BY <2>1 DEF AskedAs
  <2> QED BY <1>a, <2>1, <2>2 DEF DocsShape
<1>10. ASSUME NEW m \in wire, Receive(m) PROVE StillPending'
  <2> DEFINE t == m.tab
             left == {op \in Pending(t) : op.id # m.call.op}
  <2>1. /\ t \in Tabs /\ wire' = wire \ {m} /\ UNCHANGED <<clock, made>>
        /\ \/ UNCHANGED <<stored, memory>> /\ acked \subseteq acked'
           \/ /\ acked' = acked \cup {m.call.op}
              /\ stored' = left /\ memory' = [memory EXCEPT ![t] = left]
    BY <1>10, ReceiveStep DEF Message
  <2>2. OneByKey(left) /\ \A x \in stored : Usable(x) /\ x.id # m.call.op => x \in left
    BY <2>1, PendingKeeps DEF OneByKey
  <2>3. \A id \in OpId, o \in Owners, at \in Nat : AskedAs(id, o, at)' => AskedAs(id, o, at)
    BY <2>1 DEF AskedAs
  <2> HIDE DEF left
  <2>4. Keys'
    BY <1>0, <2>1, <2>2 DEF TabsShape, OneByKey
  <2>5. ASSUME NEW id \in OpId, NEW o \in Owners, NEW at \in Nat, Awaits(id, o, at)'
        PROVE  Stores(id)'
    <3>1. AskedAs(id, o, at) /\ id \notin acked /\ clock - at < PendingAge
      BY <2>1, <2>3, <2>5
    <3>2. PICK x \in stored : x.id = id /\ Usable(x)
      BY <3>1, StoredUsable
    <3> QED BY <2>1, <2>2, <2>5, <3>2
  <2> QED BY <1>0, <2>4, <2>5
<1>11. CASE TimeNext
  BY <1>a, <1>b, <1>11, TimeStep DEF tabVars
<1> QED
  BY <1>1, <1>2, <1>3, <1>4, <1>5, <1>6, <1>7, <1>8, <1>9, <1>10, <1>11
     DEF DeckNext, TabNext

\* Links go on being of shares made for the tab's owner: a tab takes a link
\* only from the answer of the call it awaits, and signing in forgets both.
LEMMA LinksKept ==
    ASSUME DeckInv, [DeckNext]_deckVars
    PROVE  LinksBack'
<1> DocsShape /\ TabsShape /\ StillPending /\ LinksBack
  BY DEF DeckInv
<1> DEFINE Truthful == \A w \in wire : w.answer # NoDoc /\ w.answer.result = "created" =>
                 w.call.kind = "create"
                 /\ MadeFor(w.call.owner, w.answer.share, w.call.deck)
           Own == \A t \in Tabs : busy[t] # NoCall => busy[t].owner = user[t]
           Shows == \A t \in Tabs : link[t] # NoLink =>
                 user[t] \in Owners /\ MadeFor(user[t], link[t].share, link[t].deck)
<1>0. Truthful /\ Own /\ Shows /\ (Truthful' /\ Own' /\ Shows' => LinksBack')
  BY DEF LinksBack
<1>1. CASE UNCHANGED <<wire, made, busy, user, link>>
  BY <1>0, <1>1 DEF MadeFor
<1>2. ASSUME NEW t \in Tabs, NEW c, busy' = [busy EXCEPT ![t] = c], c.owner = user[t],
             wire' = wire \cup {[call |-> c, tab |-> t, answer |-> NoDoc]},
             UNCHANGED <<made, user, link>>
      PROVE  LinksBack'
  <2>1. Truthful'
    BY <1>0, <1>2 DEF MadeFor
  <2>2. Own'
    BY <1>0, <1>2 DEF TabsShape
  <2>3. Shows'
    BY <1>0, <1>2 DEF MadeFor
  <2> QED BY <1>0, <2>1, <2>2, <2>3
<1>3. ASSUME NEW t \in Tabs, NEW d \in Decks, AskShare(t, d) PROVE LinksBack'
  <2>1. AskedCall(t, d).owner = user[t]
    BY DEF AskedCall
  <2> QED BY <1>2, <1>3, <2>1, AskStep
<1>4. ASSUME NEW t \in Tabs, NEW d \in Decks, AskRefused(t, d) PROVE LinksBack'
  BY <1>1, <1>4 DEF AskRefused
<1>5. ASSUME NEW t \in Tabs, AskRevoke(t) PROVE LinksBack'
  <2> DEFINE c == [kind |-> "revoke", n |-> calls, owner |-> user[t],
                   share |-> link[t].share]
  <2>1. c.owner = user[t]
    OBVIOUS
  <2>2. /\ busy' = [busy EXCEPT ![t] = c] /\ UNCHANGED <<made, user, link>>
        /\ wire' = wire \cup {[call |-> c, tab |-> t, answer |-> NoDoc]}
    BY <1>5 DEF AskRevoke, Send
  <2> HIDE DEF c
  <2> QED BY <1>2, <2>1, <2>2
<1>6. ASSUME NEW t \in Tabs, TimeOut(t) PROVE LinksBack'
  <2>1. busy' = [busy EXCEPT ![t] = NoCall] /\ UNCHANGED <<wire, made, user, link>>
    BY <1>6 DEF TimeOut
  <2> QED BY <1>0, <2>1 DEF MadeFor, TabsShape
<1>7. ASSUME NEW t \in Tabs, Reload(t) PROVE LinksBack'
  <2>1. /\ busy' = [busy EXCEPT ![t] = NoCall] /\ link' = [link EXCEPT ![t] = NoLink]
        /\ UNCHANGED <<wire, made, user>>
    BY <1>7 DEF Reload
  <2> QED BY <1>0, <2>1 DEF MadeFor, TabsShape
<1>8. ASSUME NEW t \in Tabs, NEW o \in Owners \cup {Nobody}, SignIn(t, o)
      PROVE  LinksBack'
  <2>1. /\ busy' = [busy EXCEPT ![t] = NoCall] /\ link' = [link EXCEPT ![t] = NoLink]
        /\ user' = [user EXCEPT ![t] = o] /\ UNCHANGED <<wire, made>>
    BY <1>8 DEF SignIn
  <2> QED BY <1>0, <2>1 DEF MadeFor, TabsShape
<1>9. ASSUME NEW m \in wire, Serve(m) PROVE LinksBack'
  <2>1. PICK a \in Answer :
           /\ wire' = (wire \ {m}) \cup {Answered(m, a)}
           /\ Replies(m, a) \/ (\E s \in Shares : Creates(m, s)) \/ RevokeReplies(m, a)
    BY <1>9, ServeCases
  <2>2. UNCHANGED <<busy, user, link>>
    BY <1>9, ServeCases
  <2>3. made \subseteq made'
    BY <2>1, CreateEffect, RevokeEffect DEF Replies, RevokeReplies
  <2>4. \A o, s, d : MadeFor(o, s, d) => MadeFor(o, s, d)'
    BY <2>3 DEF MadeFor
  <2>5. a.result = "created" =>
           m.call.kind = "create" /\ MadeFor(m.call.owner, a.share, m.call.deck)'
    <3>1. CASE Replies(m, a)
      <4>1. m.call \in CreateCall /\ m.call.owner \in Owners /\ m.call.op \in OpId
        BY <3>1 DEF Replies, CreateCall
      <4>2. a.result = "created" => MadeFor(m.call.owner, a.share, m.call.deck)
        BY <3>1, <4>1 DEF Replies, DeckInv, ReceiptsBack, MadeFor
      <4> QED BY <2>4, <4>1, <4>2, CallsDiffer
    <3>2. ASSUME NEW s \in Shares, Creates(m, s)
          PROVE  a.result = "created" =>
                    m.call.kind = "create" /\ MadeFor(m.call.owner, a.share, m.call.deck)'
      <4>1. m.call.kind = "create"
        BY <3>2, CallsDiffer DEF Creates
      <4>2. MadeFor(m.call.owner, s, m.call.deck)'
        <5> DEFINE new == [op |-> m.call.op, asked |-> m.call.at, owner |-> m.call.owner,
                           share |-> s, deck |-> m.call.deck, at |-> clock]
        <5>1. made' = made \cup {new}
          BY <3>2, CreateEffect
        <5>2. new.owner = m.call.owner /\ new.share = s /\ new.deck = m.call.deck
          OBVIOUS
        <5> HIDE DEF new
        <5>3. \E n \in made' : n.owner = m.call.owner /\ n.share = s /\ n.deck = m.call.deck
          BY <5>1, <5>2
        <5> QED BY <5>3 DEF MadeFor
      <4>3. CASE Answered(m, a) \in wire
        <5>1. Answered(m, a).call = m.call /\ Answered(m, a).answer = a
          BY DEF Answered
        <5>2. a # NoDoc
          BY DEF Answer, NoDoc
        <5>3. a.result = "created" => MadeFor(m.call.owner, a.share, m.call.deck)
          BY <1>0, <4>3, <5>1, <5>2
        <5> QED BY <2>4, <4>1, <5>3
      <4>4. CASE Answered(m, a) \notin wire
        <5>1. wire' = (wire \ {m}) \cup {Answered(m, [result |-> "created", share |-> s])}
          BY <3>2 DEF Creates
        <5>2. Answered(m, a) = Answered(m, [result |-> "created", share |-> s])
          BY <2>1, <4>4, <5>1
        <5>3. a = [result |-> "created", share |-> s]
          BY <5>2 DEF Answered
        <5> QED BY <4>1, <4>2, <5>3
      <4> QED BY <4>3, <4>4
    <3>3. CASE RevokeReplies(m, a)
      BY <3>3 DEF RevokeReplies
    <3> QED BY <2>1, <3>1, <3>2, <3>3
  <2>6. Answered(m, a).call = m.call /\ Answered(m, a).answer = a
    BY DEF Answered
  <2>7. Truthful'
    BY <1>0, <2>1, <2>4, <2>5, <2>6
  <2>8. Own' /\ Shows'
    BY <1>0, <2>2, <2>4
  <2> QED BY <1>0, <2>7, <2>8
<1>10. ASSUME NEW m \in wire, Lose(m) PROVE LinksBack'
  <2>1. wire' = wire \ {m} /\ UNCHANGED <<busy, user, link, made>>
    BY <1>10 DEF Lose
  <2> QED BY <1>0, <2>1 DEF MadeFor
<1>11. ASSUME NEW m \in wire, Receive(m) PROVE LinksBack'
  <2> DEFINE t == m.tab
             c == m.call
             shown == [share |-> m.answer.share, deck |-> c.deck]
  <2>1. /\ m \in Message /\ wire' = wire \ {m} /\ UNCHANGED <<user, made>>
        /\ \/ UNCHANGED <<busy, link>>
           \/ /\ busy[t] = c /\ busy' = [busy EXCEPT ![t] = NoCall]
              /\ \/ link' = link
                 \/ link' = [link EXCEPT ![t] = NoLink]
                 \/ m.answer.result = "created" /\ link' = [link EXCEPT ![t] = shown]
    BY <1>11, ReceiveStep
  <2>2. t \in Tabs /\ c \in CreateCall \cup RevokeCall /\ m.answer # NoDoc
    BY <1>11, <2>1 DEF Message, Receive
  <2>3. Truthful' /\ Own'
    BY <1>0, <2>1, <2>2 DEF MadeFor, TabsShape
  <2>4. Shows'
    <3>1. CASE link' = link
      BY <1>0, <2>1, <3>1 DEF MadeFor
    <3>2. CASE link' = [link EXCEPT ![t] = NoLink]
      BY <1>0, <2>1, <3>2 DEF MadeFor, TabsShape
    <3>3. CASE /\ busy[t] = c /\ m.answer.result = "created"
               /\ link' = [link EXCEPT ![t] = shown]
      <4>1. c.owner = user[t] /\ c.owner \in Owners
        BY <1>0, <2>2, <3>3, CallsDiffer DEF CreateCall, RevokeCall
      <4>2. MadeFor(user[t], shown.share, shown.deck)
        BY <1>0, <2>2, <3>3, <4>1
      <4> HIDE DEF shown
      <4> QED BY <1>0, <2>1, <2>2, <3>3, <4>1, <4>2 DEF MadeFor, TabsShape
    <3> QED BY <2>1, <3>1, <3>2, <3>3
  <2> QED BY <1>0, <2>3, <2>4
<1>12. CASE TimeNext
  BY <1>1, <1>12, TimeStep DEF tabVars
<1>13. CASE UNCHANGED deckVars
  BY <1>1, <1>13 DEF deckVars, tabVars
<1> QED
  BY <1>3, <1>4, <1>5, <1>6, <1>7, <1>8, <1>9, <1>10, <1>11, <1>12, <1>13
     DEF DeckNext, TabNext

-----------------------------------------------------------------------------
(* The invariant, and what follows from it.                                *)

\* The invariant holds before anything was asked for.
LEMMA InvInit == DeckInit => DeckInv
<1> SUFFICES ASSUME DeckInit PROVE DeckInv
  OBVIOUS
<1>1. /\ clock = 0 /\ stored = {} /\ wire = {} /\ minted = 0 /\ made = {} /\ calls = 0
      /\ memory = [t \in Tabs |-> {}] /\ busy = [t \in Tabs |-> NoCall]
      /\ link = [t \in Tabs |-> NoLink]
      /\ receipts = [o \in Owners |-> [op \in OpId |-> NoDoc]]
      /\ public = [s \in Shares |-> NoDoc] /\ private = [s \in Shares |-> NoDoc]
      /\ user \in [Tabs -> Owners]
  BY DEF DeckInit, CallersInit, OpId
<1>2. DocsShape
  BY <1>1 DEF DocsShape
<1>3. TabsShape
  BY <1>1, BoundAssumption DEF TabsShape, LinkShape
<1>4. ReceiptsBack /\ SharesBack /\ OneSharePerOperation
  BY <1>1 DEF ReceiptsBack, SharesBack, OneSharePerOperation
<1>5. OneName
  BY <1>1 DEF OneName, KnownAs, AskedAs, KeptAs
<1>6. StillPending
  BY <1>1 DEF StillPending, AskedAs, OneByKey
<1>7. LinksBack
  BY <1>1 DEF LinksBack
<1> QED BY <1>2, <1>3, <1>4, <1>5, <1>6, <1>7 DEF DeckInv

\* Every step keeps the invariant.
LEMMA InvNext == DeckInv /\ [DeckNext]_deckVars => DeckInv'
BY DocsKept, TabsKept, ReceiptsKept, OneShareKept, SharesKept, NamesKept,
   PendingKept, LinksKept DEF DeckInv

\* Every reachable state satisfies the invariant.
THEOREM InvHolds == DeckSpec => []DeckInv
<1>1. DeckInit => DeckInv
  BY InvInit
<1>2. DeckInv /\ [DeckNext]_deckVars => DeckInv'
  BY InvNext
<1> QED BY <1>1, <1>2, PTL DEF DeckSpec

\* One operation makes at most one share, however often it is sent
\* (sharedDeckPersistence.ts:326-345).
THEOREM OneShare == DeckSpec => []OneSharePerOperation
<1>1. DeckInv => OneSharePerOperation
  BY DEF DeckInv
<1> QED BY <1>1, InvHolds, PTL

\* A share whose answer no tab has seen is still known to the device by its
\* operation (sharedDeckSessionController.ts:303-351).
THEOREM NothingForgotten == DeckSpec => []UnansweredStaysPending
<1>1. DeckInv => UnansweredStaysPending
  <2> SUFFICES ASSUME DeckInv, NEW m \in made, m.op \notin acked,
                      clock - m.asked < PendingAge
               PROVE  \E op \in stored : op.id = m.op
    BY DEF UnansweredStaysPending
  <2>1. m.op \in OpId /\ m.owner \in Owners /\ m.asked \in Nat
    BY DEF DeckInv, DocsShape, Creation
  <2>2. AskedAs(m.op, m.owner, m.asked)
    BY DEF AskedAs
  <2> QED BY <2>1, <2>2 DEF DeckInv, StillPending
<1> QED BY <1>1, InvHolds, PTL

\* The link a tab shows is of its own owner's share of the deck it asked for
\* (sharedDeckSessionController.ts:275, 459-497).
THEOREM LinksBelong == DeckSpec => []LinkBelongs
<1>1. DeckInv => LinkBelongs
  <2> SUFFICES ASSUME DeckInv, NEW t \in Tabs, link[t] # NoLink
               PROVE  /\ user[t] \in Owners
                      /\ private[link[t].share] # NoDoc =>
                            private[link[t].share].owner = user[t]
                      /\ public[link[t].share] # NoDoc =>
                            public[link[t].share].deck = link[t].deck
    BY DEF LinkBelongs
  <2>1. user[t] \in Owners /\ MadeFor(user[t], link[t].share, link[t].deck)
    BY DEF DeckInv, LinksBack
  <2> QED BY <2>1 DEF DeckInv, SharesBack, MadeFor
<1> QED BY <1>1, InvHolds, PTL

-----------------------------------------------------------------------------
(* The ledgers list the active shares.                                     *)

Listed(o, s) == /\ ledger[o] # NoDoc /\ s \in DOMAIN ledger[o].shares
                /\ ledger[o].shares[s].expires > clock
Current(o, s) == /\ private[s] # NoDoc /\ private[s].version = 2
                 /\ private[s].owner = o /\ private[s].expires > clock
Agree(o, s) ==
    /\ ledger[o].shares[s] = Entry(private[s].bytes, private[s].expires)
    /\ public[s] # NoDoc /\ public[s].expires = private[s].expires
    /\ DeckBytes[public[s].deck] = private[s].bytes
\* An owner without a ledger has no share; otherwise what the ledger lists is
\* what is active, and the three documents of a share agree.
LedgersBack ==
    /\ ledger = [o \in Owners |-> ledger[o]]
    /\ \A o \in Owners : ledger[o] = NoDoc =>
          \A s \in Shares : private[s] # NoDoc => private[s].owner # o
    /\ \A o \in Owners : ledger[o] # NoDoc =>
          \A s \in DOMAIN ledger[o].shares :
              s \in Shares /\ ledger[o].shares[s].expires \in Nat
    /\ \A o \in Owners, s \in Shares : Current(o, s) <=> Listed(o, s)
    /\ \A o \in Owners, s \in Shares : Current(o, s) => Agree(o, s)

\* The entries that count are the unexpired ones.
LEMMA LedgerNowIs ==
    ASSUME NEW o
    PROVE  /\ \A s : s \in DOMAIN LedgerNow(o) <=> Listed(o, s)
           /\ \A s : Listed(o, s) => LedgerNow(o)[s] = ledger[o].shares[s]
<1>1. CASE ledger[o] = NoDoc
  <2>1. DOMAIN LedgerNow(o) = {}
    BY <1>1 DEF LedgerNow
  <2> QED BY <1>1, <2>1 DEF Listed
<1>2. CASE ledger[o] # NoDoc
  BY <1>2 DEF LedgerNow, Unexpired, Listed
<1> QED BY <1>1, <1>2

\* A new ledger lists what it is given.
LEMMA LedgerWritten ==
    ASSUME NEW f
    PROVE  Ledger(f) # NoDoc /\ Ledger(f).shares = f
BY DEF Ledger, NoDoc

\* Each transaction writes the documents of a share and its ledger entry
\* together; time and deletion take away only what no longer counts.
LEMMA LedgersKept ==
    ASSUME DocsShape, DocsShape', TabsShape, LedgersBack, [DeckNext]_deckVars
    PROVE  LedgersBack'
<1>1. CASE UNCHANGED <<clock, shareVars, made>>
  BY <1>1 DEF LedgersBack, Listed, Current, Agree, shareVars
<1>2. ASSUME clock' = clock, NEW m \in wire, NEW s \in Shares, Creates(m, s)
      PROVE  LedgersBack'
  <2> DEFINE o == m.call.owner
             d == m.call.deck
             expires == clock + Lifetime
             new == [x \in DOMAIN LedgerNow(o) \cup {s} |->
                       IF x = s THEN Entry(DeckBytes[d], expires) ELSE LedgerNow(o)[x]]
  <2>1. /\ o \in Owners /\ d \in Decks
        /\ public[s] = NoDoc /\ private[s] = NoDoc
        /\ public' = [public EXCEPT ![s] = SharePublic(d, clock, expires)]
        /\ private' = [private EXCEPT ![s] = SharePrivate(o, d, clock, expires)]
    BY <1>2, CreateEffect
  <2>2. ledger' = [ledger EXCEPT ![o] = Ledger(new)]
    BY <1>2 DEF Creates, CreateShareDoc
  <2>3. clock \in Nat /\ expires \in Nat /\ expires > clock
    BY TimeAssumption DEF DocsShape
  <2>4. ledger'[o] # NoDoc /\ ledger'[o].shares = new
    BY <2>1, <2>2, LedgerWritten DEF LedgersBack
  <2>5. \A x : Listed(o, x)' <=> x = s \/ Listed(o, x)
    <3>1. new[s].expires = expires
      BY DEF Entry
    <3>2. \A x : x \in DOMAIN new <=> x = s \/ Listed(o, x)
      BY LedgerNowIs
    <3>3. \A x : x # s /\ Listed(o, x) => new[x] = ledger[o].shares[x]
      BY LedgerNowIs
    <3> HIDE DEF new, expires
    <3> QED BY <1>2, <2>3, <2>4, <3>1, <3>2, <3>3 DEF Listed
  <2>6. \A p \in Owners, x \in Shares : p # o => (Listed(p, x)' <=> Listed(p, x))
    BY <1>2, <2>1, <2>2 DEF Listed, LedgersBack
  <2>7. \A x \in Shares : x # s => public'[x] = public[x] /\ private'[x] = private[x]
    BY <2>1 DEF DocsShape
  <2>8. /\ private'[s] # NoDoc /\ private'[s].version = 2 /\ private'[s].owner = o
        /\ private'[s].expires = expires /\ private'[s].bytes = DeckBytes[d]
        /\ public'[s] # NoDoc /\ public'[s].expires = expires /\ public'[s].deck = d
    <3>1. private'[s] = SharePrivate(o, d, clock, expires)
          /\ public'[s] = SharePublic(d, clock, expires)
      BY <2>1 DEF DocsShape
    <3> QED BY <3>1 DEF SharePrivate, PrivateDoc, SharePublic, PublicDoc, NoDoc
  <2>9. new[s] = Entry(DeckBytes[d], expires)
        /\ \A x : x # s /\ Listed(o, x) => new[x] = ledger[o].shares[x]
    BY LedgerNowIs
  <2>10. \A x \in DOMAIN new : x = s \/ Listed(o, x)
    BY LedgerNowIs
  <2> HIDE DEF new, expires, o, d
  <2>11. \A p \in Owners : p # o => ledger'[p] = ledger[p]
    BY <2>1, <2>2 DEF LedgersBack
  <2>12. \A p \in Owners, x \in Shares :
            Current(p, x)' <=> (p = o /\ x = s) \/ (x # s /\ Current(p, x))
    BY <1>2, <2>1, <2>3, <2>7, <2>8 DEF Current
  <2>13. \A x \in Shares : ~Current(o, s) /\ ~Listed(o, s)
    BY <2>1 DEF Current, LedgersBack
  <2>14. \A p \in Owners, x \in Shares : Current(p, x)' <=> Listed(p, x)'
    <3> SUFFICES ASSUME NEW p \in Owners, NEW x \in Shares
                 PROVE  Current(p, x)' <=> Listed(p, x)'
      OBVIOUS
    <3>1. CASE p = o
      BY <2>1, <2>5, <2>12, <3>1 DEF LedgersBack
    <3>2. CASE p # o
      <4>1. ~Current(p, s)
        BY <2>1 DEF Current
      <4> QED BY <2>6, <2>12, <3>2, <4>1 DEF LedgersBack
    <3> QED BY <3>1, <3>2
  <2>15. \A p \in Owners, x \in Shares : Current(p, x)' => Agree(p, x)'
    <3> SUFFICES ASSUME NEW p \in Owners, NEW x \in Shares, Current(p, x)'
                 PROVE  Agree(p, x)'
      OBVIOUS
    <3>1. CASE x = s
      BY <2>1, <2>4, <2>8, <2>9, <2>12, <3>1 DEF Agree
    <3>2. CASE x # s
      <4>1. Current(p, x) /\ Listed(p, x) /\ Agree(p, x)
        BY <2>12, <3>2 DEF LedgersBack
      <4>2. ledger'[p].shares[x] = ledger[p].shares[x]
        BY <2>4, <2>9, <2>11, <3>2, <4>1
      <4> QED BY <2>7, <3>2, <4>1, <4>2 DEF Agree
    <3> QED BY <3>1, <3>2
  <2>16. \A p \in Owners : ledger'[p] = NoDoc =>
            \A x \in Shares : private'[x] # NoDoc => private'[x].owner # p
    BY <2>4, <2>7, <2>8, <2>11 DEF LedgersBack
  <2>17. \A p \in Owners : ledger'[p] # NoDoc =>
            \A x \in DOMAIN ledger'[p].shares :
                x \in Shares /\ ledger'[p].shares[x].expires \in Nat
    <3>1. \A x \in DOMAIN new : x \in Shares /\ new[x].expires \in Nat
      BY <2>1, <2>3, <2>9, <2>10 DEF Entry, Listed, LedgersBack
    <3> QED BY <2>4, <2>11, <3>1 DEF LedgersBack
  <2>18. ledger' = [p \in Owners |-> ledger'[p]]
    BY <2>2 DEF LedgersBack
  <2> QED BY <2>14, <2>15, <2>16, <2>17, <2>18 DEF LedgersBack
<1>3. ASSUME clock' = clock, NEW o \in Owners, NEW s \in Shares, Revokes(o, s)
      PROVE  LedgersBack'
  <2> DEFINE new == [x \in DOMAIN LedgerNow(o) \ {s} |-> LedgerNow(o)[x]]
  <2>1. /\ public' = [public EXCEPT ![s] = NoDoc]
        /\ private' = [private EXCEPT ![s] = NoDoc]
        /\ private[s] # NoDoc /\ private[s].owner = o
    BY <1>3, RevokeEffect
  <2>2. ledger[o] # NoDoc
    BY <2>1 DEF LedgersBack
  <2>3. ledger' = [ledger EXCEPT ![o] = Ledger(new)]
    BY <1>3, <2>2 DEF Revokes, RevokeTx
  <2>4. ledger'[o] # NoDoc /\ ledger'[o].shares = new
    BY <2>3, LedgerWritten DEF LedgersBack
  <2>5. \A x : x \in DOMAIN new <=> x # s /\ Listed(o, x)
    BY LedgerNowIs
  <2>6. \A x : x # s /\ Listed(o, x) => new[x] = ledger[o].shares[x]
    BY LedgerNowIs
  <2> HIDE DEF new
  <2>7. \A p \in Owners : p # o => ledger'[p] = ledger[p]
    BY <2>3 DEF LedgersBack
  <2>8. \A x \in Shares : x # s => public'[x] = public[x] /\ private'[x] = private[x]
    BY <2>1 DEF DocsShape
  <2>9. private'[s] = NoDoc
    BY <2>1 DEF DocsShape
  <2>10. \A x : Listed(o, x)' <=> x # s /\ Listed(o, x)
    BY <1>3, <2>4, <2>5, <2>6 DEF Listed
  <2>11. \A p \in Owners, x \in Shares : Current(p, x)' <=> x # s /\ Current(p, x)
    BY <1>3, <2>8, <2>9 DEF Current
  <2>12. \A p \in Owners, x \in Shares : Current(p, x)' <=> Listed(p, x)'
    <3> SUFFICES ASSUME NEW p \in Owners, NEW x \in Shares
                 PROVE  Current(p, x)' <=> Listed(p, x)'
      OBVIOUS
    <3>1. CASE p = o
      BY <2>10, <2>11, <3>1 DEF LedgersBack
    <3>2. CASE p # o
      <4>1. ~Current(p, s)
        BY <2>1, <3>2 DEF Current
      <4>2. Listed(p, x)' <=> Listed(p, x)
        BY <1>3, <2>7, <3>2 DEF Listed
      <4> QED BY <2>11, <4>1, <4>2 DEF LedgersBack
    <3> QED BY <3>1, <3>2
  <2>13. \A p \in Owners, x \in Shares : Current(p, x)' => Agree(p, x)'
    <3> SUFFICES ASSUME NEW p \in Owners, NEW x \in Shares, Current(p, x)'
                 PROVE  Agree(p, x)'
      OBVIOUS
    <3>1. x # s /\ Current(p, x) /\ Listed(p, x) /\ Agree(p, x)
      BY <2>11 DEF LedgersBack
    <3>2. ledger'[p].shares[x] = ledger[p].shares[x]
      BY <2>4, <2>6, <2>7, <3>1
    <3> QED BY <2>8, <3>1, <3>2 DEF Agree
  <2>14. \A p \in Owners : ledger'[p] = NoDoc =>
            \A x \in Shares : private'[x] # NoDoc => private'[x].owner # p
    BY <2>4, <2>7, <2>8, <2>9 DEF LedgersBack
  <2>15. \A p \in Owners : ledger'[p] # NoDoc =>
            \A x \in DOMAIN ledger'[p].shares :
                x \in Shares /\ ledger'[p].shares[x].expires \in Nat
    <3>1. \A x \in DOMAIN new : x \in Shares /\ new[x].expires \in Nat
      BY <2>5, <2>6 DEF Listed, LedgersBack
    <3> QED BY <2>4, <2>7, <3>1 DEF LedgersBack
  <2>16. ledger' = [p \in Owners |-> ledger'[p]]
    BY <2>3 DEF LedgersBack
  <2> QED BY <2>12, <2>13, <2>14, <2>15, <2>16 DEF LedgersBack
<1>4. CASE Tick
  <2>1. clock' = clock + 1 /\ clock \in Nat /\ UNCHANGED <<public, private, ledger>>
    BY <1>4 DEF Tick, DocsShape, shareVars
  <2>2. \A s \in Shares : private[s] # NoDoc => private[s].expires \in Nat
    BY DEF DocsShape, PrivateShare
  <2>3. \A o \in Owners, s \in Shares : Current(o, s)' => Current(o, s)
    BY <2>1, <2>2 DEF Current
  <2>4. \A o \in Owners, s \in Shares : Listed(o, s)' => Listed(o, s)
    BY <2>1 DEF Listed, LedgersBack
  <2>5. \A o \in Owners, s \in Shares : Current(o, s)' <=> Listed(o, s)'
    <3> SUFFICES ASSUME NEW o \in Owners, NEW s \in Shares, Current(o, s), Listed(o, s)
                 PROVE  Current(o, s)' <=> Listed(o, s)'
      BY <2>3, <2>4 DEF LedgersBack
    <3>0. Agree(o, s)
      BY DEF LedgersBack
    <3>1. ledger[o].shares[s].expires = private[s].expires
      BY <3>0 DEF Agree, Entry
    <3> QED BY <2>1, <3>1 DEF Current, Listed
  <2> QED BY <2>1, <2>3, <2>5 DEF LedgersBack, Agree
<1>5. ASSUME NEW s \in Shares, TtlPublic(s) PROVE LedgersBack'
  <2>1. /\ public' = [public EXCEPT ![s] = NoDoc] /\ public[s] # NoDoc
        /\ public[s].expires < clock /\ UNCHANGED <<clock, private, ledger>>
    BY <1>5 DEF TtlPublic, Expired
  <2>2. \A o \in Owners, x \in Shares : Current(o, x) => x # s
    <3> SUFFICES ASSUME NEW o \in Owners, Current(o, s) PROVE FALSE
      OBVIOUS
    <3>1. public[s].expires = private[s].expires /\ private[s].expires > clock
      BY DEF LedgersBack, Agree, Current
    <3>2. public[s].expires \in Nat /\ clock \in Nat
      BY <2>1 DEF DocsShape, PublicShare
    <3> QED BY <2>1, <3>1, <3>2
  <2>3. \A o \in Owners, x \in Shares : /\ Current(o, x)' <=> Current(o, x)
                                        /\ Listed(o, x)' <=> Listed(o, x)
    BY <2>1 DEF Current, Listed
  <2>4. \A o \in Owners, x \in Shares : x # s /\ Agree(o, x) => Agree(o, x)'
    BY <2>1 DEF Agree, DocsShape
  <2> QED BY <2>1, <2>2, <2>3, <2>4 DEF LedgersBack
<1>6. ASSUME NEW s \in Shares, TtlPrivate(s) PROVE LedgersBack'
  <2>1. /\ private' = [private EXCEPT ![s] = NoDoc] /\ private[s] # NoDoc
        /\ private[s].expires < clock /\ UNCHANGED <<clock, public, ledger>>
    BY <1>6 DEF TtlPrivate, Expired
  <2>2. \A o \in Owners, x \in Shares : Current(o, x) => x # s
    <3>1. private[s].expires \in Nat /\ clock \in Nat
      BY <2>1 DEF DocsShape, PrivateShare
    <3> QED BY <2>1, <3>1 DEF Current
  <2>3. private'[s] = NoDoc /\ \A x \in Shares : x # s => private'[x] = private[x]
    BY <2>1 DEF DocsShape
  <2>4. \A o \in Owners, x \in Shares : /\ Current(o, x)' <=> Current(o, x)
                                        /\ Listed(o, x)' <=> Listed(o, x)
    BY <2>1, <2>2, <2>3 DEF Current, Listed
  <2>5. \A o \in Owners, x \in Shares : x # s /\ Agree(o, x) => Agree(o, x)'
    BY <2>1, <2>3 DEF Agree
  <2> QED BY <2>1, <2>2, <2>3, <2>4, <2>5 DEF LedgersBack
<1>7. ASSUME NEW o \in Owners, NEW op \in OpId, TtlReceipt(o, op) PROVE LedgersBack'
  BY <1>7 DEF TtlReceipt, LedgersBack, Listed, Current, Agree
<1> QED BY <1>1, <1>2, <1>3, <1>4, <1>5, <1>6, <1>7, StepCases

-----------------------------------------------------------------------------
(* The budgets count what was made.                                        *)

Buyers == Owners \cup {Service}
Budget == [start : Nat, calls : Nat]
Charged(x, m) == x \in {m.owner, Service}
InWindow(b, m) == m.at >= b.start /\ m.at < b.start + Window
Counted(x) == {m \in made : InWindow(budget[x], m) /\ Charged(x, m)}
\* Nothing that was charged is later than the current window, so that a window
\* which restarts has nothing to count but the share that restarts it.
BudgetsBack ==
    /\ IsFiniteSet(made)
    /\ budget \in [Buyers -> {NoDoc} \cup Budget]
    /\ \A x \in Buyers : budget[x] = NoDoc => \A m \in made : ~Charged(x, m)
    /\ \A x \in Buyers : budget[x] # NoDoc =>
          /\ budget[x].start <= clock
          /\ \A m \in made : Charged(x, m) => m.at < budget[x].start + Window
          /\ budget[x].calls = Cardinality(Counted(x))

\* What a budget becomes when it is consumed.
LEMMA ConsumedIs ==
    ASSUME NEW b \in {NoDoc} \cup Budget, clock \in Nat
    PROVE  /\ Consumed(b) \in Budget /\ Consumed(b) # NoDoc
           /\ Restarts(b) => Consumed(b).start = clock /\ Consumed(b).calls = 1
           /\ ~Restarts(b) => /\ b \in Budget
                              /\ Consumed(b).start = b.start
                              /\ Consumed(b).calls = b.calls + 1
<1>1. CASE Restarts(b)
  BY <1>1 DEF Consumed, Budget, NoDoc
<1>2. CASE ~Restarts(b)
  <2>1. b \in Budget
    BY <1>2 DEF Restarts
  <2>2. Consumed(b) = [b EXCEPT !.calls = @ + 1]
    BY <1>2 DEF Consumed
  <2> QED BY <1>2, <2>1, <2>2 DEF Budget, NoDoc
<1> QED BY <1>1, <1>2

\* Only a create that makes a share consumes, and it consumes both budgets.
LEMMA BudgetsKept ==
    ASSUME DocsShape, DocsShape', TabsShape, ReceiptsBack, BudgetsBack,
           [DeckNext]_deckVars
    PROVE  BudgetsBack'
<1>1. CASE UNCHANGED <<budget, made>> /\ clock' \in Nat /\ clock' >= clock
  <2>1. \A x \in Buyers : Counted(x)' = Counted(x)
    BY <1>1 DEF Counted, InWindow, Charged
  <2>2. clock \in Nat /\ \A x \in Buyers : budget[x] # NoDoc => budget[x].start \in Nat
    BY DEF DocsShape, BudgetsBack, Budget
  <2> QED BY <1>1, <2>1, <2>2 DEF BudgetsBack, Charged
<1>2. ASSUME clock' = clock, NEW m \in wire, NEW s \in Shares, Creates(m, s)
      PROVE  BudgetsBack'
  <2> DEFINE o == m.call.owner
             new == [op |-> m.call.op, asked |-> m.call.at, owner |-> o, share |-> s,
                     deck |-> m.call.deck, at |-> clock]
  <2>1. o \in Owners /\ made' = made \cup {new} /\ \A n \in made : n.share # s
    BY <1>2, CreateEffect
  <2>2. budget' = BudgetSpent(o)
    BY <1>2 DEF Creates, CreateShareDoc
  <2>3. new.owner = o /\ new.at = clock /\ new.share = s
    OBVIOUS
  <2> HIDE DEF new, o
  <2>4. /\ clock \in Nat /\ budget \in [Buyers -> {NoDoc} \cup Budget]
        /\ IsFiniteSet(made) /\ Window \in Nat \ {0}
        /\ \A n \in made : n.at \in Nat /\ n.at <= clock
    BY TimeAssumption DEF DocsShape, BudgetsBack, ReceiptsBack, Creation
  <2>5. new \notin made
    BY <2>1, <2>3
  <2>6. IsFiniteSet(made')
    BY <2>1, <2>4, FS_AddElement
  <2>7. \A x \in Buyers : budget'[x] = IF x \in {o, Service} THEN Consumed(budget[x])
                                                             ELSE budget[x]
    BY <2>2, <2>4 DEF BudgetSpent
  <2>8. \A x \in Buyers : Charged(x, new) <=> x \in {o, Service}
    BY <2>3 DEF Charged
  <2>9. budget' \in [Buyers -> {NoDoc} \cup Budget]
    <3>1. budget' = [x \in Buyers |-> budget'[x]]
      BY <2>2, <2>4 DEF BudgetSpent
    <3>2. \A x \in Buyers : budget'[x] \in {NoDoc} \cup Budget
      BY <2>4, <2>7, ConsumedIs
    <3> QED BY <3>1, <3>2
  <2>10. ASSUME NEW x \in Buyers, x \notin {o, Service}
         PROVE  /\ budget'[x] = budget[x] /\ Counted(x)' = Counted(x)
                /\ \A n \in made' : Charged(x, n) => n \in made
    BY <2>1, <2>7, <2>8, <2>10 DEF Counted, InWindow, Charged
  <2>11. ASSUME NEW x \in Buyers, x \in {o, Service}
         PROVE  /\ budget'[x] # NoDoc /\ budget'[x].start <= clock
                /\ \A n \in made' : Charged(x, n) => n.at < budget'[x].start + Window
                /\ budget'[x].calls = Cardinality(Counted(x)')
    <3> DEFINE b == budget[x]
    <3>1. /\ budget'[x] = Consumed(b) /\ b \in {NoDoc} \cup Budget
          /\ Charged(x, new)
      BY <2>4, <2>7, <2>8, <2>11
    <3>2. CASE Restarts(b)
      <4>1. Consumed(b) # NoDoc /\ Consumed(b).start = clock /\ Consumed(b).calls = 1
        BY <2>4, <3>1, <3>2, ConsumedIs
      <4>2. \A n \in made : Charged(x, n) => n.at < clock
        <5> SUFFICES ASSUME NEW n \in made, Charged(x, n) PROVE n.at < clock
          OBVIOUS
        <5>1. b # NoDoc /\ b \in Budget /\ b.start <= clock /\ n.at < b.start + Window
          BY <3>1 DEF BudgetsBack
        <5>2. b.start \in Nat /\ clock - b.start >= Window
          BY <2>4, <3>2, <5>1 DEF Restarts, Budget
        <5> QED BY <2>4, <5>1, <5>2
      <4>3. Counted(x)' = {new}
        BY <2>1, <2>3, <2>4, <3>1, <4>1, <4>2 DEF Counted, InWindow, Charged
      <4>4. Cardinality({new}) = 1
        BY FS_Singleton
      <4>5. \A n \in made' : Charged(x, n) => n.at < clock + Window
        BY <2>1, <2>3, <2>4, <4>2
      <4> QED BY <2>4, <3>1, <4>1, <4>3, <4>4, <4>5
    <3>3. CASE ~Restarts(b)
      <4>1. /\ b \in Budget /\ Consumed(b) # NoDoc /\ Consumed(b).start = b.start
            /\ Consumed(b).calls = b.calls + 1
        BY <2>4, <3>1, <3>3, ConsumedIs
      <4>2. b # NoDoc /\ b.start \in Nat /\ b.start <= clock /\ clock < b.start + Window
        BY <2>4, <3>3, <4>1 DEF Restarts, Budget
      <4>3. Counted(x)' = Counted(x) \cup {new}
        BY <2>1, <2>3, <3>1, <4>1, <4>2 DEF Counted, InWindow, Charged
      <4>4. Cardinality(Counted(x) \cup {new}) = Cardinality(Counted(x)) + 1
        <5>1. Counted(x) \subseteq made
          BY DEF Counted
        <5>2. IsFiniteSet(Counted(x)) /\ new \notin Counted(x)
          BY <2>4, <2>5, <5>1, FS_Subset
        <5> QED BY <5>2, FS_AddElement
      <4>5. b.calls = Cardinality(Counted(x))
        BY <4>2 DEF BudgetsBack
      <4>6. \A n \in made' : Charged(x, n) => n.at < b.start + Window
        BY <2>1, <2>3, <4>2 DEF BudgetsBack
      <4> HIDE DEF b
      <4> QED BY <3>1, <4>1, <4>2, <4>3, <4>4, <4>5, <4>6
    <3> QED BY <3>2, <3>3
  <2>12. \A x \in Buyers : budget'[x] = NoDoc => \A n \in made' : ~Charged(x, n)
    BY <2>10, <2>11 DEF BudgetsBack
  <2>13. ASSUME NEW x \in Buyers, budget'[x] # NoDoc
         PROVE  /\ budget'[x].start <= clock'
                /\ \A n \in made' : Charged(x, n) => n.at < budget'[x].start + Window
                /\ budget'[x].calls = Cardinality(Counted(x)')
    <3>1. CASE x \in {o, Service}
      BY <1>2, <2>11, <3>1
    <3>2. CASE x \notin {o, Service}
      BY <1>2, <2>10, <2>13, <3>2 DEF BudgetsBack
    <3> QED BY <3>1, <3>2
  <2> QED BY <2>6, <2>9, <2>12, <2>13 DEF BudgetsBack, Charged
<1>3. ASSUME NEW o \in Owners, NEW s \in Shares, Revokes(o, s)
      PROVE  UNCHANGED <<budget, made>>
  BY <1>3, RevokeEffect
<1>4. clock \in Nat
  BY DEF DocsShape
<1> QED
  BY <1>1, <1>2, <1>3, <1>4, StepCases
     DEF Tick, TtlPublic, TtlPrivate, TtlReceipt, shareVars

\* What the ledger lists now is what is active.
LEMMA ActiveIs ==
    ASSUME LedgersBack, NEW o \in Owners
    PROVE  /\ Active(o) = DOMAIN LedgerNow(o)
           /\ \A s \in Active(o) : Agree(o, s) /\ LedgerNow(o)[s].bytes = private[s].bytes
<1>1. \A s : s \in Active(o) <=> s \in Shares /\ Current(o, s)
  BY DEF Active, Current
<1>2. \A s : s \in DOMAIN LedgerNow(o) <=> Listed(o, s)
  BY LedgerNowIs
<1>3. \A s : Listed(o, s) => s \in Shares
  BY DEF LedgersBack, Listed
<1>4. \A s \in Shares : /\ Current(o, s) <=> Listed(o, s)
                        /\ Current(o, s) => Agree(o, s)
  BY DEF LedgersBack
<1>5. \A s \in Shares : Current(o, s) => LedgerNow(o)[s].bytes = private[s].bytes
  <2> SUFFICES ASSUME NEW s \in Shares, Current(o, s)
               PROVE  LedgerNow(o)[s].bytes = private[s].bytes
    OBVIOUS
  <2>1. Listed(o, s) /\ Agree(o, s)
    BY <1>4
  <2>2. LedgerNow(o)[s] = ledger[o].shares[s]
    BY <2>1, LedgerNowIs
  <2> QED BY <2>1, <2>2 DEF Agree, Entry
<1> QED BY <1>1, <1>2, <1>3, <1>4, <1>5

\* The ledger of an owner lists the owner's active shares, with the size and
\* the expiry of their documents, and no others (sharedDeckPersistence.ts
\* createSharedDeckAtomically, revokeSharedDeckAtomically).
THEOREM LedgersAgree == DeckSpec => []LedgerBacksShares
<1>1. DeckInit => LedgersBack
  BY DEF DeckInit, LedgersBack, Current, Listed
<1>2. DeckInv /\ DeckInv' /\ LedgersBack /\ [DeckNext]_deckVars => LedgersBack'
  BY LedgersKept DEF DeckInv
<1>3. DeckInv /\ LedgersBack => LedgerBacksShares
  <2> SUFFICES ASSUME DeckInv, LedgersBack, NEW o \in Owners, ledger[o] # NoDoc
               PROVE  /\ Active(o) = DOMAIN LedgerNow(o)
                      /\ \A s \in Active(o) : Agree(o, s)
    BY DEF LedgerBacksShares, Agree
  <2> QED BY ActiveIs
<1> QED BY <1>1, <1>2, <1>3, InvHolds, PTL DEF DeckSpec

\* The counters of the current windows equal the shares made in them
\* (rateLimiter.ts:196-221).
THEOREM BudgetsCount == DeckSpec => []BudgetCountsShares
<1>1. DeckInit => BudgetsBack
  BY FS_EmptySet DEF DeckInit, CallersInit, BudgetsBack, Buyers
<1>2. DeckInv /\ DeckInv' /\ BudgetsBack /\ [DeckNext]_deckVars => BudgetsBack'
  BY BudgetsKept DEF DeckInv
<1>3. BudgetsBack => BudgetCountsShares
  <2> SUFFICES ASSUME BudgetsBack, NEW x \in Buyers, budget[x] # NoDoc
               PROVE  budget[x].calls = Cardinality(
                         {m \in made : /\ m.at >= budget[x].start
                                       /\ m.at < budget[x].start + Window
                                       /\ x \in {m.owner, Service}})
    BY DEF BudgetCountsShares, Buyers
  <2>1. Counted(x) = {m \in made : /\ m.at >= budget[x].start
                                   /\ m.at < budget[x].start + Window
                                   /\ x \in {m.owner, Service}}
    BY DEF Counted, InWindow, Charged
  <2> QED BY <2>1 DEF BudgetsBack
<1> QED BY <1>1, <1>2, <1>3, InvHolds, PTL DEF DeckSpec

-----------------------------------------------------------------------------
(* Sums over finite sets.  Total is a recursive function on the subsets of  *)
(* a set, which is there because it is there on every smaller set.         *)

\* The element a sum takes next, and what is left to add up.
NextOf(S) == CHOOSE x \in S : TRUE
RestOf(S) == S \ {NextOf(S)}
\* g adds up the subsets of S, and the function Total is read from.
Sums(b, S, g) == g = [s \in SUBSET S |-> IF s = {} THEN 0 ELSE b[NextOf(s)] + g[RestOf(s)]]
Summing(b, S) == CHOOSE g : Sums(b, S, g)

LEMMA TotalIs ==
    ASSUME NEW b, NEW S
    PROVE  Total(b, S) = Summing(b, S)[S]
BY DEF Total, MapThenSumSet, MapThenFoldSet, Summing, Sums, NextOf, RestOf

\* Among sets of subsets of a finite set there is one without a smaller one.
LEMMA SmallestSet ==
    ASSUME NEW S, IsFiniteSet(S), NEW F, F \subseteq SUBSET S, F # {}
    PROVE  \E T \in F : \A U \in F : U \subseteq T => U = T
<1>1. IsWellFoundedOn(StrictSubsetOrdering(S), SUBSET S)
  BY FS_StrictSubsetOrderingWellFounded, FS_FiniteSubsetsOfFinite
<1>2. PICK T \in F : \A U \in F : ~(<<U, T>> \in StrictSubsetOrdering(S))
  BY <1>1, WFMin
<1>3. \A U \in F : U \subseteq T => U = T
  <2> SUFFICES ASSUME NEW U \in F, U \subseteq T, U # T
               PROVE  <<U, T>> \in StrictSubsetOrdering(S)
    BY <1>2
  <2> QED BY DEF StrictSubsetOrdering
<1> QED BY <1>3

LEMMA LeftIs ==
    ASSUME NEW S, S # {}
    PROVE  NextOf(S) \in S /\ RestOf(S) \subseteq S /\ RestOf(S) # S
BY DEF NextOf, RestOf

\* Two functions that add up agree where both are defined.
LEMMA SumsAgree ==
    ASSUME NEW b, NEW S, NEW T, NEW f, NEW g, Sums(b, S, f), Sums(b, T, g),
           NEW U, IsFiniteSet(U), U \subseteq S, U \subseteq T
    PROVE  f[U] = g[U]
<1> DEFINE Bad == {V \in SUBSET U : f[V] # g[V]}
<1> SUFFICES ASSUME Bad # {} PROVE FALSE
  OBVIOUS
<1>1. PICK V \in Bad : \A W \in Bad : W \subseteq V => W = V
  <2>1. Bad \subseteq SUBSET U
    OBVIOUS
  <2> HIDE DEF Bad
  <2> QED BY <2>1, SmallestSet
<1>2. V \in SUBSET S /\ V \in SUBSET T
  OBVIOUS
<1>3. /\ f[V] = IF V = {} THEN 0 ELSE b[NextOf(V)] + f[RestOf(V)]
      /\ g[V] = IF V = {} THEN 0 ELSE b[NextOf(V)] + g[RestOf(V)]
  BY <1>2 DEF Sums
<1>4. V # {}
  BY <1>3
<1>5. RestOf(V) \subseteq V /\ RestOf(V) # V
  BY <1>4, LeftIs
<1>6. f[RestOf(V)] = g[RestOf(V)]
  BY <1>1, <1>5
<1> QED BY <1>3, <1>6

\* They exist on every finite set.
LEMMA SumsExist ==
    ASSUME NEW b, NEW S, IsFiniteSet(S)
    PROVE  Sums(b, S, Summing(b, S))
<1> DEFINE Bad == {T \in SUBSET S : ~\E g : Sums(b, T, g)}
<1>1. SUFFICES ASSUME Bad # {} PROVE FALSE
  BY DEF Summing
<1>2. PICK T \in Bad : \A W \in Bad : W \subseteq T => W = T
  <2>1. Bad \subseteq SUBSET S
    OBVIOUS
  <2> HIDE DEF Bad
  <2> QED BY <1>1, <2>1, SmallestSet
<1>3. T \in SUBSET S /\ ~\E g : Sums(b, T, g)
  OBVIOUS
<1>4. \A V \in SUBSET T : V # T => Sums(b, V, Summing(b, V))
  <2> SUFFICES ASSUME NEW V \in SUBSET T, V # T PROVE Sums(b, V, Summing(b, V))
    OBVIOUS
  <2>1. \E g : Sums(b, V, g)
    BY <1>2
  <2> QED BY <2>1 DEF Summing
<1> DEFINE f == [s \in SUBSET T |->
                   IF s = {} THEN 0 ELSE b[NextOf(s)] + Summing(b, RestOf(s))[RestOf(s)]]
<1> HIDE DEF Bad
<1>5. \A s \in SUBSET T : s # {} => f[RestOf(s)] = Summing(b, RestOf(s))[RestOf(s)]
  <2> SUFFICES ASSUME NEW s \in SUBSET T, s # {}
               PROVE  f[RestOf(s)] = Summing(b, RestOf(s))[RestOf(s)]
    OBVIOUS
  <2> DEFINE v == RestOf(s)
  <2>1. v \subseteq s /\ v # s
    BY LeftIs
  <2>2. v \in SUBSET T /\ v # T
    BY <2>1
  <2>3. Sums(b, v, Summing(b, v))
    BY <1>4, <2>2
  <2> HIDE DEF v
  <2>4. Summing(b, v)[v] = IF v = {} THEN 0 ELSE b[NextOf(v)] + Summing(b, v)[RestOf(v)]
    <3> DEFINE g == Summing(b, v)
    <3>1. g = [u \in SUBSET v |-> IF u = {} THEN 0 ELSE b[NextOf(u)] + g[RestOf(u)]]
      BY <2>3 DEF Sums
    <3> HIDE DEF g
    <3>2. v \in SUBSET v
      OBVIOUS
    <3>3. g[v] = IF v = {} THEN 0 ELSE b[NextOf(v)] + g[RestOf(v)]
      BY <3>1, <3>2
    <3> QED BY <3>3 DEF g
  <2>5. ASSUME v # {} PROVE Summing(b, v)[RestOf(v)] = Summing(b, RestOf(v))[RestOf(v)]
    <3>1. RestOf(v) \subseteq v /\ RestOf(v) # v
      BY <2>5, LeftIs
    <3>2. RestOf(v) \in SUBSET T /\ RestOf(v) # T
      BY <2>2, <3>1
    <3>3. Sums(b, RestOf(v), Summing(b, RestOf(v)))
      BY <1>4, <3>2
    <3>4. IsFiniteSet(RestOf(v))
      BY <1>3, <3>2, FS_Subset
    <3> QED BY <2>3, <3>1, <3>3, <3>4, SumsAgree
  <2>6. f[v] = IF v = {} THEN 0 ELSE b[NextOf(v)] + Summing(b, RestOf(v))[RestOf(v)]
    BY <2>2
  <2>7. f[v] = Summing(b, v)[v]
    BY <2>4, <2>5, <2>6
  <2> QED BY <2>7 DEF v
<1>6. f = [s \in SUBSET T |-> IF s = {} THEN 0 ELSE b[NextOf(s)] + f[RestOf(s)]]
  BY <1>5
<1> HIDE DEF f
<1>7. Sums(b, T, f)
  BY <1>6 DEF Sums
<1> QED BY <1>3, <1>7

\* A sum is one element and the sum of the others.
LEMMA TotalStep ==
    ASSUME NEW b, NEW S, IsFiniteSet(S)
    PROVE  /\ S = {} => Total(b, S) = 0
           /\ S # {} => Total(b, S) = b[NextOf(S)] + Total(b, RestOf(S))
<1> DEFINE g == Summing(b, S)
<1>2. Sums(b, S, g)
  BY SumsExist
<1>0. Total(b, S) = g[S]
  BY TotalIs
<1> HIDE DEF g
<1>1. g = [u \in SUBSET S |-> IF u = {} THEN 0 ELSE b[NextOf(u)] + g[RestOf(u)]]
  BY <1>2 DEF Sums
<1>3. S \in SUBSET S
  OBVIOUS
<1>4. g[S] = IF S = {} THEN 0 ELSE b[NextOf(S)] + g[RestOf(S)]
  BY <1>1, <1>3
<1>5. ASSUME S # {} PROVE g[RestOf(S)] = Total(b, RestOf(S))
  <2>1. RestOf(S) \subseteq S
    BY <1>5, LeftIs
  <2>2. IsFiniteSet(RestOf(S))
    BY <2>1, FS_Subset
  <2>3. Sums(b, RestOf(S), Summing(b, RestOf(S)))
    BY <2>2, SumsExist
  <2> QED BY <1>2, <2>1, <2>2, <2>3, SumsAgree, TotalIs
<1> QED BY <1>0, <1>4, <1>5

\* What is added up is all that counts.
LEMMA TotalSame ==
    ASSUME NEW b, NEW c, NEW S, IsFiniteSet(S), \A x \in S : b[x] = c[x]
    PROVE  Total(b, S) = Total(c, S)
<1> DEFINE Bad == {T \in SUBSET S : Total(b, T) # Total(c, T)}
<1>1. SUFFICES ASSUME Bad # {} PROVE FALSE
  OBVIOUS
<1>2. PICK T \in Bad : \A W \in Bad : W \subseteq T => W = T
  <2>1. Bad \subseteq SUBSET S
    OBVIOUS
  <2> HIDE DEF Bad
  <2> QED BY <1>1, <2>1, SmallestSet
<1>3. T \in SUBSET S /\ IsFiniteSet(T)
  BY FS_Subset
<1>4. T # {}
  BY <1>3, TotalStep
<1>5. NextOf(T) \in S /\ RestOf(T) \in SUBSET S /\ RestOf(T) \subseteq T /\ RestOf(T) # T
  BY <1>3, <1>4, LeftIs
<1>6. Total(b, RestOf(T)) = Total(c, RestOf(T))
  BY <1>2, <1>5
<1>7. /\ Total(b, T) = b[NextOf(T)] + Total(b, RestOf(T))
      /\ Total(c, T) = c[NextOf(T)] + Total(c, RestOf(T))
  BY <1>3, <1>4, TotalStep
<1> QED BY <1>5, <1>6, <1>7

\* A sum of numbers is a number.
LEMMA TotalNat ==
    ASSUME NEW b, NEW S, IsFiniteSet(S), \A x \in S : b[x] \in Nat
    PROVE  Total(b, S) \in Nat
<1> DEFINE Bad == {T \in SUBSET S : Total(b, T) \notin Nat}
<1>1. SUFFICES ASSUME Bad # {} PROVE FALSE
  OBVIOUS
<1>2. PICK T \in Bad : \A W \in Bad : W \subseteq T => W = T
  <2>1. Bad \subseteq SUBSET S
    OBVIOUS
  <2> HIDE DEF Bad
  <2> QED BY <1>1, <2>1, SmallestSet
<1>3. T \in SUBSET S /\ IsFiniteSet(T)
  BY FS_Subset
<1>4. T # {}
  <2>1. Total(b, T) \notin Nat
    OBVIOUS
  <2>2. T = {} => Total(b, T) = 0
    BY <1>3, TotalStep
  <2> HIDE DEF Bad
  <2> QED BY <2>1, <2>2
<1>5. NextOf(T) \in S /\ RestOf(T) \in SUBSET S /\ RestOf(T) \subseteq T /\ RestOf(T) # T
  BY <1>3, <1>4, LeftIs
<1>6. Total(b, RestOf(T)) \in Nat
  BY <1>2, <1>5
<1>7. Total(b, T) = b[NextOf(T)] + Total(b, RestOf(T))
  BY <1>3, <1>4, TotalStep
<1> QED BY <1>5, <1>6, <1>7

\* It does not matter which element is taken out.
LEMMA TotalWithout ==
    ASSUME NEW b, NEW S, IsFiniteSet(S), \A s \in S : b[s] \in Nat, NEW x \in S
    PROVE  Total(b, S) = b[x] + Total(b, S \ {x})
<1> DEFINE Bad == {T \in SUBSET S : \E y \in T : Total(b, T) # b[y] + Total(b, T \ {y})}
<1>1. SUFFICES ASSUME Bad # {} PROVE FALSE
  OBVIOUS
<1>2. PICK T \in Bad : \A W \in Bad : W \subseteq T => W = T
  <2>1. Bad \subseteq SUBSET S
    OBVIOUS
  <2> HIDE DEF Bad
  <2> QED BY <1>1, <2>1, SmallestSet
<1>3. \A W \in SUBSET S : W \subseteq T /\ W # T =>
          \A y \in W : Total(b, W) = b[y] + Total(b, W \ {y})
  BY <1>2
<1>4. PICK y \in T : Total(b, T) # b[y] + Total(b, T \ {y})
  OBVIOUS
<1>5. T \in SUBSET S
  OBVIOUS
<1> HIDE DEF Bad
<1> DEFINE z == NextOf(T)
           R == T \ {y, z}
<1>6. z \in T /\ RestOf(T) = T \ {z}
  BY <1>4, LeftIs DEF RestOf
<1>7. Total(b, T) = b[z] + Total(b, T \ {z})
  <2>1. IsFiniteSet(T) /\ T # {}
    BY <1>4, <1>5, FS_Subset
  <2> QED BY <1>6, <2>1, TotalStep
<1>8. y # z
  BY <1>4, <1>7
<1> HIDE DEF z
<1>9. Total(b, T \ {z}) = b[y] + Total(b, R)
  <2>1. (T \ {z}) \ {y} = R
    OBVIOUS
  <2> QED BY <1>3, <1>4, <1>5, <1>6, <1>8, <2>1
<1>10. Total(b, T \ {y}) = b[z] + Total(b, R)
  <2>1. (T \ {y}) \ {z} = R
    OBVIOUS
  <2> QED BY <1>3, <1>4, <1>5, <1>6, <1>8, <2>1
<1>11. Total(b, R) \in Nat /\ b[y] \in Nat /\ b[z] \in Nat
  <2>1. R \subseteq S
    BY <1>5
  <2>2. IsFiniteSet(R)
    BY <2>1, FS_Subset
  <2> HIDE DEF R
  <2>3. \A s \in R : b[s] \in Nat
    BY <2>1
  <2>4. Total(b, R) \in Nat
    BY <2>2, <2>3, TotalNat
  <2> QED BY <1>4, <1>5, <1>6, <2>4
<1> HIDE DEF R
<1> QED BY <1>4, <1>7, <1>9, <1>10, <1>11

\* A part of a set adds up to no more than the set.
LEMMA TotalPart ==
    ASSUME NEW b, NEW S, IsFiniteSet(S), \A s \in S : b[s] \in Nat,
           NEW P, P \subseteq S
    PROVE  Total(b, P) <= Total(b, S)
<1> DEFINE Bad == {T \in SUBSET S : P \subseteq T /\ ~(Total(b, P) <= Total(b, T))}
<1>1. SUFFICES ASSUME Bad # {} PROVE FALSE
  OBVIOUS
<1>2. PICK T \in Bad : \A W \in Bad : W \subseteq T => W = T
  <2>1. Bad \subseteq SUBSET S
    OBVIOUS
  <2> HIDE DEF Bad
  <2> QED BY <1>1, <2>1, SmallestSet
<1>3. T \in SUBSET S /\ P \subseteq T /\ ~(Total(b, P) <= Total(b, T))
  OBVIOUS
<1>4. \A W \in SUBSET S : P \subseteq W /\ W \subseteq T /\ W # T => Total(b, P) <= Total(b, W)
  BY <1>2
<1> HIDE DEF Bad
<1>5. \A W \in SUBSET S : IsFiniteSet(W) /\ Total(b, W) \in Nat
  <2> SUFFICES ASSUME NEW W \in SUBSET S PROVE IsFiniteSet(W) /\ Total(b, W) \in Nat
    OBVIOUS
  <2>1. IsFiniteSet(W)
    BY FS_Subset
  <2>2. \A s \in W : b[s] \in Nat
    OBVIOUS
  <2> QED BY <2>1, <2>2, TotalNat
<1>6. PICK x \in T : x \notin P
  <2>1. Total(b, T) \in Nat
    BY <1>3, <1>5
  <2> QED BY <1>3, <2>1
<1>7. Total(b, T) = b[x] + Total(b, T \ {x})
  BY <1>3, <1>5, <1>6, TotalWithout
<1>8. Total(b, P) <= Total(b, T \ {x})
  BY <1>3, <1>4, <1>6
<1>9. /\ Total(b, P) \in Nat /\ Total(b, T) \in Nat
      /\ Total(b, T \ {x}) \in Nat /\ b[x] \in Nat
  BY <1>3, <1>5, <1>6
<1> QED BY <1>3, <1>7, <1>8, <1>9

-----------------------------------------------------------------------------
(* The quota.                                                              *)

Weights(o) == [s \in Active(o) |-> private[s].bytes]

\* Active shares are finitely many, and each has a size.
LEMMA WeightsAre ==
    ASSUME NEW docs, docs \in [Shares -> {NoDoc} \cup PrivateShare],
           NEW A, A \subseteq Shares, \A s \in A : docs[s] # NoDoc
    PROVE  IsFiniteSet(A) /\ \A s \in A : docs[s].bytes \in Nat
<1>1. \A s \in A : docs[s] \in PrivateShare
  OBVIOUS
<1> QED BY <1>1, SharesAssumption, FS_Subset DEF PrivateShare

\* Whoever has lost shares, and gained none, is still within the quota.
LEMMA QuotaPart ==
    ASSUME DocsShape, DocsShape', NEW o,
           Active(o)' \subseteq Active(o),
           \A s \in Active(o)' : private'[s].bytes = private[s].bytes,
           Cardinality(Active(o)) <= MaxShares,
           Total(Weights(o), Active(o)) <= MaxBytes
    PROVE  /\ Cardinality(Active(o)') <= MaxShares
           /\ Total(Weights(o)', Active(o)') <= MaxBytes
<1> DEFINE A == Active(o)
           B == Active(o)'
           v == Weights(o)
           w == Weights(o)'
<1>1. /\ IsFiniteSet(A) /\ IsFiniteSet(B) /\ B \subseteq A
      /\ \A s \in A : v[s] \in Nat
      /\ \A s \in B : w[s] \in Nat
  <2>1. A \subseteq Shares /\ \A s \in A : private[s] # NoDoc
    BY DEF Active
  <2>2. B \subseteq Shares /\ \A s \in B : private'[s] # NoDoc
    BY DEF Active
  <2>3. /\ private \in [Shares -> {NoDoc} \cup PrivateShare]
        /\ private' \in [Shares -> {NoDoc} \cup PrivateShare]
    BY DEF DocsShape
  <2>4. IsFiniteSet(A) /\ \A s \in A : private[s].bytes \in Nat
    BY <2>1, <2>3, WeightsAre
  <2>5. IsFiniteSet(B) /\ \A s \in B : private'[s].bytes \in Nat
    BY <2>2, <2>3, WeightsAre
  <2> QED BY <2>4, <2>5 DEF Weights
<1>2. \A s \in B : w[s] = v[s]
  BY DEF Weights
<1>3. Cardinality(A) <= MaxShares /\ Total(v, A) <= MaxBytes
  OBVIOUS
<1> HIDE DEF A, B, v, w
<1>4. Cardinality(B) <= Cardinality(A) /\ Cardinality(A) \in Nat /\ Cardinality(B) \in Nat
  BY <1>1, FS_Subset, FS_CardinalityType
<1>5. Total(w, B) = Total(v, B)
  BY <1>1, <1>2, TotalSame
<1>6. Total(v, B) <= Total(v, A)
  BY <1>1, TotalPart
<1>7. Total(v, B) \in Nat /\ Total(v, A) \in Nat
  BY <1>1, TotalNat
<1>8. Cardinality(B) <= MaxShares /\ Total(w, B) <= MaxBytes
  BY <1>3, <1>4, <1>5, <1>6, <1>7, DeckAssumption
<1> QED BY <1>8 DEF B, w

\* A create counts what is active, and adds one share to it.
LEMMA QuotaOnCreate ==
    ASSUME DocsShape, DocsShape', TabsShape, LedgersBack, clock' = clock,
           NEW m \in wire, NEW s \in Shares, Creates(m, s),
           NEW o, o = m.call.owner
    PROVE  /\ Cardinality(Active(o)') <= MaxShares
           /\ Total(Weights(o)', Active(o)') <= MaxBytes
<1> DEFINE A == Active(o)
           B == Active(o)'
           v == Weights(o)
           w == Weights(o)'
           b == DeckBytes[m.call.deck]
           L == LedgerNow(o)
           l == [x \in DOMAIN L |-> L[x].bytes]
<1>1. /\ o \in Owners /\ m.call.deck \in Decks /\ private[s] = NoDoc
      /\ private' = [private EXCEPT ![s] =
                       SharePrivate(o, m.call.deck, clock, clock + Lifetime)]
  BY CreateEffect
<1>2. b \in Nat /\ clock \in Nat /\ clock + Lifetime > clock
  BY <1>1, DeckAssumption, TimeAssumption DEF DocsShape
<1>3. /\ private'[s] = SharePrivate(o, m.call.deck, clock, clock + Lifetime)
      /\ \A x \in Shares : x # s => private'[x] = private[x]
  BY <1>1 DEF DocsShape
<1>4. /\ private'[s] # NoDoc /\ private'[s].version = 2 /\ private'[s].owner = o
      /\ private'[s].expires > clock' /\ private'[s].bytes = b
  BY <1>2, <1>3 DEF SharePrivate, PrivateDoc, NoDoc
<1>5. s \notin A /\ B = A \cup {s}
  BY <1>1, <1>3, <1>4 DEF Active
<1>6. w[s] = b /\ \A x \in A : w[x] = v[x]
  <2>1. \A x \in A : x \in Shares /\ x # s
    BY <1>5 DEF Active
  <2>2. \A x \in A : private'[x] = private[x]
    BY <1>3, <2>1
  <2>3. \A x \in B : w[x] = private'[x].bytes
    BY DEF Weights
  <2>4. \A x \in A : v[x] = private[x].bytes
    BY DEF Weights
  <2> HIDE DEF A, B, v, w
  <2> QED BY <1>4, <1>5, <2>2, <2>3, <2>4
<1>7. /\ IsFiniteSet(A) /\ \A x \in A : v[x] \in Nat
      /\ IsFiniteSet(B) /\ \A x \in B : w[x] \in Nat
  <2>1. A \subseteq Shares /\ \A x \in A : private[x] # NoDoc
    BY DEF Active
  <2>2. IsFiniteSet(A) /\ \A x \in A : private[x].bytes \in Nat
    BY <2>1, WeightsAre DEF DocsShape
  <2>3. \A x \in A : v[x] \in Nat
    BY <2>2 DEF Weights
  <2>4. IsFiniteSet(B)
    BY <1>5, <2>2, FS_AddElement
  <2> QED BY <1>2, <1>5, <1>6, <2>2, <2>3, <2>4
<1>8. DOMAIN L = A /\ \A x \in A : l[x] = v[x]
  BY <1>1, ActiveIs DEF Weights
<1>9. Ledger(L).bytes = Total(l, DOMAIN L)
  BY DEF Ledger
<1>10. ~(Cardinality(DOMAIN L) >= MaxShares) /\ ~(Ledger(L).bytes > MaxBytes - b)
  BY DEF Creates
<1> HIDE DEF A, B, v, w, b, L, l
<1>11. Total(l, DOMAIN L) = Total(v, A)
  BY <1>7, <1>8, TotalSame
<1>12. Total(v, A) \in Nat /\ Cardinality(A) \in Nat
  BY <1>7, TotalNat, FS_CardinalityType
<1>13. Total(w, B) = b + Total(w, B \ {s})
  BY <1>5, <1>6, <1>7, TotalWithout
<1>14. B \ {s} = A
  BY <1>5
<1>15. Total(w, A) = Total(v, A)
  BY <1>6, <1>7, TotalSame
<1>16. Cardinality(B) = Cardinality(A) + 1
  BY <1>5, <1>7, FS_AddElement
<1>17. Cardinality(B) <= MaxShares
  BY <1>8, <1>10, <1>12, <1>16, DeckAssumption
<1>18. Total(w, B) <= MaxBytes
  <2>1. Total(w, B) = b + Total(v, A)
    BY <1>13, <1>14, <1>15
  <2>2. ~(Total(v, A) > MaxBytes - b)
    BY <1>9, <1>10, <1>11
  <2>3. b \in Nat /\ MaxBytes \in Nat
    BY <1>2, DeckAssumption
  <2> QED BY <1>12, <2>1, <2>2, <2>3
<1> QED BY <1>17, <1>18 DEF B, w

\* Only a create makes a share active.
LEMMA QuotaKept ==
    ASSUME DocsShape, DocsShape', TabsShape, LedgersBack, LedgersBack', QuotaHeld,
           [DeckNext]_deckVars
    PROVE  QuotaHeld'
<1> SUFFICES ASSUME NEW o \in Owners, ledger'[o] # NoDoc
             PROVE  /\ Cardinality(Active(o)') <= MaxShares
                    /\ Total(Weights(o)', Active(o)') <= MaxBytes
  BY DEF QuotaHeld, Weights
<1>1. ASSUME Active(o)' \subseteq Active(o),
             \A s \in Active(o)' : private'[s].bytes = private[s].bytes,
             ledger[o] # NoDoc
      PROVE  /\ Cardinality(Active(o)') <= MaxShares
             /\ Total(Weights(o)', Active(o)') <= MaxBytes
  <2>1. /\ Cardinality(Active(o)) <= MaxShares
        /\ Total(Weights(o), Active(o)) <= MaxBytes
    BY <1>1 DEF QuotaHeld, Weights
  <2> QED BY <1>1, <2>1, QuotaPart
<1>2. CASE UNCHANGED <<clock, shareVars, made>>
  BY <1>1, <1>2 DEF Active, shareVars
<1>3. ASSUME clock' = clock, NEW m \in wire, NEW s \in Shares, Creates(m, s)
      PROVE  /\ Cardinality(Active(o)') <= MaxShares
             /\ Total(Weights(o)', Active(o)') <= MaxBytes
  <2>1. CASE o = m.call.owner
    BY <1>3, <2>1, QuotaOnCreate
  <2>2. CASE o # m.call.owner
    <3> DEFINE p == m.call.owner
    <3>1. p \in Owners /\ private' = [private EXCEPT ![s] =
                SharePrivate(p, m.call.deck, clock, clock + Lifetime)]
      BY <1>3, CreateEffect
    <3>2. /\ private'[s].owner = p
          /\ \A x \in Shares : x # s => private'[x] = private[x]
      BY <3>1 DEF DocsShape, SharePrivate, PrivateDoc
    <3>3. Active(o)' \subseteq Active(o) /\ s \notin Active(o)'
      BY <1>3, <2>2, <3>2 DEF Active
    <3>4. ledger[o] # NoDoc
      <4>1. PICK f : ledger' = [ledger EXCEPT ![p] = Ledger(f)]
        BY <1>3 DEF Creates, CreateShareDoc
      <4> QED BY <2>2, <4>1 DEF LedgersBack
    <3>5. \A x \in Active(o)' : private'[x].bytes = private[x].bytes
      BY <3>2, <3>3 DEF Active
    <3> QED BY <1>1, <3>3, <3>4, <3>5
  <2> QED BY <2>1, <2>2
<1>4. ASSUME clock' = clock, NEW p \in Owners, NEW s \in Shares, Revokes(p, s)
      PROVE  /\ Cardinality(Active(o)') <= MaxShares
             /\ Total(Weights(o)', Active(o)') <= MaxBytes
  <2>1. private' = [private EXCEPT ![s] = NoDoc]
    BY <1>4, RevokeEffect
  <2>2. private'[s] = NoDoc /\ \A x \in Shares : x # s => private'[x] = private[x]
    BY <2>1 DEF DocsShape
  <2>3. ledger[o] # NoDoc
    BY <1>4 DEF Revokes, RevokeTx, LedgersBack
  <2>4. Active(o)' \subseteq Active(o)
        /\ \A x \in Active(o)' : private'[x].bytes = private[x].bytes
    BY <1>4, <2>2 DEF Active
  <2> QED BY <1>1, <2>3, <2>4
<1>5. CASE Tick
  <2>1. clock' = clock + 1 /\ clock \in Nat /\ UNCHANGED <<private, ledger>>
    BY <1>5 DEF Tick, DocsShape, shareVars
  <2>2. \A s \in Shares : private[s] # NoDoc => private[s].expires \in Nat
    BY DEF DocsShape, PrivateShare
  <2>3. Active(o)' \subseteq Active(o)
    BY <2>1, <2>2 DEF Active
  <2> QED BY <1>1, <2>1, <2>3
<1>6. ASSUME NEW s \in Shares, TtlPublic(s)
      PROVE  /\ Cardinality(Active(o)') <= MaxShares
             /\ Total(Weights(o)', Active(o)') <= MaxBytes
  BY <1>1, <1>6 DEF TtlPublic, Active
<1>7. ASSUME NEW s \in Shares, TtlPrivate(s)
      PROVE  /\ Cardinality(Active(o)') <= MaxShares
             /\ Total(Weights(o)', Active(o)') <= MaxBytes
  <2>1. private' = [private EXCEPT ![s] = NoDoc] /\ UNCHANGED <<clock, ledger>>
    BY <1>7 DEF TtlPrivate
  <2>2. private'[s] = NoDoc /\ \A x \in Shares : x # s => private'[x] = private[x]
    BY <2>1 DEF DocsShape
  <2>3. Active(o)' \subseteq Active(o)
        /\ \A x \in Active(o)' : private'[x].bytes = private[x].bytes
    BY <2>1, <2>2 DEF Active
  <2> QED BY <1>1, <2>1, <2>3
<1>8. ASSUME NEW p \in Owners, NEW op \in OpId, TtlReceipt(p, op)
      PROVE  /\ Cardinality(Active(o)') <= MaxShares
             /\ Total(Weights(o)', Active(o)') <= MaxBytes
  BY <1>1, <1>8 DEF TtlReceipt, Active
<1> QED BY <1>2, <1>3, <1>4, <1>5, <1>6, <1>7, <1>8, StepCases

\* An owner never has more active shares, or more bytes in them, than the
\* quota allows (sharedDeckPersistence.ts createSharedDeckAtomically: the
\* check against the ledger's unexpired entries).
THEOREM QuotaHolds == DeckSpec => []QuotaHeld
<1>1. DeckInit => LedgersBack /\ QuotaHeld
  BY DEF DeckInit, LedgersBack, Current, Listed, QuotaHeld
<1>2. DeckInv /\ DeckInv' /\ LedgersBack /\ [DeckNext]_deckVars => LedgersBack'
  BY LedgersKept DEF DeckInv
<1>3. /\ DeckInv /\ DeckInv' /\ LedgersBack /\ LedgersBack' /\ QuotaHeld
      /\ [DeckNext]_deckVars
      => QuotaHeld'
  BY QuotaKept DEF DeckInv
<1> QED BY <1>1, <1>2, <1>3, InvHolds, PTL DEF DeckSpec
=============================================================================
