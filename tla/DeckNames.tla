------------------------------ MODULE DeckNames ------------------------------
(***************************************************************************)
(* The deck names the app lends to the popup of the browser extension.     *)
(* Every tab of the app publishes the decks of the signed-in owner under a *)
(* scope of its own; the bridge in the tab passes them on, in order, with  *)
(* the generation the background worker gave out for the scope; and a tab  *)
(* that sees the owner go clears its scope, which ends the generation.     *)
(***************************************************************************)
EXTENDS Integers, Sequences, SequencesExt

CONSTANTS
    Tabs,         \* tabs of the app
    Owners,
    MaxScopes,    \* bound on the scopes the tabs make
    MaxChanges,   \* bound on signing in and out
    MaxRestarts,  \* bound on the times the worker is stopped
    MaxRetired,   \* retired scopes that are remembered
    Retries,      \* DECK_METADATA_CLEAR_RETRIES
    Nobody        \* not an owner

VARIABLES
    owner,        \* who is signed in, in the browser
    seen,         \* per tab: who it believes is signed in
    scope,        \* per tab: deckScopeRef
    outbox,       \* per tab: what the app has posted to the bridge
    session,      \* per tab: deckSession of the bridge
    tries,        \* per tab: attempts left for the clear under way
    generation,   \* session storage: the generation
    retired,      \* session storage: scopes that are over, latest last
    stored,       \* session storage: the scope whose deck names are kept
    confirmed,    \* memory of the worker: the scope the popup may show
    minted,       \* generations given out
    ownerOf,      \* history: whose decks each scope stands for
    changes, restarts

appVars == <<owner, seen, scope, ownerOf, changes>>
bridgeVars == <<outbox, session, tries>>
workerVars == <<generation, retired, stored, confirmed, minted, restarts>>
vars == <<appVars, bridgeVars, workerVars>>

NoScope == 0
NoGeneration == 0
NoSession == [scope |-> NoScope, generation |-> NoGeneration]
Post(kind, sc) == [kind |-> kind, scope |-> sc]

Init ==
    /\ owner = Nobody /\ changes = 0 /\ restarts = 0 /\ ownerOf = <<>>
    /\ seen = [t \in Tabs |-> Nobody]
    /\ scope = [t \in Tabs |-> NoScope]
    /\ outbox = [t \in Tabs |-> <<>>]
    /\ session = [t \in Tabs |-> NoSession]
    /\ tries = [t \in Tabs |-> Retries]
    /\ generation = NoGeneration /\ minted = 0
    /\ retired = <<>> /\ stored = NoScope /\ confirmed = NoScope

ChangeOwner(o) ==
    /\ changes < MaxChanges /\ o # owner
    /\ owner' = o /\ changes' = changes + 1
    /\ UNCHANGED <<seen, scope, ownerOf, bridgeVars, workerVars>>

\* The effect of the app: the old scope is cleared, a new one announced.
Notice(t) ==
    /\ seen[t] # owner
    /\ owner # Nobody => Len(ownerOf) < MaxScopes
    /\ seen' = [seen EXCEPT ![t] = owner]
    /\ ownerOf' = IF owner = Nobody THEN ownerOf ELSE Append(ownerOf, owner)
    /\ scope' = [scope EXCEPT ![t] = IF owner = Nobody THEN NoScope ELSE Len(ownerOf')]
    /\ outbox' = [outbox EXCEPT ![t] =
          @ \o (IF scope[t] = NoScope THEN <<>> ELSE <<Post("clear", scope[t])>>)
            \o (IF owner = Nobody THEN <<>> ELSE <<Post("bind", scope'[t])>>)]
    /\ UNCHANGED <<owner, changes, session, tries, workerVars>>

\* The library is ready, or its decks have changed.
Publish(t) ==
    /\ scope[t] # NoScope /\ Len(outbox[t]) < 3
    /\ outbox' = [outbox EXCEPT ![t] = Append(@, Post("sync", scope[t]))]
    /\ UNCHANGED <<appVars, session, tries, workerVars>>

Sent(t, kind) == outbox[t] # <<>> /\ Head(outbox[t]).kind = kind
Done(t) == outbox' = [outbox EXCEPT ![t] = Tail(@)]

\* The bridge asks once per scope for the generation, which the worker mints
\* when there is none.
Bind(t) ==
    /\ outbox[t] # <<>> /\ Head(outbox[t]).kind # "clear"
    /\ session[t].scope # Head(outbox[t]).scope
    /\ minted' = IF generation = NoGeneration THEN minted + 1 ELSE minted
    /\ generation' = IF generation = NoGeneration THEN minted' ELSE generation
    /\ session' = [session EXCEPT ![t] = [scope |-> Head(outbox[t]).scope,
                                          generation |-> generation']]
    /\ UNCHANGED <<appVars, outbox, tries, retired, stored, confirmed, restarts>>

Bound(t) ==
    /\ Sent(t, "bind") /\ session[t].scope = Head(outbox[t]).scope
    /\ Done(t)
    /\ UNCHANGED <<appVars, session, tries, workerVars>>

Retired(sc) == LET all == Append(SelectSeq(retired, LAMBDA r : r # sc), sc)
               IN  SubSeq(all, Len(all) - (IF Len(all) < MaxRetired THEN Len(all) ELSE MaxRetired) + 1,
                          Len(all))

\* syncDeckMetadata; a refused sync is dropped.
Sync(t) ==
    LET sc == session[t].scope
    IN  /\ Sent(t, "sync") /\ sc = Head(outbox[t]).scope
        /\ IF session[t].generation = generation /\ ~Contains(retired, sc)
           THEN /\ retired' = IF stored \in {NoScope, sc} THEN retired ELSE Retired(stored)
                /\ stored' = sc /\ confirmed' = sc
           ELSE UNCHANGED <<retired, stored, confirmed>>
        /\ Done(t)
        /\ UNCHANGED <<appVars, session, tries, generation, minted, restarts>>

\* clearDeckMetadata, tried again until it is acknowledged or given up.
Clear(t) ==
    LET sc == Head(outbox[t]).scope
        heard == session[t].scope = sc /\ generation # NoGeneration
                 /\ session[t].generation = generation
    IN  /\ Sent(t, "clear")
        /\ IF heard
           THEN /\ retired' = Retired(sc)
                /\ generation' = NoGeneration
                /\ stored' = IF stored = sc THEN NoScope ELSE stored
                /\ confirmed' = IF confirmed = sc THEN NoScope ELSE confirmed
                /\ session' = [session EXCEPT ![t] = NoSession]
           ELSE UNCHANGED <<retired, generation, stored, confirmed, session>>
        /\ IF heard \/ tries[t] = 0
           THEN Done(t) /\ tries' = [tries EXCEPT ![t] = Retries]
           ELSE tries' = [tries EXCEPT ![t] = @ - 1] /\ UNCHANGED outbox
        /\ UNCHANGED <<appVars, minted, restarts>>

\* A new worker knows of no live scope until a tab publishes again.
Restart ==
    /\ restarts < MaxRestarts
    /\ restarts' = restarts + 1
    /\ confirmed' = NoScope
    /\ UNCHANGED <<appVars, bridgeVars, generation, retired, stored, minted>>

Next ==
    \/ \E o \in Owners \union {Nobody} : ChangeOwner(o)
    \/ \E t \in Tabs : Notice(t) \/ Publish(t) \/ Bind(t) \/ Bound(t) \/ Sync(t) \/ Clear(t)
    \/ Restart

DeckSpec == Init /\ [][Next]_vars

-----------------------------------------------------------------------------
\* GET_DECKS: what the popup shows.
Shown == IF stored = confirmed THEN stored ELSE NoScope

AtRest == \A t \in Tabs : seen[t] = owner /\ outbox[t] = <<>>

\* The cache of deck names "is cleared on account change or sign-out"
\* (extensions/lingoflash/README.md): when every tab of the app has seen who
\* is signed in and every bridge has passed on what it had to, the popup shows
\* nobody else's decks.
SignOutHidesDecks ==
    AtRest /\ Shown # NoScope => ownerOf[Shown] = owner
=============================================================================
