\* Two tabs of one owner who signs in and out again.
SPECIFICATION DeckSpec
CONSTANTS
    t1 = t1
    t2 = t2
    o1 = o1
    Tabs <- TwoTabs
    Owners <- OneOwner
    MaxScopes = 2
    MaxChanges = 2
    MaxRestarts = 0
    MaxRetired = 16
    Retries = 3
    Nobody = Nobody
INVARIANT SignOutHidesDecks
CHECK_DEADLOCK FALSE
