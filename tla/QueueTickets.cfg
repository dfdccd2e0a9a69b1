\* Joins, leaves, party changes, claims, failed matches and challenges of two players, four requests of one mix
CONSTANTS
    a = a
    b = b
    g1 = g1
    g2 = g2
    t1 = t1
    t2 = t2
    m1 = m1
    m2 = m2
    k1 = k1
    k2 = k2
    w1 = w1
    w2 = w2
    NoParty = NoParty
    NoPlayer = NoPlayer
    NoTicket = NoTicket
    NoMatch = NoMatch
    Player = {a, b}
    Party = {g1, g2}
    Ticket = {t1, t2}
    Mode = {m1, m2}
    Match = {k1, k2}
    Worker = {w1, w2}
    MaxPartySize = 2
    MaxInvites = 2
    MaxCrashes = 1
    MaxPasses = 1
    MaxRequests = 4
    Mixes = {{"join", "leave", "claim", "fail"},
        {"join", "party", "claim", "fail"},
        {"join", "party", "kick"},
        {"join", "challenge", "withdraw"}}
SPECIFICATION Spec
INVARIANTS
    ClaimedOnce
    WaitingIsQueued
    PartiesStand
SYMMETRY Symmetry
\* When all tickets and matches are used the queue stops
CHECK_DEADLOCK FALSE
