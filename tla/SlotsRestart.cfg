\* One match on two hosts: a stop may fail and the API may restart once at any point
CONSTANTS
    s1 = s1
    s2 = s2
    h1 = h1
    h2 = h2
    k1 = k1
    k2 = k2
    cup = cup
    duel = duel
    None = None
    Match = {cup}
    Tournament = {cup}
    Slot = {s1, s2}
    Token = {k1, k2}
    Host = {h1, h2}
    HostOf <- OneSlotPerHost
    MaxHostTries = 1
    StopFailures = 1
    MaxCrashes = 1
SPECIFICATION FairSpec
INVARIANTS
    ServedByItsOwn

    
\* Matches that are over stop
CHECK_DEADLOCK FALSE
