\* A start that is still under way when its match is cancelled leaves a server nobody stops
CONSTANTS
    s1 = s1
    s2 = s2
    h1 = h1
    h2 = h2
    k1 = k1
    k2 = k2
    cup = cup
    duel = duel
    None = None
    Match = {duel}
    Tournament = {}
    Slot = {s1, s2}
    Token = {k1, k2}
    Host = {h1, h2}
    HostOf <- OneSlotPerHost
    MaxHostTries = 1
    StopFailures = 0
    MaxCrashes = 0
SPECIFICATION Spec
INVARIANTS
    ReleasedIsGone
\* Matches that are over stop
CHECK_DEADLOCK FALSE
