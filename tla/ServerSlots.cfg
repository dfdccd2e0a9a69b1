\* Two queued matches compete for the two slots of a host. A stop may fail
CONSTANTS
    s1 = s1
    s2 = s2
    h1 = h1
    h2 = h2
    k1 = k1
    k2 = k2
    cup = cup
    duel = duel
    None = None
    Match = {cup, duel}
    Tournament = {}
    Slot = {s1, s2}
    Token = {k1, k2}
    Host = {h1}
    HostOf <- OneHost
    MaxHostTries = 2
    StopFailures = 1
    MaxCrashes = 0
SPECIFICATION Spec
INVARIANTS
    ServedByItsOwn
SYMMETRY Symmetry
\* Matches that are over stop
CHECK_DEADLOCK FALSE
