\* A cup of up to three entries and two matches: a slow start, an action of an admin and a restart, at any time
CONSTANTS
    e1 = e1
    e2 = e2
    e3 = e3
    Entry = {e1, e2, e3}
    NoEntry = NoEntry
    Game = {g1, g2}
    NoGame = NoGame
    Rating <- ThreeRatings
    MaxEntrants = 3
    MaxStarts = 2
    MaxSlow = 1
    MaxOps = 1
    MaxCrashes = 1
SPECIFICATION Spec
INVARIANTS
    BracketIsTree
    NoGameForNothing
    BadgesAreEarned
PROPERTIES
    DoneIsFinal
\* A cup that is over stops
CHECK_DEADLOCK FALSE
