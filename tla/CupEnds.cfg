\* A cup of two entries ends, with a slow start, an action of an admin and a restart at any time
CONSTANTS
    e1 = e1
    e2 = e2
    e3 = e3
    Entry = {e1, e2}
    NoEntry = NoEntry
    Game = {g1, g2}
    NoGame = NoGame
    Rating <- TwoRatings
    MaxEntrants = 3
    MaxStarts = 2
    MaxSlow = 1
    MaxOps = 1
    MaxCrashes = 1
SPECIFICATION FairSpec
PROPERTIES
    CupEnds
\* A cup that is over stops
CHECK_DEADLOCK FALSE
