\* A reload of the plugin while the next map is being loaded
CONSTANTS
    Side = {a, b}
    BestOf = 3
    MaxMatches = 1
    MaxOutbox = 2
    MaxInFlight = 2
    MaxFaults = 1
SPECIFICATION Spec
INVARIANTS
    NoMapSkipped
\* A series that is over stops
CHECK_DEADLOCK FALSE
