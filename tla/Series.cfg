\* A best of three over two servers: webhooks lost and repeated, a reload of the plugin or a restart of the API
CONSTANTS
    Side = {a, b}
    BestOf = 3
    MaxMatches = 2
    MaxOutbox = 2
    MaxInFlight = 2
    MaxFaults = 1
SPECIFICATION Spec
INVARIANTS
    WinnerHasMoreMaps
    ServerAgrees
PROPERTIES
    DecidedStays
VIEW View
SYMMETRY Symmetry
\* A series that is over stops
CHECK_DEADLOCK FALSE
