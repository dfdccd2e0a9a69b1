\* Two servers on two ports, requested updates and one restart of the agent
CONSTANTS
    s1 = s1
    s2 = s2
    m1 = m1
    m2 = m2
    p1 = p1
    p2 = p2
    NoServer = NoServer
    NoMatch = NoMatch
    NoPort = NoPort
    Server = {s1, s2}
    Match = {m1, m2}
    Port = {p1, p2}
    MaxCrashes = 1
SPECIFICATION Spec
INVARIANTS
    SlotsAreServers
    UpdateRunsAlone
PROPERTIES
    CrashIsReal
    StopFreesTheSlot
    DrainEnds
\* A host whose servers are used up has nothing to do
CHECK_DEADLOCK FALSE
