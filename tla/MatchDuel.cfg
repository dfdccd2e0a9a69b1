\* A queued duel from the accept window to the end, one webhook handled at a time, one restart of the API
CONSTANTS
    a = a
    b = b
    t1 = t1
    t2 = t2
    Player = {a, b}
    TeamA = {a}
    TeamB = {b}
    Ticket = {t1, t2}
    TicketOf <- SoloTicketOf
    Sources = {"queue"}
    VetoSteps = 1
    Rounds = 1
    MaxOutbox = 1
    MaxInFlight = 1
    MaxCrashes = 1
SPECIFICATION Spec
INVARIANTS
    TypeOK
    RatedOnce
    NobodysFault
    ResultOnce
    
    AllAcceptedBeforeVeto
    BlameNeedsProof
    AcceptedNotPunished
    WaitingTicketIsFree
PROPERTIES
    TerminalIsFinal
    KeepsPromise
VIEW SafetyView
\* A match that is over stops
CHECK_DEADLOCK FALSE
