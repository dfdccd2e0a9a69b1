\* All answers, deadlines and absences of a match of four on three tickets; queues of up to five
\* tickets; vetoes over up to seven maps, or over the rooms of one map and of a series; players at the
\* edges of each rule of trust; two matches and two rollbacks at once; three reports and two admins; a
\* tab that opens its socket twice; a map of Rush with one reload and one drawn round
CONSTANTS
    ann = ann
    bob = bob
    cat = cat
    dan = dan
    t1 = t1
    t2 = t2
    t3 = t3
    Player = {ann, bob, cat, dan}
    TeamA = {ann, bob}
    TeamB = {cat, dan}
    Ticket = {t1, t2, t3}
    TicketOf <- MCTicketOf
    MaxCandidates = 3
    MixAfter = 60
    MaxTickets = 5
    Bo1Pools = {3}
    Bo3Pools = {5, 6, 7}
    FirstTeams = {2}
    AnyVote = FALSE
    VerifiedMinMatches = 5
    TrustedMinMatches = 150
    TrustedMinAccountDays = 365
    BanGraceDays = 1825
    g1 = g1
    g2 = g2
    RatedPlayer = {ann, bob, cat, dan}
    Game = {g1, g2}
    Lineup <- GameLineup
    Preceding <- SmallerIds
    Excluded = {{}, {dan}}
    Tx = {x1, x2}
    NoTx = NoTx
    MaxRollbacks = 2
    r1 = r1
    r2 = r2
    r3 = r3
    a1 = a1
    a2 = a2
    Reporter = {r1, r2, r3}
    Admin = {a1, a2}
    Trusted = {r3}
    Suspect = suspect
    MaxCases = 2
    MaxClaims = 1
    m1 = m1
    m2 = m2
    Topic = {m1, m2}
    MaxSubscriptions = 1
    MaxSockets = 2
    MaxSent = 2
    Draws = {{}, {4}}
    MaxFaults = 1
    MaxDraws = 1
    None = None
    NoSocket = NoSocket
SPECIFICATION Spec
INVARIANTS
    BlameIsJust
    PassIsComplete
    VetoStands
    TrustAgrees
    
    NoReportForgotten
    SubscriptionsKept
    RushIsMirrored
PROPERTIES
    RulingStands
SYMMETRY Symmetry
\* An input is complete at some point
CHECK_DEADLOCK FALSE
