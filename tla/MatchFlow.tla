------------------------------ MODULE MatchFlow ------------------------------
(***************************************************************************)
(* Life of one single-map match: apps/api/src/modules/match/flow.ts.       *)
(*                                                                         *)
(* The row in `matches` is the state and every transaction that locks it   *)
(* is one action.  What the code reads before it takes that lock and uses  *)
(* after is kept in a variable of its own (inbox, connectMissing, verdict, *)
(* allocExpired), so another handler can run in between.  What a handler   *)
(* still has to do after its commit is kept in `owed` and done step by     *)
(* step; a crash of the API process loses it.                              *)
(*                                                                         *)
(* Time is abstract: a deadline that is armed in the current status may    *)
(* pass at any moment (due), and is re-armed when the code sets it anew.   *)
(* Bounds: VetoSteps, Rounds, MaxInFlight (webhook requests being handled  *)
(* at once) and MaxCrashes (restarts of the API).                          *)
(***************************************************************************)
EXTENDS AcceptRules, GameServer, FiniteSets

CONSTANTS
    Sources,    \* the kinds of match looked at
    VetoSteps, MaxInFlight, MaxCrashes

ASSUME SourcesAssumption == Sources \subseteq {"queue", "challenge", "tournament"}
ASSUME FlowBounds == VetoSteps \in Nat /\ MaxInFlight \in Nat /\ MaxCrashes \in Nat

VARIABLES
    source,         \* "queue", "challenge" or "tournament"
    reserved,       \* the row was created with a slot (tournament path)
    status, cancelReason, winner, ratingApplied,
    score,          \* round whose round_end wrote matches.score, Rounds + 1 for the final score
    readyAt,        \* server_ready was recorded
    connect,        \* the row has host, address and connect string
    serverReleased, \* matches.serverReleasedAt is set
    accepted, declined, everConnected,  \* flags of match_players
    stepsLeft,      \* veto steps still to resolve
    due,            \* deadlines that have passed
    inbox,          \* webhooks past the terminal check of handleEvent, not yet applied
    alloc,          \* holder of the allocation lease: "idle" or "calling" a driver
    allocExpired,   \* what the holder computed before the call
    timer,          \* where timersTick stands: "idle", "stale" or "stuck" when it selected the match,
                    \* "read" when expireConnect has read the players
    connectMissing, \* what that read returned
    verdict,        \* the watchdog's finding, not yet acted on
    owed,           \* effects the handler that ended the match has still to run
    ticket,         \* queue_tickets.status of the tickets the match consumed
    cooldown,       \* rows of cooldowns issued for this match
    ratings,        \* times the ratings of this match were applied
    results,        \* times the result listeners were called
    crashes

rowVars == <<status, cancelReason, winner, ratingApplied, ratings, owed, due>>
fixedVars == <<source, reserved>>
serverVars == <<readyAt, connect>>
answerVars == <<accepted, declined>>
loopVars == <<alloc, allocExpired, timer, connectMissing, verdict>>
tableVars == <<ticket, cooldown, results, serverReleased>>

matchVars == <<rowVars, fixedVars, serverVars, answerVars, loopVars, tableVars,
               score, everConnected, stepsLeft, inbox, crashes>>
vars == <<matchVars, gameVars>>

-----------------------------------------------------------------------------
Terminal == {"finished", "abandoned", "cancelled"}
PreLive == {"allocating", "starting", "ready"}
Watched_NoLive == {"starting", "ready"}
Watched == {"starting", "ready", "live"}
Status == {"accepting", "veto", "live"} \cup PreLive \cup Terminal

Ended == status \in Terminal
Held == connect \/ reserved
Final == Rounds + 1

\* Deadlines the code compares with now() in each status
Armed(s) ==
    CASE s = "accepting"              -> {"accept"}
      [] s = "veto"                   -> {"step"}
      [] s = "allocating"             -> {"alloc"}
      [] s = "starting"               -> {"start", "cap"}
      [] s = "ready"                  -> {"connect", "cap"}
      [] s = "live"                   -> {"cap"}
      [] s \in {"finished", "abandoned"} -> {"demo"}
      [] OTHER                        -> {}

\* What a handler still has to do: cooldowns to issue, the server to release, tickets to cancel
\* and to put back, listeners to call
Effects(cooldowns, release, drop, requeue, emit) ==
    [cooldowns |-> cooldowns, release |-> release, drop |-> drop, requeue |-> requeue, emit |-> emit]
Nothing == Effects({}, FALSE, {}, {}, FALSE)

-----------------------------------------------------------------------------
\* createFromQueue opens the accept window. createTournamentMatch and createDirectMatch
\* insert everyone as accepted and go on to the veto or the allocation in the same transaction
Init ==
    /\ source \in Sources
    /\ reserved \in IF source = "tournament" THEN BOOLEAN ELSE {FALSE}
    /\ IF source = "queue"
       THEN status = "accepting" /\ accepted = {} /\ stepsLeft = 0
       ELSE /\ accepted = Player
            /\ \/ VetoSteps > 0 /\ status = "veto" /\ stepsLeft = VetoSteps
               \/ status = "allocating" /\ stepsLeft = 0
    /\ cancelReason = "none" /\ winner = "none" /\ ratingApplied = FALSE /\ score = 0
    /\ readyAt = FALSE /\ connect = FALSE /\ serverReleased = FALSE
    /\ declined = {} /\ everConnected = {}
    /\ due = {} /\ inbox = {} /\ owed = Nothing
    /\ alloc = "idle" /\ allocExpired = FALSE
    /\ timer = "idle" /\ connectMissing = {} /\ verdict = "none"
    /\ ticket = [t \in Ticket |-> IF source = "queue" THEN "matched" ELSE "none"]
    /\ cooldown = {} /\ ratings = 0 /\ results = 0
    /\ GameInit
    /\ crashes = 0

-----------------------------------------------------------------------------
\* The transactions that end the row. Each is a no-op when another one got there first

\* `tail` is what the handler still owes after its commit. applyMatch skips challenges
EndRow(newStatus, reason, win, rated, tail) ==
    /\ status' = newStatus
    /\ cancelReason' = reason
    /\ winner' = win
    /\ ratingApplied' = rated
    /\ ratings' = IF rated /\ source # "challenge" THEN ratings + 1 ELSE ratings
    /\ owed' = tail
    /\ due' = {}

\* Queue players can go back in the queue. deferRelease leaves the server to the teardown
CancelRow(reason, requeue, deferRelease) ==
    LET tickets == IF source = "queue" THEN TicketsOfPlayers ELSE {}
    IN  EndRow("cancelled", reason, winner, ratingApplied,
               Effects({}, ~deferRelease, IF requeue THEN {} ELSE tickets,
                       IF requeue THEN tickets ELSE {}, TRUE))

CancelMatch_NoGuard(reason, requeue, deferRelease) == CancelRow(reason, requeue, deferRelease)

CancelMatch_Silent(reason, requeue, deferRelease) ==
    IF Ended THEN UNCHANGED rowVars ELSE EndRow("cancelled", reason, winner, ratingApplied, Nothing)

CancelMatch(reason, requeue, deferRelease) ==
    IF Ended THEN UNCHANGED rowVars ELSE CancelRow(reason, requeue, deferRelease)

\* A draw or an unknown team name leaves ratings alone
FinishRow(w) ==
    /\ EndRow("finished", cancelReason, IF w \in Team THEN w ELSE "none", w \in Team,
              Effects({}, FALSE, {}, {}, TRUE))
    /\ score' = Final

FinishMatch_NoGuard(w) == FinishRow(w)

FinishMatch(w) ==
    IF Ended \/ ratingApplied THEN UNCHANGED <<rowVars, score>> ELSE FinishRow(w)

\* Penalties need proof the server was reachable: someone of the other team connected
Penalized_All(forfeiters) == forfeiters

Penalized(forfeiters) == {p \in forfeiters : OtherTeam(p) \cap everConnected # {}}

\* A forfeit is rated only when the winning side connected
AbandonMatch(missing, reason) ==
    LET outcome == ResolveAbandon(missing)
        rated == /\ outcome.kind = "forfeit"
                 /\ TeamOf(Opponent(outcome.loser)) \cap everConnected # {}
        cooldowns == {<<p, IF p \in everConnected THEN "abandon" ELSE "no_connect">> :
                        p \in Penalized(outcome.forfeiters)}
    IN  IF Ended \/ ratingApplied
        THEN UNCHANGED rowVars
        ELSE EndRow(IF outcome.forfeiters # {} THEN "abandoned" ELSE "cancelled",
                    IF everConnected = {} THEN "server_unreachable" ELSE reason,
                    IF rated THEN Opponent(outcome.loser) ELSE "none",
                    rated,
                    Effects(cooldowns, FALSE, {}, {}, TRUE))

-----------------------------------------------------------------------------
\* Accept window

EnterPostAccept_ExtraStep ==
    /\ status' = "veto" /\ stepsLeft' = VetoSteps + 1
    /\ due' = {}
    /\ UNCHANGED <<cancelReason, winner, ratingApplied, ratings, owed>>

\* Starts the veto, or goes straight to the allocation when the mode or the caller fixes the map
EnterPostAccept ==
    /\ \/ VetoSteps > 0 /\ status' = "veto" /\ stepsLeft' = VetoSteps
       \/ status' = "allocating" /\ stepsLeft' = 0
    /\ due' = {}
    /\ UNCHANGED <<cancelReason, winner, ratingApplied, ratings, owed>>

AcceptTail_NoRequeue(outcome) ==
    Effects(outcome.penalize \X {"decline"}, FALSE, outcome.dropTickets, {}, FALSE)

AcceptTail_RequeueAll(outcome) ==
    LET reason == IF outcome.reason = "declined" THEN "decline" ELSE "accept_timeout"
    IN  Effects(outcome.penalize \X {reason}, FALSE,
                {}, outcome.requeueTickets \cup outcome.dropTickets, FALSE)

AcceptTail(outcome) ==
    LET reason == IF outcome.reason = "declined" THEN "decline" ELSE "accept_timeout"
    IN  Effects(outcome.penalize \X {reason}, FALSE,
                outcome.dropTickets, outcome.requeueTickets, FALSE)

ApplyAcceptOutcome(outcome) ==
    CASE outcome.kind = "pending" -> UNCHANGED <<rowVars, stepsLeft>>
      [] outcome.kind = "all_accepted" -> EnterPostAccept
      [] OTHER -> /\ EndRow("cancelled",
                            IF outcome.reason = "declined" THEN "accept_declined" ELSE "accept_timeout",
                            winner, ratingApplied, AcceptTail(outcome))
                  /\ UNCHANGED stepsLeft

\* An answer after the deadline is not recorded, but it resolves the window as timed out
Respond(p, accept) ==
    LET timedOut == "accept" \in due
    IN  /\ status = "accepting"
        /\ accepted' = IF accept /\ ~timedOut THEN accepted \cup {p} ELSE accepted
        /\ declined' = IF ~accept /\ ~timedOut THEN declined \cup {p} ELSE declined
        /\ ApplyAcceptOutcome(ResolveAccept(accepted', declined', timedOut))
        /\ UNCHANGED <<fixedVars, serverVars, loopVars, tableVars, gameVars,
                       score, everConnected, inbox, crashes>>

ExpireAccept ==
    /\ status = "accepting"
    /\ "accept" \in due
    /\ ApplyAcceptOutcome(ResolveAccept(accepted, declined, TRUE))
    /\ UNCHANGED <<fixedVars, serverVars, answerVars, loopVars, tableVars, gameVars,
                   score, everConnected, inbox, crashes>>

-----------------------------------------------------------------------------
\* Veto

\* saveVeto with a resolved step: a new step deadline, or the map is known and allocation starts
SaveVeto ==
    /\ status = "veto"
    /\ stepsLeft > 0
    /\ stepsLeft' = stepsLeft - 1
    /\ due' = {}
    /\ status' = IF stepsLeft = 1 THEN "allocating" ELSE "veto"
    /\ UNCHANGED <<cancelReason, winner, ratingApplied, ratings, owed, fixedVars, serverVars,
                   answerVars, loopVars, tableVars, gameVars, score, everConnected, inbox, crashes>>

\* The vote that completes a step. It is not checked against the step deadline
Vote == SaveVeto

ExpireVetoStep == "step" \in due /\ SaveVeto

-----------------------------------------------------------------------------
\* Allocation

notAlloc == <<fixedVars, answerVars, timer, connectMissing, verdict, tableVars,
              score, everConnected, stepsLeft, inbox, crashes>>

\* tryAllocate gives up before any server is asked for
AllocRefused ==
    /\ alloc = "idle"
    /\ status = "allocating"
    /\ \/ CancelMatch("mode_unavailable", FALSE, FALSE)
       \/ CancelMatch("unknown_map", TRUE, FALSE)
    /\ UNCHANGED <<notAlloc, serverVars, alloc, allocExpired, gameVars>>

\* allocate() found no server. The match waits for the next tick until the timeout
AllocWait ==
    /\ alloc = "idle"
    /\ status = "allocating"
    /\ "alloc" \in due
    /\ CancelMatch("no_server", TRUE, FALSE)
    /\ UNCHANGED <<notAlloc, serverVars, alloc, allocExpired, gameVars>>

\* The lease is taken, the row read, and a driver is asked to start the server
AllocStart ==
    /\ alloc = "idle"
    /\ status = "allocating"
    /\ alloc' = "calling"
    /\ allocExpired' = ("alloc" \in due)
    /\ StartServer
    /\ UNCHANGED <<notAlloc, rowVars, serverVars>>

\* The start call failed and the server is stopped. A late failure ends the match
AllocFailed ==
    /\ alloc = "calling"
    /\ alloc' = "idle"
    /\ IF allocExpired THEN CancelMatch("server_start_failed", TRUE, FALSE) ELSE UNCHANGED rowVars
    /\ allocExpired' = FALSE
    /\ StopServer
    /\ UNCHANGED <<notAlloc, serverVars>>

\* The start call returned. Connect info is stored in any pre-live status, and a server_ready
\* that came first is released here. A match that ended meanwhile only has its server stopped
StartReturned ==
    /\ alloc = "calling"
    /\ alloc' = "idle"
    /\ allocExpired' = FALSE
    /\ UNCHANGED <<notAlloc, cancelReason, winner, ratingApplied, ratings, owed, readyAt>>

AttachServer ==
    /\ status' = IF status = "ready" \/ (status = "allocating" /\ readyAt) THEN "ready" ELSE "starting"
    /\ connect' = TRUE
    /\ due' = {}
    /\ UNCHANGED gameVars

StoreConnect_NoGuard == StartReturned /\ AttachServer

StoreConnect ==
    /\ StartReturned
    /\ IF status \in PreLive THEN AttachServer ELSE StopServer /\ UNCHANGED <<status, connect, due>>

-----------------------------------------------------------------------------
\* Webhooks. handleEvent reads the row without a lock and drops events of a match that is over;
\* the event is applied later, whatever happened to the row in between

notHook == <<fixedVars, answerVars, loopVars, tableVars, gameVars, stepsLeft, crashes>>

Receive(e) ==
    /\ e \in Deliverables
    /\ e \notin inbox
    /\ ~Ended
    /\ Cardinality(inbox) < MaxInFlight
    /\ inbox' = inbox \cup {e}
    /\ UNCHANGED <<notHook, rowVars, serverVars, score, everConnected>>

Take(e) ==
    /\ e \in inbox
    /\ inbox' = inbox \ {e}

\* Before start() returns there is no connect info, so only the ready moment is recorded
OnServerReady ==
    /\ Take(ServerReady)
    /\ readyAt' = (readyAt \/ status \in {"allocating", "starting"})
    /\ IF status = "starting"
       THEN status' = "ready" /\ due' = {}
       ELSE UNCHANGED <<status, due>>
    /\ UNCHANGED <<notHook, cancelReason, winner, ratingApplied, ratings, owed, connect, score, everConnected>>

OnPlayerConnected(p) ==
    /\ Take(PlayerConnected(p))
    /\ everConnected' = everConnected \cup {p}
    /\ UNCHANGED <<notHook, rowVars, serverVars, score>>

OnMatchStarted ==
    /\ Take(MatchStarted)
    /\ IF status \in {"starting", "ready"}
       THEN status' = "live" /\ due' = {}
       ELSE UNCHANGED <<status, due>>
    /\ UNCHANGED <<notHook, cancelReason, winner, ratingApplied, ratings, owed, serverVars, score, everConnected>>

OnRoundEnd(n) ==
    /\ Take(RoundEnd(n))
    /\ score' = n
    /\ UNCHANGED <<notHook, rowVars, serverVars, everConnected>>

OnMatchEnd(w) ==
    /\ Take(MatchEnd(w))
    /\ FinishMatch(w)
    /\ UNCHANGED <<notHook, serverVars, everConnected>>

\* A crashed server is nobody's fault. No rating change and no cooldown
OnMatchAbandoned(reason, missing) ==
    /\ Take(MatchAbandoned(reason, missing))
    /\ IF reason \in ServerFault
       THEN CancelMatch(reason, FALSE, FALSE)
       ELSE AbandonMatch(missing, reason)
    /\ UNCHANGED <<notHook, serverVars, score, everConnected>>

-----------------------------------------------------------------------------
\* timersTick. The rows to end are selected first and ended one after the other

notTimer == <<fixedVars, serverVars, answerVars, tableVars, gameVars, alloc, allocExpired, verdict,
              score, everConnected, stepsLeft, inbox, crashes>>

SelectStaleReady ==
    /\ timer = "idle"
    /\ status = "ready"
    /\ "connect" \in due
    /\ timer' = "stale"
    /\ UNCHANGED <<notTimer, rowVars, connectMissing>>

\* expireConnect reads the players outside the transaction that ends the match
ReadMissing ==
    /\ timer = "stale"
    /\ timer' = "read"
    /\ connectMissing' = Player \ everConnected
    /\ UNCHANGED <<notTimer, rowVars>>

ExpireConnect ==
    /\ timer = "read"
    /\ timer' = "idle"
    /\ connectMissing' = {}
    /\ IF connectMissing = {}
       THEN CancelMatch("never_started", FALSE, TRUE)
       ELSE AbandonMatch(connectMissing, "connect_timeout")
    /\ UNCHANGED notTimer

SelectStuck ==
    /\ timer = "idle"
    /\ status = "starting"
    /\ "start" \in due
    /\ timer' = "stuck"
    /\ UNCHANGED <<notTimer, rowVars, connectMissing>>

CancelStuck ==
    /\ timer = "stuck"
    /\ timer' = "idle"
    /\ CancelMatch("server_never_ready", FALSE, TRUE)
    /\ UNCHANGED <<notTimer, connectMissing>>

-----------------------------------------------------------------------------
\* Watchdog and teardown

notWatch == <<fixedVars, serverVars, answerVars, tableVars, gameVars, alloc, allocExpired,
              timer, connectMissing, score, everConnected, stepsLeft, inbox, crashes>>

\* inspect() works on rows and server lists read before the verdict is used. A host may not
\* list the server, or a live match is silent too long, at any time
InspectLost ==
    /\ verdict = "none"
    /\ status \in Watched
    /\ verdict' = "server_lost"
    /\ UNCHANGED <<notWatch, rowVars>>

InspectTimeout ==
    /\ verdict = "none"
    /\ status \in Watched
    /\ "cap" \in due
    /\ verdict' = "timeout"
    /\ UNCHANGED <<notWatch, rowVars>>

EndLostRow ==
    EndRow("abandoned", verdict, "none", ratingApplied, Effects({}, TRUE, {}, {}, TRUE))

Judge(rowStep) ==
    /\ verdict # "none"
    /\ verdict' = "none"
    /\ rowStep
    /\ UNCHANGED notWatch

EndLost_NoGuard == Judge(EndLostRow)

EndLost == Judge(IF status \in Watched /\ ~ratingApplied THEN EndLostRow ELSE UNCHANGED rowVars)

TeardownWhen(trigger) ==
    /\ Ended
    /\ ~serverReleased
    /\ trigger
    /\ serverReleased' = TRUE
    /\ StopServer
    /\ UNCHANGED <<rowVars, fixedVars, serverVars, answerVars, loopVars, ticket, cooldown, results,
                   score, everConnected, stepsLeft, inbox, crashes>>

Teardown_DemoOnly == TeardownWhen("demo" \in due)

\* By demo_uploaded or once the demo wait is over (both are the "demo" deadline here), or by the
\* allocation loop when a cancelled row still names a server or a slot
Teardown == TeardownWhen("demo" \in due \/ (status = "cancelled" /\ Held))

-----------------------------------------------------------------------------
\* What the handler that ended the match does after its commit, in this order

notTail == <<status, cancelReason, winner, ratingApplied, ratings, due, fixedVars, serverVars, answerVars,
             loopVars, score, everConnected, stepsLeft, inbox, crashes>>

IssueCooldown ==
    \E c \in owed.cooldowns :
        /\ cooldown' = cooldown \cup {c}
        /\ owed' = [owed EXCEPT !.cooldowns = @ \ {c}]
        /\ UNCHANGED <<notTail, gameVars, ticket, results, serverReleased>>

ReleaseServer ==
    /\ owed.cooldowns = {}
    /\ owed.release
    /\ owed' = [owed EXCEPT !.release = FALSE]
    /\ serverReleased' = TRUE
    /\ StopServer
    /\ UNCHANGED <<notTail, ticket, cooldown, results>>

CancelTicket ==
    /\ owed.cooldowns = {} /\ ~owed.release
    /\ \E t \in owed.drop :
        /\ ticket' = [ticket EXCEPT ![t] = "cancelled"]
        /\ owed' = [owed EXCEPT !.drop = @ \ {t}]
    /\ UNCHANGED <<notTail, gameVars, cooldown, results, serverReleased>>

\* requeue() puts the ticket back, or cancels it when its party changed or queued again
RequeueTicket ==
    /\ owed.cooldowns = {} /\ ~owed.release /\ owed.drop = {}
    /\ \E t \in owed.requeue, s \in {"waiting", "cancelled"} :
        /\ ticket' = [ticket EXCEPT ![t] = s]
        /\ owed' = [owed EXCEPT !.requeue = @ \ {t}]
    /\ UNCHANGED <<notTail, gameVars, cooldown, results, serverReleased>>

Emit ==
    /\ owed.emit
    /\ owed' = [owed EXCEPT !.emit = FALSE]
    /\ results' = results + 1
    /\ UNCHANGED <<notTail, gameVars, ticket, cooldown, serverReleased>>

EmitResult_Early == Emit

EmitResult ==
    /\ owed.cooldowns = {} /\ ~owed.release /\ owed.drop = {} /\ owed.requeue = {}
    /\ Emit

-----------------------------------------------------------------------------
\* Clock, admin, crash

Elapse(d) ==
    /\ d \in Armed(status) \ due
    /\ due' = due \cup {d}
    /\ UNCHANGED <<status, cancelReason, winner, ratingApplied, ratings, owed, fixedVars, serverVars,
                   answerVars, loopVars, tableVars, gameVars, score, everConnected, stepsLeft, inbox, crashes>>

AdminCancel ==
    /\ ~Ended
    /\ CancelMatch("admin", FALSE, FALSE)
    /\ UNCHANGED <<fixedVars, serverVars, answerVars, loopVars, tableVars, gameVars,
                   score, everConnected, stepsLeft, inbox, crashes>>

\* The API process dies: everything it held in memory is gone, Postgres keeps the rows
Crash ==
    /\ crashes < MaxCrashes
    /\ crashes' = crashes + 1
    /\ inbox' = {} /\ owed' = Nothing
    /\ alloc' = "idle" /\ allocExpired' = FALSE
    /\ timer' = "idle" /\ connectMissing' = {} /\ verdict' = "none"
    /\ UNCHANGED <<status, cancelReason, winner, ratingApplied, ratings, due, fixedVars, serverVars,
                   answerVars, tableVars, gameVars, score, everConnected, stepsLeft>>

-----------------------------------------------------------------------------
\* The game server. What it does after the match is over reaches nobody: handleEvent drops it

Server(step) ==
    /\ ~Ended
    /\ step
    /\ UNCHANGED <<rowVars, fixedVars, serverVars, answerVars, loopVars, tableVars,
                   score, everConnected, stepsLeft, inbox, crashes>>

Join_AnyTime(p) == Connect(p)

\* Players learn the address from the stored connect info
Join(p) == connect /\ Connect(p)

-----------------------------------------------------------------------------
Webhook ==
    \/ \E e \in Deliverables : Receive(e)
    \/ OnServerReady
    \/ \E p \in Player : OnPlayerConnected(p)
    \/ OnMatchStarted
    \/ \E n \in 1..Rounds : OnRoundEnd(n)
    \/ \E w \in Winner : OnMatchEnd(w)
    \/ \E r \in PlayerFault \cup ServerFault, m \in SUBSET Player : OnMatchAbandoned(r, m)

Users ==
    \/ \E p \in Player, a \in BOOLEAN : Respond(p, a)
    \/ Vote
    \/ AdminCancel

\* What the timers and the allocation loop of startLoops pick up. A watchdog verdict on a lost
\* server is not among them: nothing says that a host ever reports one
Loops ==
    \/ AllocRefused \/ AllocWait \/ AllocStart
    \/ ExpireAccept \/ ExpireVetoStep \/ SelectStaleReady \/ SelectStuck
    \/ InspectTimeout \/ Teardown

\* Handlers and loop passes that are under way
InProgress ==
    \/ AllocFailed \/ StoreConnect
    \/ ReadMissing \/ ExpireConnect \/ CancelStuck \/ EndLost
    \/ IssueCooldown \/ ReleaseServer \/ CancelTicket \/ RequeueTicket \/ EmitResult

Clock == \E d \in {"accept", "step", "alloc", "start", "connect", "cap", "demo"} : Elapse(d)

Game ==
    \/ Server(WarmupStart) \/ Server(GoLive) \/ Server(EndRound)
    \/ \E p \in Player : Server(Join(p)) \/ Server(Disconnect(p))
    \/ \E w \in Winner : Server(FinishMap(w))
    \/ \E r \in PlayerFault : Server(Abandon(r))
    \/ Server(ProcessCrash) \/ Server(NextWebhook)

Next == Users \/ Webhook \/ Loops \/ InspectLost \/ InProgress \/ Clock \/ Crash \/ Game

Spec == Init /\ [][Next]_vars

\* Time passes, the loops run every few seconds, calls to a driver return or time out, and a handler
\* that is not killed runs on. Nothing is assumed of players, admins, plugin and agent
Fairness == WF_vars(Loops \/ InProgress) /\ WF_vars(Clock)

FairSpec == Spec /\ Fairness

-----------------------------------------------------------------------------
Reason ==
    {"none", "accept_declined", "accept_timeout", "mode_unavailable", "unknown_map", "no_server",
     "server_start_failed", "never_started", "server_never_ready", "admin", "connect_timeout",
     "server_unreachable", "server_lost", "timeout"} \cup PlayerFault \cup ServerFault
Penalty == {"decline", "accept_timeout", "no_connect", "abandon"}
Deadline == {"accept", "step", "alloc", "start", "connect", "cap", "demo"}

Owed ==
    [cooldowns : SUBSET (Player \X Penalty), release : BOOLEAN,
     drop : SUBSET Ticket, requeue : SUBSET Ticket, emit : BOOLEAN]

RowTypeOK ==
    /\ status \in Status /\ cancelReason \in Reason
    /\ winner \in Team \cup {"none"} /\ ratingApplied \in BOOLEAN
    /\ ratings \in Nat /\ owed \in Owed /\ due \in SUBSET Deadline

LocalTypeOK ==
    /\ source \in {"queue", "challenge", "tournament"} /\ reserved \in BOOLEAN
    /\ score \in 0..Final
    /\ readyAt \in BOOLEAN /\ connect \in BOOLEAN /\ serverReleased \in BOOLEAN
    /\ accepted \in SUBSET Player /\ declined \in SUBSET Player /\ everConnected \in SUBSET Player
    /\ stepsLeft \in 0..VetoSteps
    /\ inbox \in SUBSET Event
    /\ alloc \in {"idle", "calling"} /\ allocExpired \in BOOLEAN
    /\ timer \in {"idle", "stale", "read", "stuck"} /\ connectMissing \in SUBSET Player
    /\ verdict \in {"none", "server_lost", "timeout"}
    /\ ticket \in [Ticket -> {"none", "matched", "waiting", "cancelled"}]
    /\ cooldown \in SUBSET (Player \X Penalty)
    /\ results \in Nat /\ crashes \in 0..MaxCrashes

\* Every variable keeps its type, the handler-local ones included
TypeOK == GameTypeOK /\ RowTypeOK /\ LocalTypeOK

Blamed == cooldown \cup owed.cooldowns
AllAccepted == accepted = Player /\ declined = {}

\* flow.ts 395-433: no interleaving of answers, the accept deadline and webhooks takes a match
\* past the accept window, or rates it, unless every player accepted and nobody declined
AllAcceptedBeforeVeto ==
    (status \in {"veto", "live"} \cup PreLive \/ winner # "none") => AllAccepted

\* flow.ts 1089-1167, 1202-1270: duplicate and racing ends of a match move the ratings once at
\* most, together with the winner, and never for a challenge
RatedOnce ==
    /\ ratingApplied <=> winner # "none"
    /\ ratings = IF ratingApplied /\ source # "challenge" THEN 1 ELSE 0
    /\ ratingApplied => status \in {"finished", "abandoned"}

\* CONTRACTS.md 222: an absence is punished only when someone on the other team connected, and
\* a forfeit is rated only when someone of the winning team did
BlameNeedsProof ==
    /\ \A p \in Player, k \in {"no_connect", "abandon"} :
          <<p, k>> \in Blamed => OtherTeam(p) \cap everConnected # {}
    /\ status = "abandoned" /\ winner # "none" => TeamOf(winner) \cap everConnected # {}

\* flow.ts 905-908, 1288-1289, 1201: a match that ended through no fault of a player, by a crash, a lost
\* server, a cap, an admin or an allocation that failed, changes no rating and blames nobody
NobodysFault ==
    cancelReason \notin {"none", "accept_declined", "accept_timeout", "connect_timeout"} \cup PlayerFault
        => winner = "none" /\ Blamed = {}

\* accept.ts 30-31: whatever the order of late answers and the deadline, nobody who accepted in
\* time is punished for not answering and nobody is punished for a decline of someone else
AcceptedNotPunished ==
    \A p \in Player :
        /\ <<p, "accept_timeout">> \in Blamed => p \notin accepted
        /\ <<p, "decline">> \in Blamed => p \in declined

\* A ticket is back in the queue only when its match was cancelled, and after an accept failure
\* only when none of its players is at fault
WaitingTicketIsFree ==
    \A t \in Ticket : ticket[t] = "waiting" =>
        /\ status = "cancelled"
        /\ cancelReason \in {"accept_declined", "accept_timeout"}
              => MembersOf(t) \cap Offenders(accepted, declined) = {}

\* The listeners of the tournament and challenge modules hear of a match once at most, and
\* only when it is over and the handler that ended it has done everything else
ResultOnce ==
    /\ results <= 1
    /\ results = 1 => Ended /\ owed = Nothing

\* What only a server that players could reach reports
Played == {PlayerConnected(p) : p \in Player} \cup {MatchEnd(w) : w \in Winner}

\* flow.ts 703-734, 832-843: whatever overtakes what between driver, plugin and API, nobody plays on
\* a server before its address is stored, and from then on the match is watched until it is over
PlayedOnlyWhenServed ==
    /\ connect /\ ~Ended => status \in Watched
    /\ ~connect =>
          /\ present = {} /\ everConnected = {} /\ game # "live"
          /\ inbox \cap Played = {}
          /\ \A i \in 1..Len(outbox) : outbox[i] \notin Played

-----------------------------------------------------------------------------
\* The invariant that the proofs carry: what above does not say of the states in between

\* Until the row is terminal nothing that an end brings about has happened or is owed
NothingBeforeTheEnd ==
    ~Ended =>
        /\ cancelReason = "none" /\ winner = "none" /\ ~ratingApplied
        /\ owed = Nothing /\ cooldown = {} /\ results = 0
        /\ \A t \in Ticket : ticket[t] # "waiting"

\* No server, webhook or timer works on a match that is still being accepted
QuietWhileAccepting ==
    status = "accepting" =>
        /\ inbox = {} /\ game = "off" /\ outbox = <<>> /\ ~crashReport
        /\ timer = "idle" /\ verdict = "none"

\* A ticket about to go back is as free of blame as one that is back
RequeueIsFree ==
    \A t \in owed.requeue :
        /\ status = "cancelled"
        /\ cancelReason \in {"accept_declined", "accept_timeout"}
              => MembersOf(t) \cap Offenders(accepted, declined) = {}

OutcomeInv ==
    /\ NothingBeforeTheEnd /\ RequeueIsFree
    /\ AllAcceptedBeforeVeto /\ RatedOnce /\ BlameNeedsProof /\ NobodysFault
    /\ AcceptedNotPunished /\ WaitingTicketIsFree /\ ResultOnce
    /\ owed.emit => results = 0

SafetyInv == OutcomeInv /\ QuietWhileAccepting

-----------------------------------------------------------------------------
\* flow.ts 776, 1092, 1206, 1293: late, duplicate and racing handlers never change how a match ended
TerminalIsFinal ==
    [][Ended => UNCHANGED <<status, cancelReason, winner, ratingApplied, ratings>>]_vars

-----------------------------------------------------------------------------
StageOf(s) == CASE s \in Terminal -> "over" [] s \in Watched -> "serving" [] OTHER -> "forming"

\* The match keeps the promise of MatchOutcome, its end included
Outcome == INSTANCE MatchOutcome WITH stage <- StageOf(status), counts <- source # "challenge"
KeepsPromise == Outcome!OutcomeSpec

\* Whatever players, plugin and agent do or fail to do, and without a crash of the API, every match
\* ends, its listeners hear of it when it had opened, tickets that a cancel left behind are put back
\* or cancelled, and a server or slot that the row names is given back
EveryMatchSettles ==
    <>(/\ Ended
       /\ cancelReason \notin {"accept_declined", "accept_timeout"} => results = 1
       /\ source = "queue" /\ status = "cancelled" => \A t \in TicketsOfPlayers : ticket[t] # "matched"
       /\ Held => serverReleased)
=============================================================================
