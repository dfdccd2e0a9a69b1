------------------------- MODULE MatchSafety_proofs -------------------------
(***************************************************************************)
(* The types and the safety invariants of MatchFlow, for every roster,     *)
(* ticket assignment and bound.                                            *)
(*                                                                         *)
(* For the safety, many actions do the same to what the invariants speak   *)
(* of, so the proof sorts them into five kinds: a step that leaves the     *)
(* outcome of the match alone (Bystands), one that moves an open match on  *)
(* (Moves), one that ends it (Ends), one of the effects owed after the     *)
(* end, and a crash. At the end, that MatchFlow implements MatchOutcome.   *)
(***************************************************************************)
EXTENDS MatchFlow, TLAPS, SequenceTheorems

-----------------------------------------------------------------------------
\* The decisions of accept.ts

\* accept.ts 30-33: the offenders of a window are players
LEMMA OffendersArePlayers ==
    ASSUME NEW acc, NEW dec \in SUBSET Player
    PROVE  Offenders(acc, dec) \in SUBSET Player
  BY DEF Offenders

\* accept.ts 34-43: tickets are looked up from the players of the match
LEMMA TicketsAreTickets == TicketsOfPlayers \in SUBSET Ticket
  BY TicketOfAssumption DEF TicketsOfPlayers

\* accept.ts 23-51: what an accept window resolves to is one of the outcomes
LEMMA ResolveAcceptType ==
    ASSUME NEW acc, NEW dec \in SUBSET Player, NEW late
    PROVE  ResolveAccept(acc, dec, late) \in AcceptOutcome
  <1>1. Offenders(acc, dec) \in SUBSET Player
    BY OffendersArePlayers
  <1>2. /\ TicketsHit(Offenders(acc, dec)) \in SUBSET Ticket
        /\ TicketsOfPlayers \ TicketsHit(Offenders(acc, dec)) \in SUBSET Ticket
    BY TicketsAreTickets DEF TicketsHit
  <1> QED
    BY <1>1, <1>2 DEF ResolveAccept, AcceptOutcome, OutcomeKind, FailReason, Unresolved

-----------------------------------------------------------------------------
\* Types of the row

\* A handler that ended nothing owes nothing, and that is a legal record of effects
LEMMA NothingType == Nothing \in Owed
  BY DEF Nothing, Effects, Owed

\* Ending the row keeps its type
LEMMA EndRowType ==
    ASSUME RowTypeOK, NEW s \in Status, NEW r \in Reason, NEW w \in Team \cup {"none"},
           NEW rated \in BOOLEAN, NEW tail \in Owed, EndRow(s, r, w, rated, tail)
    PROVE  RowTypeOK'
  BY DEF RowTypeOK, EndRow

\* flow.ts 772-798: cancelMatch leaves a well-typed row, whether it ends the match or comes too late
LEMMA CancelMatchType ==
    ASSUME RowTypeOK, NEW r \in Reason, NEW requeue \in BOOLEAN, NEW defer \in BOOLEAN,
           CancelMatch(r, requeue, defer)
    PROVE  RowTypeOK'
  <1>1. CASE Ended
    BY <1>1 DEF CancelMatch, rowVars, RowTypeOK
  <1>2. CASE ~Ended
    <2> DEFINE tickets == IF source = "queue" THEN TicketsOfPlayers ELSE {}
    <2> DEFINE tail == Effects({}, ~defer, IF requeue THEN {} ELSE tickets,
                               IF requeue THEN tickets ELSE {}, TRUE)
    <2>1. tail \in Owed
      BY TicketsAreTickets DEF Effects, Owed
    <2>2. EndRow("cancelled", r, winner, ratingApplied, tail)
      BY <1>2 DEF CancelMatch, CancelRow
    <2>3. "cancelled" \in Status /\ winner \in Team \cup {"none"} /\ ratingApplied \in BOOLEAN
      BY DEF RowTypeOK, Status, Terminal
    <2> HIDE DEF tail
    <2> QED
      BY <2>1, <2>2, <2>3, EndRowType
  <1> QED
    BY <1>1, <1>2

\* flow.ts 1089-1167: so does finishMatch
LEMMA FinishMatchType ==
    ASSUME RowTypeOK, score \in 0..Final, NEW w \in Winner, FinishMatch(w)
    PROVE  RowTypeOK' /\ score' \in 0..Final
  <1>1. CASE Ended \/ ratingApplied
    BY <1>1 DEF FinishMatch, rowVars, RowTypeOK
  <1>2. CASE ~(Ended \/ ratingApplied)
    <2> DEFINE tail == Effects({}, FALSE, {}, {}, TRUE)
               win == IF w \in Team THEN w ELSE "none"
               rated == w \in Team
    <2>1. tail \in Owed
      BY DEF Effects, Owed
    <2>2. EndRow("finished", cancelReason, win, rated, tail) /\ score' = Final
      BY <1>2 DEF FinishMatch, FinishRow
    <2>3. /\ "finished" \in Status /\ win \in Team \cup {"none"}
           /\ cancelReason \in Reason /\ rated \in BOOLEAN
      BY DEF RowTypeOK, Status, Terminal
    <2>4. Final \in 0..Final
      BY GameBounds DEF Final
    <2> HIDE DEF tail, win, rated
    <2> QED
      BY <2>1, <2>2, <2>3, <2>4, EndRowType
  <1> QED
    BY <1>1, <1>2

\* flow.ts 1202-1286: so does abandonMatch, and its cooldowns are for players
LEMMA AbandonMatchType ==
    ASSUME RowTypeOK, NEW missing \in SUBSET Player,
           NEW reason \in PlayerFault \cup {"connect_timeout"}, AbandonMatch(missing, reason)
    PROVE  RowTypeOK'
  <1> DEFINE outcome == ResolveAbandon(missing)
             rated == /\ outcome.kind = "forfeit"
                      /\ TeamOf(Opponent(outcome.loser)) \cap everConnected # {}
             cooldowns == {<<p, IF p \in everConnected THEN "abandon" ELSE "no_connect">> :
                             p \in Penalized(outcome.forfeiters)}
             s == IF outcome.forfeiters # {} THEN "abandoned" ELSE "cancelled"
             r == IF everConnected = {} THEN "server_unreachable" ELSE reason
             win == IF rated THEN Opponent(outcome.loser) ELSE "none"
             tail == Effects(cooldowns, FALSE, {}, {}, TRUE)
  <1>1. CASE Ended \/ ratingApplied
    BY <1>1 DEF AbandonMatch, rowVars, RowTypeOK
  <1>2. CASE ~(Ended \/ ratingApplied)
    <2>1. outcome.forfeiters \in SUBSET Player
      BY TeamAssumption DEF ResolveAbandon
    <2>2. cooldowns \in SUBSET (Player \X Penalty)
      BY <2>1 DEF Penalized, Penalty
    <2>3. tail \in Owed
      BY <2>2 DEF Effects, Owed
    <2>4. EndRow(s, r, win, rated, tail)
      BY <1>2 DEF AbandonMatch
    <2>5. s \in Status /\ r \in Reason /\ win \in Team \cup {"none"} /\ rated \in BOOLEAN
      BY DEF Status, Terminal, Reason, Team, Opponent
    <2> HIDE DEF s, r, win, rated, tail
    <2> QED
      BY <2>3, <2>4, <2>5, EndRowType
  <1> QED
    BY <1>1, <1>2

\* accept.ts 23-51, flow.ts 422-431: so does a resolved accept window
LEMMA ApplyAcceptOutcomeType ==
    ASSUME RowTypeOK, stepsLeft \in 0..VetoSteps, NEW outcome \in AcceptOutcome,
           ApplyAcceptOutcome(outcome)
    PROVE  RowTypeOK' /\ stepsLeft' \in 0..VetoSteps
  <1>1. CASE outcome.kind = "pending"
    BY <1>1 DEF ApplyAcceptOutcome, rowVars, RowTypeOK
  <1>2. CASE outcome.kind = "all_accepted"
    <2>1. EnterPostAccept
      BY <1>2 DEF ApplyAcceptOutcome
    <2> QED
      BY <2>1, FlowBounds DEF EnterPostAccept, RowTypeOK, Status, PreLive
  <1>3. CASE outcome.kind = "failed"
    <2> DEFINE r == IF outcome.reason = "declined" THEN "accept_declined" ELSE "accept_timeout"
    <2>1. AcceptTail(outcome) \in Owed
      BY DEF AcceptTail, Effects, Owed, AcceptOutcome, Penalty
    <2>2. EndRow("cancelled", r, winner, ratingApplied, AcceptTail(outcome)) /\ UNCHANGED stepsLeft
      BY <1>3 DEF ApplyAcceptOutcome
    <2>3. "cancelled" \in Status /\ r \in Reason /\ winner \in Team \cup {"none"} /\ ratingApplied \in BOOLEAN
      BY DEF RowTypeOK, Status, Terminal, Reason
    <2> HIDE DEF r
    <2> QED
      BY <2>1, <2>2, <2>3, EndRowType
  <1> QED
    BY <1>1, <1>2, <1>3 DEF AcceptOutcome, OutcomeKind

-----------------------------------------------------------------------------
\* Type correctness of every step

\* The webhooks that may be delivered are events of the plugin, or the crash report of the agent
LEMMA EventType ==
    /\ ServerReady \in Event /\ MatchStarted \in Event /\ ServerCrashed \in Event
    /\ \A p \in Player : PlayerConnected(p) \in Event
    /\ \A n \in 1..Rounds : RoundEnd(n) \in Event
    /\ \A w \in Winner : MatchEnd(w) \in Event
    /\ \A r \in PlayerFault \cup ServerFault, m \in SUBSET Player : MatchAbandoned(r, m) \in Event
  BY DEF Event, ServerCrashed, ServerFault

\* WebhookDispatcher.cs 60-71: queueing an event leaves a queue of events
LEMMA EnqueueType ==
    ASSUME outbox \in Seq(Event), NEW e \in Event, Enqueue(e)
    PROVE  outbox' \in Seq(Event)
  BY DEF Enqueue

\* MatchController.cs, manager.go: the server keeps its type in each of its steps
LEMMA GameStepType ==
    ASSUME GameTypeOK,
           \/ WarmupStart \/ GoLive \/ EndRound \/ ProcessCrash \/ NextWebhook
           \/ StartServer \/ StopServer
           \/ \E p \in Player : Connect(p) \/ Disconnect(p)
           \/ \E w \in Winner : FinishMap(w)
           \/ \E r \in PlayerFault : Abandon(r)
    PROVE  GameTypeOK'
  <1> USE DEF GameTypeOK
  <1>1. CASE WarmupStart
    BY <1>1, EventType, EnqueueType DEF WarmupStart, GamePhase
  <1>2. CASE GoLive
    BY <1>2, EventType, EnqueueType DEF GoLive, GamePhase
  <1>3. CASE EndRound
    <2>1. round + 1 \in 1..Rounds
      BY <1>3, GameBounds DEF EndRound
    <2> QED
      BY <1>3, <2>1, EventType, EnqueueType DEF EndRound
  <1>4. CASE ProcessCrash
    BY <1>4 DEF ProcessCrash, GamePhase
  <1>5. CASE NextWebhook
    BY <1>5 DEF NextWebhook
  <1>6. CASE StartServer
    BY <1>6 DEF StartServer, GamePhase
  <1>7. CASE StopServer
    BY <1>7, GameBounds DEF StopServer, GamePhase
  <1>8. ASSUME NEW p \in Player, Connect(p) PROVE GameTypeOK'
    BY <1>8, EventType, EnqueueType DEF Connect
  <1>9. ASSUME NEW p \in Player, Disconnect(p) PROVE GameTypeOK'
    BY <1>9 DEF Disconnect
  <1>10. ASSUME NEW w \in Winner, FinishMap(w) PROVE GameTypeOK'
    BY <1>10, EventType, EnqueueType DEF FinishMap, GamePhase
  <1>11. ASSUME NEW r \in PlayerFault, Abandon(r) PROVE GameTypeOK'
    <2>1. MatchAbandoned(r, Player \ present) \in Event
      BY EventType
    <2> QED
      BY <1>11, <2>1, EnqueueType DEF Abandon, GamePhase
  <1> QED
    BY <1>1, <1>2, <1>3, <1>4, <1>5, <1>6, <1>7, <1>8, <1>9, <1>10, <1>11

\* flow.ts 245-392: a match is created well typed
LEMMA InitType == Init => TypeOK
  <1> SUFFICES ASSUME Init PROVE TypeOK
    OBVIOUS
  <1>1. GameTypeOK
    <2>1. GameInit
      BY DEF Init
    <2>2. outbox \in Seq(Event)
      BY <2>1, EmptySeq DEF GameInit
    <2>3. game \in GamePhase /\ present \in SUBSET Player /\ crashReport \in BOOLEAN
      BY <2>1 DEF GameInit, GamePhase
    <2>4. round \in 0..Rounds
      BY <2>1, GameBounds DEF GameInit
    <2> QED
      BY <2>2, <2>3, <2>4 DEF GameTypeOK
  <1>2. RowTypeOK
    BY NothingType DEF Init, RowTypeOK, Status, PreLive, Reason
  <1>3. source \in {"queue", "challenge", "tournament"} /\ reserved \in BOOLEAN
    BY SourcesAssumption DEF Init
  <1>4. stepsLeft \in 0..VetoSteps /\ score \in 0..Final /\ crashes \in 0..MaxCrashes
    BY FlowBounds, GameBounds DEF Init, Final
  <1>5. /\ accepted \in SUBSET Player /\ declined \in SUBSET Player /\ everConnected \in SUBSET Player
        /\ inbox \in SUBSET Event /\ connectMissing \in SUBSET Player
        /\ cooldown \in SUBSET (Player \X Penalty)
    BY DEF Init
  <1>6. ticket \in [Ticket -> {"none", "matched", "waiting", "cancelled"}]
    BY DEF Init
  <1> QED
    BY <1>1, <1>2, <1>3, <1>4, <1>5, <1>6 DEF Init, TypeOK, LocalTypeOK

\* A step that leaves the server alone keeps its type
LEMMA GameSame == GameTypeOK /\ UNCHANGED gameVars => GameTypeOK'
  BY DEF GameTypeOK, gameVars

\* A step that leaves the row alone keeps its type
LEMMA RowSame == RowTypeOK /\ UNCHANGED rowVars => RowTypeOK'
  BY DEF RowTypeOK, rowVars

\* flow.ts 395-433, 604-659: answers, votes and an admin cancel keep every type
LEMMA UsersType ==
    ASSUME TypeOK, Users
    PROVE  TypeOK'
  <1> USE DEF TypeOK
  <1>1. ASSUME NEW p \in Player, NEW a \in BOOLEAN, Respond(p, a)
        PROVE  TypeOK'
    <2>1. accepted' \in SUBSET Player /\ declined' \in SUBSET Player
      BY <1>1 DEF Respond, LocalTypeOK
    <2>2. ResolveAccept(accepted', declined', "accept" \in due) \in AcceptOutcome
      BY <2>1, ResolveAcceptType
    <2>3. stepsLeft \in 0..VetoSteps
      BY DEF LocalTypeOK
    <2>4. ApplyAcceptOutcome(ResolveAccept(accepted', declined', "accept" \in due))
      BY <1>1 DEF Respond
    <2>5. RowTypeOK' /\ stepsLeft' \in 0..VetoSteps
      BY <2>2, <2>3, <2>4, ApplyAcceptOutcomeType
    <2>6. GameTypeOK'
      BY <1>1, GameSame DEF Respond
    <2>7. LocalTypeOK'
      BY <1>1, <2>1, <2>5 DEF Respond, LocalTypeOK, fixedVars, serverVars, loopVars, tableVars
    <2> QED
      BY <2>5, <2>6, <2>7
  <1>2. CASE Vote
    <2>1. RowTypeOK'
      BY <1>2 DEF Vote, SaveVeto, RowTypeOK, Status, PreLive
    <2>2. GameTypeOK'
      BY <1>2, GameSame DEF Vote, SaveVeto
    <2>3. stepsLeft' \in 0..VetoSteps
      BY <1>2, FlowBounds DEF Vote, SaveVeto, LocalTypeOK
    <2>4. LocalTypeOK'
      BY <1>2, <2>3 DEF Vote, SaveVeto, LocalTypeOK, fixedVars, serverVars, answerVars, loopVars, tableVars
    <2> QED
      BY <2>1, <2>2, <2>4
  <1>3. CASE AdminCancel
    <2>1. RowTypeOK'
      BY <1>3, CancelMatchType DEF AdminCancel, Reason
    <2>2. GameTypeOK'
      BY <1>3, GameSame DEF AdminCancel
    <2>3. LocalTypeOK'
      BY <1>3 DEF AdminCancel, LocalTypeOK, fixedVars, serverVars, answerVars, loopVars, tableVars
    <2> QED
      BY <2>1, <2>2, <2>3
  <1> QED
    BY <1>1, <1>2, <1>3 DEF Users

\* flow.ts 801-912: so does every webhook, received or applied
LEMMA WebhookType ==
    ASSUME TypeOK, Webhook
    PROVE  TypeOK'
  <1> USE DEF TypeOK
  <1>1. ASSUME NEW e \in Deliverables, Receive(e)
        PROVE  TypeOK'
    <2>1. e \in Event
      <3>1. CASE outbox # <<>> /\ e = Head(outbox)
        BY <3>1 DEF GameTypeOK
      <3>2. CASE e = ServerCrashed
        BY <3>2, EventType
      <3> QED
        BY <1>1, <3>1, <3>2 DEF Deliverables
    <2>2. LocalTypeOK'
      BY <1>1, <2>1 DEF Receive, LocalTypeOK, notHook, fixedVars, serverVars, answerVars, loopVars, tableVars
    <2> QED
      BY <1>1, <2>2, GameSame, RowSame DEF Receive, notHook
  <1>2. CASE OnServerReady
    <2>1. RowTypeOK'
      BY <1>2 DEF OnServerReady, RowTypeOK, Status, PreLive
    <2>2. LocalTypeOK'
      BY <1>2 DEF OnServerReady, Take, LocalTypeOK, notHook, fixedVars, answerVars, loopVars, tableVars
    <2> QED
      BY <1>2, <2>1, <2>2, GameSame DEF OnServerReady, notHook
  <1>3. ASSUME NEW p \in Player, OnPlayerConnected(p)
        PROVE  TypeOK'
    <2>1. LocalTypeOK'
      BY <1>3 DEF OnPlayerConnected, Take, LocalTypeOK, notHook, fixedVars, serverVars, answerVars, loopVars, tableVars
    <2> QED
      BY <1>3, <2>1, GameSame, RowSame DEF OnPlayerConnected, notHook
  <1>4. CASE OnMatchStarted
    <2>1. RowTypeOK'
      BY <1>4 DEF OnMatchStarted, RowTypeOK, Status, PreLive
    <2>2. LocalTypeOK'
      BY <1>4 DEF OnMatchStarted, Take, LocalTypeOK, notHook, fixedVars, serverVars, answerVars, loopVars, tableVars
    <2> QED
      BY <1>4, <2>1, <2>2, GameSame DEF OnMatchStarted, notHook
  <1>5. ASSUME NEW n \in 1..Rounds, OnRoundEnd(n)
        PROVE  TypeOK'
    <2>1. score' \in 0..Final
      BY <1>5, GameBounds DEF OnRoundEnd, Final
    <2>2. LocalTypeOK'
      BY <1>5, <2>1 DEF OnRoundEnd, Take, LocalTypeOK, Final, notHook, fixedVars, serverVars, answerVars, loopVars, tableVars
    <2> QED
      BY <1>5, <2>2, GameSame, RowSame DEF OnRoundEnd, notHook
  <1>6. ASSUME NEW w \in Winner, OnMatchEnd(w)
        PROVE  TypeOK'
    <2>1. RowTypeOK' /\ score' \in 0..Final
      BY <1>6, FinishMatchType DEF OnMatchEnd, LocalTypeOK
    <2>2. LocalTypeOK'
      BY <1>6, <2>1 DEF OnMatchEnd, Take, LocalTypeOK, Final, notHook, fixedVars, serverVars, answerVars, loopVars, tableVars
    <2> QED
      BY <1>6, <2>1, <2>2, GameSame DEF OnMatchEnd, notHook
  <1>7. ASSUME NEW r \in PlayerFault \cup ServerFault, NEW m \in SUBSET Player, OnMatchAbandoned(r, m)
        PROVE  TypeOK'
    <2>1. RowTypeOK'
      <3>1. CASE r \in ServerFault
        BY <1>7, <3>1, CancelMatchType DEF OnMatchAbandoned, Reason
      <3>2. CASE r \notin ServerFault
        BY <1>7, <3>2, AbandonMatchType DEF OnMatchAbandoned
      <3> QED
        BY <3>1, <3>2
    <2>2. LocalTypeOK'
      BY <1>7 DEF OnMatchAbandoned, Take, LocalTypeOK, notHook, fixedVars, serverVars, answerVars, loopVars, tableVars
    <2> QED
      BY <1>7, <2>1, <2>2, GameSame DEF OnMatchAbandoned, notHook
  <1> QED
    BY <1>1, <1>2, <1>3, <1>4, <1>5, <1>6, <1>7 DEF Webhook

\* flow.ts 662-770, 1356-1439: so does every row the loops pick up
LEMMA LoopsType ==
    ASSUME TypeOK, Loops \/ InspectLost
    PROVE  TypeOK'
  <1> USE DEF TypeOK
  <1>1. CASE AllocRefused
    <2>1. RowTypeOK'
      BY <1>1, CancelMatchType DEF AllocRefused, Reason
    <2>2. LocalTypeOK'
      BY <1>1 DEF AllocRefused, LocalTypeOK, notAlloc, fixedVars, serverVars, answerVars, tableVars
    <2> QED
      BY <1>1, <2>1, <2>2, GameSame DEF AllocRefused
  <1>2. CASE AllocWait
    <2>1. RowTypeOK'
      BY <1>2, CancelMatchType DEF AllocWait, Reason
    <2>2. LocalTypeOK'
      BY <1>2 DEF AllocWait, LocalTypeOK, notAlloc, fixedVars, serverVars, answerVars, tableVars
    <2> QED
      BY <1>2, <2>1, <2>2, GameSame DEF AllocWait
  <1>3. CASE AllocStart
    <2>1. LocalTypeOK'
      BY <1>3 DEF AllocStart, LocalTypeOK, notAlloc, fixedVars, serverVars, answerVars, tableVars
    <2> QED
      BY <1>3, <2>1, RowSame, GameStepType DEF AllocStart
  <1>4. CASE ExpireAccept
    <2>1. ResolveAccept(accepted, declined, TRUE) \in AcceptOutcome
      BY ResolveAcceptType DEF LocalTypeOK
    <2>2. RowTypeOK' /\ stepsLeft' \in 0..VetoSteps
      BY <1>4, <2>1, ApplyAcceptOutcomeType DEF ExpireAccept, LocalTypeOK
    <2>3. LocalTypeOK'
      BY <1>4, <2>2 DEF ExpireAccept, LocalTypeOK, fixedVars, serverVars, answerVars, loopVars, tableVars
    <2> QED
      BY <1>4, <2>2, <2>3, GameSame DEF ExpireAccept
  <1>5. CASE ExpireVetoStep
    BY <1>5, UsersType DEF ExpireVetoStep, Vote, Users
  <1>6. CASE SelectStaleReady
    <2>1. LocalTypeOK'
      BY <1>6 DEF SelectStaleReady, LocalTypeOK, notTimer, fixedVars, serverVars, answerVars, tableVars
    <2> QED
      BY <1>6, <2>1, RowSame, GameSame DEF SelectStaleReady, notTimer
  <1>7. CASE SelectStuck
    <2>1. LocalTypeOK'
      BY <1>7 DEF SelectStuck, LocalTypeOK, notTimer, fixedVars, serverVars, answerVars, tableVars
    <2> QED
      BY <1>7, <2>1, RowSame, GameSame DEF SelectStuck, notTimer
  <1>8. CASE InspectTimeout
    <2>1. LocalTypeOK'
      BY <1>8 DEF InspectTimeout, LocalTypeOK, notWatch, fixedVars, serverVars, answerVars, tableVars
    <2> QED
      BY <1>8, <2>1, RowSame, GameSame DEF InspectTimeout, notWatch
  <1>9. CASE Teardown
    <2>1. LocalTypeOK'
      BY <1>9 DEF Teardown, TeardownWhen, LocalTypeOK, fixedVars, serverVars, answerVars, loopVars
    <2> QED
      BY <1>9, <2>1, RowSame, GameStepType DEF Teardown, TeardownWhen
  <1>10. CASE InspectLost
    <2>1. LocalTypeOK'
      BY <1>10 DEF InspectLost, LocalTypeOK, notWatch, fixedVars, serverVars, answerVars, tableVars
    <2> QED
      BY <1>10, <2>1, RowSame, GameSame DEF InspectLost, notWatch
  <1> QED
    BY <1>1, <1>2, <1>3, <1>4, <1>5, <1>6, <1>7, <1>8, <1>9, <1>10 DEF Loops

\* flow.ts 1290-1327: so does a verdict of the watchdog
LEMMA EndLostType ==
    ASSUME RowTypeOK, verdict \in {"server_lost", "timeout"}, EndLostRow
    PROVE  RowTypeOK'
  <1> DEFINE tail == Effects({}, TRUE, {}, {}, TRUE)
  <1>1. tail \in Owed
    BY DEF Effects, Owed
  <1>2. EndRow("abandoned", verdict, "none", ratingApplied, tail)
    BY DEF EndLostRow
  <1>3. /\ "abandoned" \in Status /\ verdict \in Reason /\ "none" \in Team \cup {"none"}
        /\ ratingApplied \in BOOLEAN
    BY DEF Status, Terminal, Reason, RowTypeOK
  <1> HIDE DEF tail
  <1> QED
    BY <1>1, <1>2, <1>3, EndRowType

\* So does every continuation of a handler or a loop pass
LEMMA InProgressType ==
    ASSUME TypeOK, InProgress
    PROVE  TypeOK'
  <1> USE DEF TypeOK
  <1>1. CASE AllocFailed
    <2>1. RowTypeOK'
      BY <1>1, RowSame, CancelMatchType DEF AllocFailed, Reason
    <2>2. LocalTypeOK'
      BY <1>1 DEF AllocFailed, LocalTypeOK, notAlloc, fixedVars, serverVars, answerVars, tableVars
    <2> QED
      BY <1>1, <2>1, <2>2, GameStepType DEF AllocFailed
  <1>2. CASE StoreConnect
    <2>1. RowTypeOK' /\ connect' \in BOOLEAN
      BY <1>2 DEF StoreConnect, StartReturned, AttachServer, RowTypeOK, Status, PreLive, LocalTypeOK
    <2>2. LocalTypeOK'
      BY <1>2, <2>1 DEF StoreConnect, StartReturned, LocalTypeOK, notAlloc, fixedVars, answerVars, tableVars
    <2>3. GameTypeOK'
      <3>1. CASE status \in PreLive
        BY <1>2, <3>1, GameSame DEF StoreConnect, AttachServer
      <3>2. CASE status \notin PreLive
        BY <1>2, <3>2, GameStepType DEF StoreConnect
      <3> QED
        BY <3>1, <3>2
    <2> QED
      BY <2>1, <2>2, <2>3
  <1>3. CASE ReadMissing
    <2>1. LocalTypeOK'
      BY <1>3 DEF ReadMissing, LocalTypeOK, notTimer, fixedVars, serverVars, answerVars, tableVars
    <2> QED
      BY <1>3, <2>1, RowSame, GameSame DEF ReadMissing, notTimer
  <1>4. CASE ExpireConnect
    <2>1. RowTypeOK'
      <3>1. connectMissing \in SUBSET Player
        BY DEF LocalTypeOK
      <3>2. CASE connectMissing = {}
        BY <1>4, <3>2, CancelMatchType DEF ExpireConnect, Reason
      <3>3. CASE connectMissing # {}
        BY <1>4, <3>1, <3>3, AbandonMatchType DEF ExpireConnect
      <3> QED
        BY <3>2, <3>3
    <2>2. LocalTypeOK'
      BY <1>4 DEF ExpireConnect, LocalTypeOK, notTimer, fixedVars, serverVars, answerVars, tableVars
    <2> QED
      BY <1>4, <2>1, <2>2, GameSame DEF ExpireConnect, notTimer
  <1>5. CASE CancelStuck
    <2>1. RowTypeOK'
      BY <1>5, CancelMatchType DEF CancelStuck, Reason
    <2>2. LocalTypeOK'
      BY <1>5 DEF CancelStuck, LocalTypeOK, notTimer, fixedVars, serverVars, answerVars, tableVars
    <2> QED
      BY <1>5, <2>1, <2>2, GameSame DEF CancelStuck, notTimer
  <1>6. CASE EndLost
    <2>1. verdict \in {"server_lost", "timeout"}
      BY <1>6 DEF EndLost, Judge, LocalTypeOK
    <2>2. RowTypeOK'
      BY <1>6, <2>1, RowSame, EndLostType DEF EndLost, Judge
    <2>3. LocalTypeOK'
      BY <1>6 DEF EndLost, Judge, LocalTypeOK, notWatch, fixedVars, serverVars, answerVars, tableVars
    <2> QED
      BY <1>6, <2>2, <2>3, GameSame DEF EndLost, Judge, notWatch
  <1>7. CASE IssueCooldown
    <2>1. PICK c \in owed.cooldowns :
             /\ cooldown' = cooldown \cup {c}
             /\ owed' = [owed EXCEPT !.cooldowns = @ \ {c}]
             /\ UNCHANGED <<notTail, gameVars, ticket, results, serverReleased>>
      BY <1>7 DEF IssueCooldown
    <2>2. owed \in Owed
      BY DEF RowTypeOK
    <2>3. owed' \in Owed /\ cooldown' \in SUBSET (Player \X Penalty)
      BY <2>1, <2>2 DEF Owed, LocalTypeOK
    <2>4. RowTypeOK'
      BY <2>1, <2>3 DEF RowTypeOK, notTail
    <2>5. LocalTypeOK'
      BY <2>1, <2>3 DEF LocalTypeOK, notTail, fixedVars, serverVars, answerVars, loopVars
    <2> QED
      BY <2>1, <2>4, <2>5, GameSame
  <1>8. CASE ReleaseServer
    <2>1. owed \in Owed
      BY DEF RowTypeOK
    <2>2. owed' \in Owed
      BY <1>8, <2>1 DEF ReleaseServer, Owed
    <2>3. RowTypeOK'
      BY <1>8, <2>2 DEF ReleaseServer, RowTypeOK, notTail
    <2>4. LocalTypeOK'
      BY <1>8 DEF ReleaseServer, LocalTypeOK, notTail, fixedVars, serverVars, answerVars, loopVars
    <2> QED
      BY <1>8, <2>3, <2>4, GameStepType DEF ReleaseServer
  <1>9. CASE CancelTicket
    <2>1. PICK t \in owed.drop :
             /\ ticket' = [ticket EXCEPT ![t] = "cancelled"]
             /\ owed' = [owed EXCEPT !.drop = @ \ {t}]
      BY <1>9 DEF CancelTicket
    <2>2. owed \in Owed
      BY DEF RowTypeOK
    <2>3. owed' \in Owed
      BY <2>1, <2>2 DEF Owed
    <2>4. RowTypeOK'
      BY <1>9, <2>3 DEF CancelTicket, RowTypeOK, notTail
    <2>5. ticket' \in [Ticket -> {"none", "matched", "waiting", "cancelled"}]
      BY <2>1 DEF LocalTypeOK
    <2>6. UNCHANGED <<notTail, gameVars, cooldown, results, serverReleased>>
      BY <1>9 DEF CancelTicket
    <2>7. LocalTypeOK'
      BY <2>5, <2>6 DEF LocalTypeOK, notTail, fixedVars, serverVars, answerVars, loopVars
    <2> QED
      BY <2>4, <2>6, <2>7, GameSame
  <1>10. CASE RequeueTicket
    <2>1. PICK t \in owed.requeue, x \in {"waiting", "cancelled"} :
             /\ ticket' = [ticket EXCEPT ![t] = x]
             /\ owed' = [owed EXCEPT !.requeue = @ \ {t}]
      BY <1>10 DEF RequeueTicket
    <2>2. owed \in Owed
      BY DEF RowTypeOK
    <2>3. owed' \in Owed
      BY <2>1, <2>2 DEF Owed
    <2>4. RowTypeOK'
      BY <1>10, <2>3 DEF RequeueTicket, RowTypeOK, notTail
    <2>5. ticket' \in [Ticket -> {"none", "matched", "waiting", "cancelled"}]
      BY <2>1 DEF LocalTypeOK
    <2>6. UNCHANGED <<notTail, gameVars, cooldown, results, serverReleased>>
      BY <1>10 DEF RequeueTicket
    <2>7. LocalTypeOK'
      BY <2>5, <2>6 DEF LocalTypeOK, notTail, fixedVars, serverVars, answerVars, loopVars
    <2> QED
      BY <2>4, <2>6, <2>7, GameSame
  <1>11. CASE EmitResult
    <2>1. owed \in Owed
      BY DEF RowTypeOK
    <2>2. owed' \in Owed
      BY <1>11, <2>1 DEF EmitResult, Emit, Owed
    <2>3. RowTypeOK'
      BY <1>11, <2>2 DEF EmitResult, Emit, RowTypeOK, notTail
    <2>4. LocalTypeOK'
      BY <1>11 DEF EmitResult, Emit, LocalTypeOK, notTail, fixedVars, serverVars, answerVars, loopVars
    <2> QED
      BY <1>11, <2>3, <2>4, GameSame DEF EmitResult, Emit
  <1> QED
    BY <1>1, <1>2, <1>3, <1>4, <1>5, <1>6, <1>7, <1>8, <1>9, <1>10, <1>11 DEF InProgress

\* So do the clock, a restart, the game server and a step that changes nothing
LEMMA OutsideType ==
    ASSUME TypeOK, Clock \/ Crash \/ Game \/ UNCHANGED vars
    PROVE  TypeOK'
  <1> USE DEF TypeOK
  <1>1. ASSUME NEW d \in Deadline, Elapse(d)
        PROVE  TypeOK'
    <2>1. RowTypeOK'
      BY <1>1 DEF Elapse, RowTypeOK
    <2>2. LocalTypeOK'
      BY <1>1 DEF Elapse, LocalTypeOK, fixedVars, serverVars, answerVars, loopVars, tableVars
    <2> QED
      BY <1>1, <2>1, <2>2, GameSame DEF Elapse
  <1>2. CASE Crash
    <2>1. RowTypeOK'
      BY <1>2, NothingType DEF Crash, RowTypeOK
    <2>2. crashes' \in 0..MaxCrashes
      BY <1>2, FlowBounds DEF Crash, LocalTypeOK
    <2>3. LocalTypeOK'
      BY <1>2, <2>2 DEF Crash, LocalTypeOK, fixedVars, serverVars, answerVars, tableVars
    <2> QED
      BY <1>2, <2>1, <2>3, GameSame DEF Crash
  <1>3. CASE Game
    <2>1. /\ UNCHANGED <<rowVars, fixedVars, serverVars, answerVars, loopVars, tableVars,
                         score, everConnected, stepsLeft, inbox, crashes>>
          /\ \/ WarmupStart \/ GoLive \/ EndRound \/ ProcessCrash \/ NextWebhook
             \/ \E p \in Player : Connect(p) \/ Disconnect(p)
             \/ \E w \in Winner : FinishMap(w)
             \/ \E r \in PlayerFault : Abandon(r)
      BY <1>3 DEF Game, Server, Join
    <2>2. GameTypeOK'
      BY <2>1, GameStepType
    <2>3. LocalTypeOK'
      BY <2>1 DEF LocalTypeOK, fixedVars, serverVars, answerVars, loopVars, tableVars
    <2> QED
      BY <2>1, <2>2, <2>3, RowSame
  <1>4. CASE UNCHANGED vars
    <2>1. LocalTypeOK'
      BY <1>4 DEF LocalTypeOK, vars, matchVars, fixedVars, serverVars, answerVars, loopVars, tableVars
    <2> QED
      BY <1>4, <2>1, RowSame, GameSame DEF vars, matchVars
  <1> QED
    BY <1>1, <1>2, <1>3, <1>4 DEF Clock, Deadline

\* No step of the match breaks a type
LEMMA TypeStep == TypeOK /\ [Next]_vars => TypeOK'
  BY UsersType, WebhookType, LoopsType, InProgressType, OutsideType DEF Next

\* Every variable of the match keeps its type, whatever handlers, timers and crashes do
THEOREM TypeCorrect == Spec => []TypeOK
  BY InitType, TypeStep, PTL DEF Spec

-----------------------------------------------------------------------------
\* The safety of a match

outcomeRow == <<status, cancelReason, winner, ratingApplied, ratings>>
effects == <<cooldown, ticket, results>>

Bystands ==
    /\ UNCHANGED <<outcomeRow, owed, effects, source, accepted, declined>>
    /\ everConnected \subseteq everConnected'

Moves ==
    /\ ~Ended /\ status' \notin Terminal
    /\ \/ status = "accepting" /\ status' = "accepting"
       \/ status' # "accepting" /\ AllAccepted'
    /\ status \in Watched => status' \in Watched
    /\ UNCHANGED <<cancelReason, winner, ratingApplied, ratings, owed, effects, source, everConnected>>

\* What the row and the effects owed have to be right after an end
SoundEnd ==
    /\ ratingApplied' <=> winner' # "none"
    /\ ratings' = IF ratingApplied' /\ source # "challenge" THEN 1 ELSE 0
    /\ ratingApplied' => status' \in {"finished", "abandoned"}
    /\ winner' # "none" => AllAccepted'
    /\ \A p \in Player, k \in {"no_connect", "abandon"} :
          <<p, k>> \in owed'.cooldowns => OtherTeam(p) \cap everConnected # {}
    /\ status' = "abandoned" /\ winner' # "none" => TeamOf(winner') \cap everConnected # {}
    /\ cancelReason' \notin {"none", "accept_declined", "accept_timeout", "connect_timeout"} \cup PlayerFault
          => winner' = "none" /\ owed'.cooldowns = {}
    /\ \A p \in Player :
          /\ <<p, "accept_timeout">> \in owed'.cooldowns => p \notin accepted'
          /\ <<p, "decline">> \in owed'.cooldowns => p \in declined'
    /\ \A t \in owed'.requeue :
          /\ status' = "cancelled"
          /\ cancelReason' \in {"accept_declined", "accept_timeout"}
                => MembersOf(t) \cap Offenders(accepted', declined') = {}

Ends ==
    /\ ~Ended /\ status' \in Terminal
    /\ SoundEnd
    /\ UNCHANGED <<effects, source, everConnected>>

-----------------------------------------------------------------------------
\* Each kind of step preserves the invariant

\* A step that leaves the outcome alone: whoever proved to be reachable stays proved
LEMMA BystandsSafe ==
    ASSUME OutcomeInv, Bystands
    PROVE  OutcomeInv'
  <1> USE DEF OutcomeInv, Bystands, outcomeRow, effects
  <1>1. NothingBeforeTheEnd'
    BY DEF NothingBeforeTheEnd, Ended
  <1>2. RequeueIsFree'
    BY DEF RequeueIsFree
  <1>3. AllAcceptedBeforeVeto'
    BY DEF AllAcceptedBeforeVeto, AllAccepted
  <1>4. RatedOnce'
    BY DEF RatedOnce
  <1>5. BlameNeedsProof'
    BY DEF BlameNeedsProof, Blamed
  <1>6. NobodysFault'
    BY DEF NobodysFault, Blamed
  <1>7. AcceptedNotPunished'
    BY DEF AcceptedNotPunished, Blamed
  <1>8. WaitingTicketIsFree'
    BY DEF WaitingTicketIsFree
  <1>9. ResultOnce' /\ (owed.emit => results = 0)'
    BY DEF ResultOnce, Ended
  <1> QED
    BY <1>1, <1>2, <1>3, <1>4, <1>5, <1>6, <1>7, <1>8, <1>9

\* A step that moves an open match on: only the accept window asks anything of it
LEMMA MovesSafe ==
    ASSUME OutcomeInv, Moves
    PROVE  OutcomeInv'
  <1> USE DEF OutcomeInv, Moves, effects
  <1>0. /\ cancelReason = "none" /\ winner = "none" /\ ~ratingApplied
        /\ owed = Nothing /\ cooldown = {} /\ results = 0
        /\ \A t \in Ticket : ticket[t] # "waiting"
        /\ Nothing.cooldowns = {} /\ Nothing.requeue = {}
    BY DEF NothingBeforeTheEnd, Nothing, Effects
  <1>1. NothingBeforeTheEnd'
    BY <1>0 DEF NothingBeforeTheEnd
  <1>2. RequeueIsFree'
    BY <1>0 DEF RequeueIsFree
  <1>3. AllAcceptedBeforeVeto'
    BY <1>0 DEF AllAcceptedBeforeVeto, PreLive
  <1>4. RatedOnce'
    BY <1>0 DEF RatedOnce
  <1>5. BlameNeedsProof'
    BY <1>0 DEF BlameNeedsProof, Blamed
  <1>6. NobodysFault'
    BY <1>0 DEF NobodysFault
  <1>7. AcceptedNotPunished'
    BY <1>0 DEF AcceptedNotPunished, Blamed
  <1>8. WaitingTicketIsFree'
    BY <1>0 DEF WaitingTicketIsFree
  <1>9. ResultOnce' /\ (owed.emit => results = 0)'
    BY <1>0 DEF ResultOnce
  <1> QED
    BY <1>1, <1>2, <1>3, <1>4, <1>5, <1>6, <1>7, <1>8, <1>9

\* A step that ends the match: what it writes and what it owes are sound, and nothing was done before
LEMMA EndsSafe ==
    ASSUME OutcomeInv, Ends
    PROVE  OutcomeInv'
  <1> USE DEF OutcomeInv, Ends, effects
  <1>0. cooldown' = {} /\ results' = 0 /\ \A t \in Ticket : ticket'[t] # "waiting"
    BY DEF NothingBeforeTheEnd
  <1>1. NothingBeforeTheEnd'
    BY DEF NothingBeforeTheEnd, Ended
  <1>2. RequeueIsFree'
    BY DEF RequeueIsFree, SoundEnd
  <1>3. AllAcceptedBeforeVeto'
    BY DEF AllAcceptedBeforeVeto, PreLive, Terminal, SoundEnd
  <1>4. RatedOnce'
    BY DEF RatedOnce, SoundEnd
  <1>5. BlameNeedsProof'
    BY <1>0 DEF BlameNeedsProof, Blamed, SoundEnd
  <1>6. NobodysFault'
    BY <1>0 DEF NobodysFault, Blamed, SoundEnd
  <1>7. AcceptedNotPunished'
    BY <1>0 DEF AcceptedNotPunished, Blamed, SoundEnd
  <1>8. WaitingTicketIsFree'
    BY <1>0 DEF WaitingTicketIsFree
  <1>9. ResultOnce' /\ (owed.emit => results = 0)'
    BY <1>0 DEF ResultOnce
  <1> QED
    BY <1>1, <1>2, <1>3, <1>4, <1>5, <1>6, <1>7, <1>8, <1>9

\* A restart of the API loses what is owed, and loses no more than that
LEMMA CrashSafe ==
    ASSUME OutcomeInv, Crash
    PROVE  OutcomeInv'
  <1> USE DEF OutcomeInv, Crash
  <1>0. Nothing.cooldowns = {} /\ Nothing.requeue = {} /\ ~Nothing.emit
    BY DEF Nothing, Effects
  <1>00. UNCHANGED <<effects, source, accepted, declined>>
    BY DEF effects, tableVars, fixedVars, answerVars
  <1>1. NothingBeforeTheEnd'
    BY <1>00 DEF NothingBeforeTheEnd, Ended, effects
  <1>2. RequeueIsFree'
    BY <1>0 DEF RequeueIsFree
  <1>3. AllAcceptedBeforeVeto'
    BY <1>00 DEF AllAcceptedBeforeVeto, AllAccepted
  <1>4. RatedOnce'
    BY <1>00 DEF RatedOnce
  <1>5. BlameNeedsProof'
    BY <1>0, <1>00 DEF BlameNeedsProof, Blamed, effects
  <1>6. NobodysFault'
    BY <1>0, <1>00 DEF NobodysFault, Blamed, effects
  <1>7. AcceptedNotPunished'
    BY <1>0, <1>00 DEF AcceptedNotPunished, Blamed, effects
  <1>8. WaitingTicketIsFree'
    BY <1>00 DEF WaitingTicketIsFree, effects
  <1>9. ResultOnce' /\ (owed.emit => results = 0)'
    BY <1>0, <1>00 DEF ResultOnce, Ended, effects
  <1> QED
    BY <1>1, <1>2, <1>3, <1>4, <1>5, <1>6, <1>7, <1>8, <1>9

-----------------------------------------------------------------------------
\* The effects owed after the end. Something is still owed, so the match is over and the
\* listeners have not been called

\* Only a match that is over owes anything, and its listeners have not been called yet
LEMMA OwedMeansEnded ==
    ASSUME OutcomeInv, owed # Nothing
    PROVE  Ended /\ results # 1
  BY DEF OutcomeInv, NothingBeforeTheEnd, ResultOnce

\* IssueCooldown: a cooldown moves from the owed ones to the issued ones
LEMMA IssueCooldownSafe ==
    ASSUME TypeOK, OutcomeInv, IssueCooldown
    PROVE  OutcomeInv'
  <1>1. PICK c \in owed.cooldowns :
           /\ cooldown' = cooldown \cup {c}
           /\ owed' = [owed EXCEPT !.cooldowns = @ \ {c}]
           /\ UNCHANGED <<notTail, gameVars, ticket, results, serverReleased>>
    BY DEF IssueCooldown
  <1>2. owed \in Owed
    BY DEF TypeOK, RowTypeOK
  <1>3. /\ owed'.cooldowns = owed.cooldowns \ {c}
        /\ owed'.requeue = owed.requeue /\ owed'.emit = owed.emit
    BY <1>1, <1>2 DEF Owed
  <1>4. Blamed' = Blamed
    BY <1>1, <1>3 DEF Blamed
  <1>5. Ended /\ results # 1
    BY <1>1, OwedMeansEnded DEF Nothing, Effects
  <1>6. UNCHANGED <<outcomeRow, source, accepted, declined, everConnected, ticket, results>>
    BY <1>1 DEF notTail, outcomeRow, fixedVars, answerVars
  <1> USE <1>6 DEF OutcomeInv, outcomeRow
  <1>7. NothingBeforeTheEnd'
    BY <1>5 DEF NothingBeforeTheEnd, Ended
  <1>8. RequeueIsFree'
    BY <1>3 DEF RequeueIsFree
  <1>9. AllAcceptedBeforeVeto' /\ RatedOnce'
    BY DEF AllAcceptedBeforeVeto, AllAccepted, RatedOnce
  <1>10. BlameNeedsProof' /\ NobodysFault' /\ AcceptedNotPunished'
    BY <1>4 DEF BlameNeedsProof, NobodysFault, AcceptedNotPunished
  <1>11. WaitingTicketIsFree'
    BY DEF WaitingTicketIsFree
  <1>12. ResultOnce' /\ (owed.emit => results = 0)'
    BY <1>3, <1>5 DEF ResultOnce
  <1> QED
    BY <1>7, <1>8, <1>9, <1>10, <1>11, <1>12

\* ReleaseServer: the server is nobody's blame
LEMMA ReleaseServerSafe ==
    ASSUME TypeOK, OutcomeInv, ReleaseServer
    PROVE  OutcomeInv'
  <1>1. owed \in Owed
    BY DEF TypeOK, RowTypeOK
  <1>2. /\ owed'.cooldowns = owed.cooldowns
        /\ owed'.requeue = owed.requeue /\ owed'.emit = owed.emit
    BY <1>1 DEF ReleaseServer, Owed
  <1>3. Ended /\ results # 1
    BY OwedMeansEnded DEF ReleaseServer, Nothing, Effects
  <1>4. UNCHANGED <<outcomeRow, effects, source, accepted, declined, everConnected>>
    BY DEF ReleaseServer, notTail, outcomeRow, effects, fixedVars, answerVars
  <1> USE <1>2, <1>4 DEF OutcomeInv, outcomeRow, effects
  <1>5. NothingBeforeTheEnd' /\ RequeueIsFree'
    BY <1>3 DEF NothingBeforeTheEnd, Ended, RequeueIsFree
  <1>6. AllAcceptedBeforeVeto' /\ RatedOnce'
    BY DEF AllAcceptedBeforeVeto, AllAccepted, RatedOnce
  <1>7. BlameNeedsProof' /\ NobodysFault' /\ AcceptedNotPunished'
    BY DEF BlameNeedsProof, NobodysFault, AcceptedNotPunished, Blamed
  <1>8. WaitingTicketIsFree' /\ ResultOnce' /\ (owed.emit => results = 0)'
    BY <1>3 DEF WaitingTicketIsFree, ResultOnce
  <1> QED
    BY <1>5, <1>6, <1>7, <1>8

\* CancelTicket and RequeueTicket: only a ticket that is owed a place becomes free
LEMMA TicketSafe ==
    ASSUME TypeOK, OutcomeInv, CancelTicket \/ RequeueTicket
    PROVE  OutcomeInv'
  <1>1. owed \in Owed /\ ticket \in [Ticket -> {"none", "matched", "waiting", "cancelled"}]
    BY DEF TypeOK, RowTypeOK, LocalTypeOK
  <1>2. /\ owed'.cooldowns = owed.cooldowns /\ owed'.emit = owed.emit
        /\ owed'.requeue \subseteq owed.requeue
        /\ Ended /\ results # 1
        /\ \A t \in Ticket : ticket'[t] = "waiting" => ticket[t] = "waiting" \/ t \in owed.requeue
        /\ UNCHANGED <<notTail, gameVars, cooldown, results, serverReleased>>
    <2>1. CASE CancelTicket
      <3>1. PICK t \in owed.drop :
               /\ ticket' = [ticket EXCEPT ![t] = "cancelled"]
               /\ owed' = [owed EXCEPT !.drop = @ \ {t}]
        BY <2>1 DEF CancelTicket
      <3>2. owed # Nothing
        BY <3>1 DEF Nothing, Effects
      <3>3. owed'.cooldowns = owed.cooldowns /\ owed'.emit = owed.emit /\ owed'.requeue = owed.requeue
        BY <1>1, <3>1 DEF Owed
      <3>4. \A u \in Ticket : ticket'[u] = "waiting" => ticket[u] = "waiting"
        BY <1>1, <3>1
      <3>5. UNCHANGED <<notTail, gameVars, cooldown, results, serverReleased>>
        BY <2>1 DEF CancelTicket
      <3> QED
        BY <3>2, <3>3, <3>4, <3>5, OwedMeansEnded
    <2>2. CASE RequeueTicket
      <3>1. PICK t \in owed.requeue, x \in {"waiting", "cancelled"} :
               /\ ticket' = [ticket EXCEPT ![t] = x]
               /\ owed' = [owed EXCEPT !.requeue = @ \ {t}]
        BY <2>2 DEF RequeueTicket
      <3>2. owed # Nothing
        BY <3>1 DEF Nothing, Effects
      <3>3. /\ owed'.cooldowns = owed.cooldowns /\ owed'.emit = owed.emit
            /\ owed'.requeue \subseteq owed.requeue
        BY <1>1, <3>1 DEF Owed
      <3>4. \A u \in Ticket : ticket'[u] = "waiting" => ticket[u] = "waiting" \/ u \in owed.requeue
        BY <1>1, <3>1
      <3>5. UNCHANGED <<notTail, gameVars, cooldown, results, serverReleased>>
        BY <2>2 DEF RequeueTicket
      <3> QED
        BY <3>2, <3>3, <3>4, <3>5, OwedMeansEnded
    <2> QED
      BY <2>1, <2>2
  <1>3. UNCHANGED <<outcomeRow, source, accepted, declined, everConnected, cooldown, results>>
    BY <1>2 DEF notTail, outcomeRow, fixedVars, answerVars
  <1> USE <1>2, <1>3 DEF OutcomeInv, outcomeRow
  <1>4. NothingBeforeTheEnd' /\ RequeueIsFree'
    BY DEF NothingBeforeTheEnd, Ended, RequeueIsFree
  <1>5. AllAcceptedBeforeVeto' /\ RatedOnce'
    BY DEF AllAcceptedBeforeVeto, AllAccepted, RatedOnce
  <1>6. BlameNeedsProof' /\ NobodysFault' /\ AcceptedNotPunished'
    BY DEF BlameNeedsProof, NobodysFault, AcceptedNotPunished, Blamed
  <1>7. WaitingTicketIsFree'
    BY DEF WaitingTicketIsFree, RequeueIsFree
  <1>8. ResultOnce' /\ (owed.emit => results = 0)'
    BY DEF ResultOnce
  <1> QED
    BY <1>4, <1>5, <1>6, <1>7, <1>8

\* EmitResult: the listeners are called last
LEMMA EmitResultSafe ==
    ASSUME TypeOK, OutcomeInv, EmitResult
    PROVE  OutcomeInv'
  <1>1. owed \in Owed
    BY DEF TypeOK, RowTypeOK
  <1>2. owed' = Nothing
    BY <1>1 DEF EmitResult, Emit, Owed, Nothing, Effects
  <1>3. results = 0 /\ results' = 1 /\ Ended
    BY OwedMeansEnded DEF EmitResult, Emit, OutcomeInv, Nothing, Effects
  <1>4. UNCHANGED <<outcomeRow, source, accepted, declined, everConnected, cooldown, ticket>>
    BY DEF EmitResult, Emit, notTail, outcomeRow, fixedVars, answerVars
  <1>5. Nothing.cooldowns = {} /\ Nothing.requeue = {} /\ ~Nothing.emit
    BY DEF Nothing, Effects
  <1> USE <1>2, <1>3, <1>4, <1>5 DEF OutcomeInv, outcomeRow
  <1>6. NothingBeforeTheEnd' /\ RequeueIsFree'
    BY DEF NothingBeforeTheEnd, Ended, RequeueIsFree
  <1>7. AllAcceptedBeforeVeto' /\ RatedOnce'
    BY DEF AllAcceptedBeforeVeto, AllAccepted, RatedOnce
  <1>8. BlameNeedsProof' /\ NobodysFault' /\ AcceptedNotPunished'
    BY DEF BlameNeedsProof, NobodysFault, AcceptedNotPunished, Blamed
  <1>9. WaitingTicketIsFree'
    BY DEF WaitingTicketIsFree
  <1>10. ResultOnce' /\ (owed.emit => results = 0)'
    BY DEF ResultOnce, Ended
  <1> QED
    BY <1>6, <1>7, <1>8, <1>9, <1>10

-----------------------------------------------------------------------------
\* The transactions that end the row end it soundly, or leave it alone

\* flow.ts 772-798: cancelMatch ends the match without blame, or does nothing
LEMMA CancelMatchKind ==
    ASSUME OutcomeInv, NEW r \in Reason \ {"accept_declined", "accept_timeout"},
           NEW requeue \in BOOLEAN, NEW defer \in BOOLEAN, CancelMatch(r, requeue, defer),
           UNCHANGED <<effects, source, everConnected, accepted, declined>>
    PROVE  Ends \/ Bystands
  <1>1. CASE Ended
    BY <1>1 DEF CancelMatch, rowVars, Bystands, outcomeRow
  <1>2. CASE ~Ended
    <2>1. CancelRow(r, requeue, defer)
      BY <1>2 DEF CancelMatch
    <2>2. /\ status' = "cancelled" /\ cancelReason' = r /\ winner' = winner
          /\ ratingApplied' = ratingApplied /\ owed'.cooldowns = {}
          /\ ratings' = IF ratingApplied /\ source # "challenge" THEN ratings + 1 ELSE ratings
      BY <2>1 DEF CancelRow, EndRow, Effects
    <2>3. winner = "none" /\ ~ratingApplied /\ ratings = 0
      BY <1>2 DEF OutcomeInv, NothingBeforeTheEnd, RatedOnce
    <2>4. SoundEnd
      BY <2>2, <2>3 DEF SoundEnd
    <2> QED
      BY <1>2, <2>2, <2>4 DEF Ends, Terminal
  <1> QED
    BY <1>1, <1>2

\* flow.ts 1089-1167: finishMatch ends the match with a winner and its ratings, or does nothing
LEMMA FinishMatchKind ==
    ASSUME OutcomeInv, status # "accepting", status \in Status, NEW w \in Winner, FinishMatch(w),
           UNCHANGED <<effects, source, everConnected, accepted, declined>>
    PROVE  Ends \/ Bystands
  <1>1. CASE Ended \/ ratingApplied
    BY <1>1 DEF FinishMatch, rowVars, Bystands, outcomeRow
  <1>2. CASE ~(Ended \/ ratingApplied)
    <2>1. FinishRow(w)
      BY <1>2 DEF FinishMatch
    <2>2. /\ status' = "finished" /\ cancelReason' = cancelReason
          /\ winner' = (IF w \in Team THEN w ELSE "none")
          /\ ratingApplied' = (w \in Team) /\ owed'.cooldowns = {} /\ owed'.requeue = {}
          /\ ratings' = IF w \in Team /\ source # "challenge" THEN ratings + 1 ELSE ratings
      BY <2>1 DEF FinishRow, EndRow, Effects
    <2>3. ratings = 0 /\ cancelReason = "none"
      BY <1>2 DEF OutcomeInv, NothingBeforeTheEnd, RatedOnce
    <2>4. AllAccepted'
      BY <1>2 DEF OutcomeInv, AllAcceptedBeforeVeto, AllAccepted, Ended, Status
    <2>5. ratingApplied' <=> winner' # "none"
      BY <2>2 DEF Team
    <2>6. ratings' = IF ratingApplied' /\ source # "challenge" THEN 1 ELSE 0
      <3>1. ratingApplied' <=> w \in Team
        BY <2>2
      <3>2. ratings' = IF w \in Team /\ source # "challenge" THEN 0 + 1 ELSE 0
        BY <2>2, <2>3
      <3> QED
        BY <3>1, <3>2
    <2>7. SoundEnd
      BY <2>2, <2>3, <2>4, <2>5, <2>6 DEF SoundEnd
    <2> QED
      BY <1>2, <2>2, <2>7 DEF Ends, Terminal
  <1> QED
    BY <1>1, <1>2

\* flow.ts 1202-1286: abandonMatch ends the match and blames with proof only, or does nothing
LEMMA AbandonMatchKind ==
    ASSUME OutcomeInv, status # "accepting", status \in Status, NEW missing \in SUBSET Player,
           NEW reason \in PlayerFault \cup {"connect_timeout"}, AbandonMatch(missing, reason),
           UNCHANGED <<effects, source, everConnected, accepted, declined>>
    PROVE  Ends \/ Bystands
  <1> DEFINE outcome == ResolveAbandon(missing)
             rated == /\ outcome.kind = "forfeit"
                      /\ TeamOf(Opponent(outcome.loser)) \cap everConnected # {}
             cooldowns == {<<p, IF p \in everConnected THEN "abandon" ELSE "no_connect">> :
                             p \in Penalized(outcome.forfeiters)}
  <1>1. CASE Ended \/ ratingApplied
    BY <1>1 DEF AbandonMatch, rowVars, Bystands, outcomeRow
  <1>2. CASE ~(Ended \/ ratingApplied)
    <2>1. /\ status' = (IF outcome.forfeiters # {} THEN "abandoned" ELSE "cancelled")
          /\ cancelReason' = (IF everConnected = {} THEN "server_unreachable" ELSE reason)
          /\ winner' = (IF rated THEN Opponent(outcome.loser) ELSE "none")
          /\ ratingApplied' = rated
          /\ ratings' = IF rated /\ source # "challenge" THEN ratings + 1 ELSE ratings
          /\ owed'.cooldowns = cooldowns /\ owed'.requeue = {}
      BY <1>2 DEF AbandonMatch, EndRow, Effects
    <2>2. ratings = 0
      BY <1>2 DEF OutcomeInv, NothingBeforeTheEnd, RatedOnce
    <2>3. AllAccepted'
      BY <1>2 DEF OutcomeInv, AllAcceptedBeforeVeto, AllAccepted, Ended, Status
    <2>4. \A p \in Player, k \in Penalty :
             <<p, k>> \in cooldowns =>
                /\ OtherTeam(p) \cap everConnected # {}
                /\ k \in {"no_connect", "abandon"}
      BY DEF Penalized
    <2>5. everConnected = {} => cooldowns = {} /\ ~rated
      BY DEF Penalized
    <2>6. rated => outcome.forfeiters # {}
      BY DEF ResolveAbandon
    <2>7. Opponent(outcome.loser) # "none"
      BY DEF Opponent
    <2>8. \A p \in Player : <<p, "accept_timeout">> \notin cooldowns /\ <<p, "decline">> \notin cooldowns
      BY <2>4 DEF Penalty
    <2>9. rated \in BOOLEAN
      OBVIOUS
    <2> HIDE DEF outcome, rated, cooldowns
    <2>10. ratingApplied' <=> winner' # "none"
      BY <2>1, <2>7, <2>9
    <2>11. /\ ratings' = IF ratingApplied' /\ source # "challenge" THEN 1 ELSE 0
           /\ ratingApplied' => status' \in {"finished", "abandoned"}
      BY <2>1, <2>2, <2>6
    <2>12. \A p \in Player, k \in {"no_connect", "abandon"} :
              <<p, k>> \in owed'.cooldowns => OtherTeam(p) \cap everConnected # {}
      BY <2>1, <2>4 DEF Penalty
    <2>13. winner' # "none" => TeamOf(winner') \cap everConnected # {}
      BY <2>1 DEF rated
    <2>14. cancelReason' \notin {"none", "accept_declined", "accept_timeout", "connect_timeout"} \cup PlayerFault
              => winner' = "none" /\ owed'.cooldowns = {}
      BY <2>1, <2>5
    <2>15. SoundEnd
      BY <2>1, <2>3, <2>8, <2>10, <2>11, <2>12, <2>13, <2>14 DEF SoundEnd
    <2> QED
      BY <1>2, <2>1, <2>15 DEF Ends, Terminal
  <1> QED
    BY <1>1, <1>2

\* flow.ts 1290-1327: a verdict of the watchdog ends the match without blame, or does nothing
LEMMA EndLostKind ==
    ASSUME OutcomeInv, TypeOK, EndLost
    PROVE  Ends \/ Bystands
  <1>1. /\ verdict \in {"server_lost", "timeout"}
        /\ UNCHANGED <<effects, source, everConnected, accepted, declined>>
    BY DEF EndLost, Judge, notWatch, effects, tableVars, fixedVars, answerVars, TypeOK, LocalTypeOK
  <1>2. CASE status \in Watched /\ ~ratingApplied
    <2>1. EndLostRow
      BY <1>2 DEF EndLost, Judge
    <2>2. /\ status' = "abandoned" /\ cancelReason' = verdict /\ winner' = "none"
          /\ ratingApplied' = ratingApplied /\ owed'.cooldowns = {} /\ owed'.requeue = {}
          /\ ratings' = IF ratingApplied /\ source # "challenge" THEN ratings + 1 ELSE ratings
      BY <2>1 DEF EndLostRow, EndRow, Effects
    <2>3. ratings = 0 /\ ~Ended
      BY <1>2 DEF OutcomeInv, RatedOnce, Ended, Watched, Terminal
    <2>4. SoundEnd
      BY <1>2, <2>2, <2>3 DEF SoundEnd
    <2> QED
      BY <1>1, <2>2, <2>3, <2>4 DEF Ends, Terminal
  <1>3. CASE ~(status \in Watched /\ ~ratingApplied)
    BY <1>1, <1>3 DEF EndLost, Judge, rowVars, Bystands, outcomeRow
  <1> QED
    BY <1>2, <1>3

\* The accept window: it stays open, goes on because all accepted, or ends by its offenders
LEMMA ApplyAcceptKind ==
    ASSUME OutcomeInv, status = "accepting", accepted' \in SUBSET Player, declined' \in SUBSET Player,
           NEW late, ApplyAcceptOutcome(ResolveAccept(accepted', declined', late)),
           UNCHANGED <<effects, source, everConnected>>
    PROVE  Ends \/ Moves
  <1> DEFINE outcome == ResolveAccept(accepted', declined', late)
             offenders == Offenders(accepted', declined')
  <1>1. ~Ended /\ winner = "none" /\ ~ratingApplied /\ ratings = 0 /\ cancelReason = "none"
    BY DEF OutcomeInv, NothingBeforeTheEnd, RatedOnce, Ended, Terminal
  <1>2. outcome \in AcceptOutcome
    BY ResolveAcceptType
  <1>3. CASE outcome.kind = "pending"
    <2>1. UNCHANGED <<rowVars, stepsLeft>>
      BY <1>3 DEF ApplyAcceptOutcome
    <2> QED
      BY <1>1, <2>1 DEF Moves, rowVars, Terminal, Watched
  <1>4. CASE outcome.kind = "all_accepted"
    <2>1. EnterPostAccept
      BY <1>4 DEF ApplyAcceptOutcome
    <2>2. AllIn(accepted', declined')
      BY <1>4 DEF ResolveAccept, Unresolved
    <2>3. AllAccepted'
      BY <2>2 DEF AllIn, AllAccepted
    <2> QED
      BY <1>1, <2>1, <2>3 DEF Moves, EnterPostAccept, Terminal, Watched
  <1>5. CASE outcome.kind = "failed"
    <2>1. /\ outcome.reason = (IF declined' # {} THEN "declined" ELSE "timeout")
          /\ outcome.penalize = offenders
          /\ outcome.requeueTickets = TicketsOfPlayers \ TicketsHit(offenders)
      BY <1>5 DEF ResolveAccept, Unresolved
    <2> DEFINE penalty == IF outcome.reason = "declined" THEN "decline" ELSE "accept_timeout"
    <2>2. /\ status' = "cancelled" /\ winner' = winner /\ ratingApplied' = ratingApplied
          /\ cancelReason' = (IF outcome.reason = "declined" THEN "accept_declined" ELSE "accept_timeout")
          /\ ratings' = IF ratingApplied /\ source # "challenge" THEN ratings + 1 ELSE ratings
          /\ owed'.cooldowns = outcome.penalize \X {penalty}
          /\ owed'.requeue = outcome.requeueTickets
      BY <1>5 DEF ApplyAcceptOutcome, EndRow, AcceptTail, Effects
    <2>3. penalty = (IF declined' # {} THEN "decline" ELSE "accept_timeout")
      BY <2>1
    <2>4. \A p \in Player :
             /\ <<p, "accept_timeout">> \in owed'.cooldowns => p \notin accepted'
             /\ <<p, "decline">> \in owed'.cooldowns => p \in declined'
             /\ \A k \in {"no_connect", "abandon"} : <<p, k>> \notin owed'.cooldowns
      BY <2>1, <2>2, <2>3 DEF Offenders
    <2>5. \A t \in owed'.requeue : MembersOf(t) \cap offenders = {}
      BY <2>1, <2>2 DEF TicketsHit
    <2> HIDE DEF outcome, offenders, penalty
    <2>6. SoundEnd
      BY <1>1, <2>2, <2>4, <2>5 DEF SoundEnd, offenders
    <2> QED
      BY <1>1, <2>2, <2>6 DEF Ends, Terminal
  <1> QED
    BY <1>2, <1>3, <1>4, <1>5 DEF AcceptOutcome, OutcomeKind

-----------------------------------------------------------------------------
\* Every step is of one of the kinds

EffectStep == IssueCooldown \/ ReleaseServer \/ CancelTicket \/ RequeueTicket \/ EmitResult

Kinds == Bystands \/ Moves \/ Ends \/ EffectStep \/ Crash

\* While the players answer, no webhook is being handled and no timer pass is under way
LEMMA BusyMeansOpened ==
    ASSUME SafetyInv, inbox # {} \/ timer # "idle" \/ verdict # "none"
    PROVE  status # "accepting"
  BY DEF SafetyInv, QuietWhileAccepting

\* Every step of the users is of one of the kinds
LEMMA UsersKind ==
    ASSUME TypeOK, SafetyInv, Users
    PROVE  Kinds
  <1> USE DEF SafetyInv, Kinds
  <1>1. ASSUME NEW p \in Player, NEW a \in BOOLEAN, Respond(p, a)
        PROVE  Kinds
    <2>1. accepted' \in SUBSET Player /\ declined' \in SUBSET Player
      BY <1>1 DEF Respond, TypeOK, LocalTypeOK
    <2>2. UNCHANGED <<effects, source, everConnected>> /\ status = "accepting"
      BY <1>1 DEF Respond, effects, fixedVars, tableVars
    <2>3. ApplyAcceptOutcome(ResolveAccept(accepted', declined', "accept" \in due))
      BY <1>1 DEF Respond
    <2> QED
      BY <2>1, <2>2, <2>3, ApplyAcceptKind
  <1>2. CASE Vote
    <2>1. /\ ~Ended /\ status' \notin Terminal /\ status' # "accepting" /\ status \notin Watched
          /\ UNCHANGED <<accepted, declined>>
          /\ UNCHANGED <<cancelReason, winner, ratingApplied, ratings, owed, effects, source, everConnected>>
      BY <1>2 DEF Vote, SaveVeto, Ended, Terminal, Watched, effects, fixedVars, tableVars, answerVars
    <2>2. AllAccepted
      BY <1>2 DEF OutcomeInv, AllAcceptedBeforeVeto, Vote, SaveVeto
    <2> QED
      BY <2>1, <2>2 DEF Moves, AllAccepted
  <1>3. CASE AdminCancel
    <2>1. UNCHANGED <<effects, source, everConnected, accepted, declined>>
      BY <1>3 DEF AdminCancel, effects, fixedVars, tableVars, answerVars
    <2> QED
      BY <1>3, <2>1, CancelMatchKind DEF AdminCancel, Reason, PlayerFault, ServerFault
  <1> QED
    BY <1>1, <1>2, <1>3 DEF Users

\* So is every webhook
LEMMA WebhookKind ==
    ASSUME TypeOK, SafetyInv, Webhook
    PROVE  Kinds
  <1> USE DEF SafetyInv, Kinds
  <1>0. status \in Status
    BY DEF TypeOK, RowTypeOK
  <1>1. ASSUME NEW e \in Deliverables, Receive(e)
        PROVE  Kinds
    BY <1>1 DEF Receive, Bystands, notHook, outcomeRow, rowVars, effects, fixedVars, tableVars, answerVars
  <1>2. ASSUME NEW e, Take(e), UNCHANGED notHook
        PROVE  status # "accepting" /\ UNCHANGED <<effects, source, accepted, declined>>
    BY <1>2, BusyMeansOpened DEF Take, notHook, effects, fixedVars, tableVars, answerVars
  <1>3. CASE OnServerReady
    <2>1. status # "accepting" /\ UNCHANGED <<effects, source, accepted, declined>>
      BY <1>2, <1>3 DEF OnServerReady
    <2>2. CASE status = "starting"
      <3>1. AllAccepted
        BY <2>2 DEF OutcomeInv, AllAcceptedBeforeVeto, PreLive
      <3> QED
        BY <1>3, <2>1, <2>2, <3>1 DEF OnServerReady, Moves, Ended, Terminal, Watched, AllAccepted
    <2>3. CASE status # "starting"
      BY <1>3, <2>1, <2>3 DEF OnServerReady, Bystands, outcomeRow
    <2> QED
      BY <2>2, <2>3
  <1>4. ASSUME NEW p \in Player, OnPlayerConnected(p)
        PROVE  Kinds
    <2>1. UNCHANGED <<effects, source, accepted, declined>>
      BY <1>2, <1>4 DEF OnPlayerConnected
    <2> QED
      BY <1>4, <2>1 DEF OnPlayerConnected, Bystands, outcomeRow, rowVars
  <1>5. CASE OnMatchStarted
    <2>1. status # "accepting" /\ UNCHANGED <<effects, source, accepted, declined>>
      BY <1>2, <1>5 DEF OnMatchStarted
    <2>2. CASE status \in {"starting", "ready"}
      <3>1. AllAccepted
        BY <2>2 DEF OutcomeInv, AllAcceptedBeforeVeto, PreLive
      <3> QED
        BY <1>5, <2>1, <2>2, <3>1 DEF OnMatchStarted, Moves, Ended, Terminal, Watched, AllAccepted
    <2>3. CASE status \notin {"starting", "ready"}
      BY <1>5, <2>1, <2>3 DEF OnMatchStarted, Bystands, outcomeRow
    <2> QED
      BY <2>2, <2>3
  <1>6. ASSUME NEW n \in 1..Rounds, OnRoundEnd(n)
        PROVE  Kinds
    <2>1. UNCHANGED <<effects, source, accepted, declined>>
      BY <1>2, <1>6 DEF OnRoundEnd
    <2> QED
      BY <1>6, <2>1 DEF OnRoundEnd, Bystands, outcomeRow, rowVars
  <1>7. ASSUME NEW w \in Winner, OnMatchEnd(w)
        PROVE  Kinds
    <2>1. status # "accepting" /\ UNCHANGED <<effects, source, everConnected, accepted, declined>>
      BY <1>2, <1>7 DEF OnMatchEnd
    <2> QED
      BY <1>0, <1>7, <2>1, FinishMatchKind DEF OnMatchEnd
  <1>8. ASSUME NEW r \in PlayerFault \cup ServerFault, NEW m \in SUBSET Player, OnMatchAbandoned(r, m)
        PROVE  Kinds
    <2>1. status # "accepting" /\ UNCHANGED <<effects, source, everConnected, accepted, declined>>
      BY <1>2, <1>8 DEF OnMatchAbandoned
    <2>2. CASE r \in ServerFault
      <3>1. r \in Reason \ {"accept_declined", "accept_timeout"}
        BY <2>2 DEF Reason, ServerFault
      <3> QED
        BY <1>8, <2>1, <2>2, <3>1, CancelMatchKind DEF OnMatchAbandoned
    <2>3. CASE r \notin ServerFault
      BY <1>0, <1>8, <2>1, <2>3, AbandonMatchKind DEF OnMatchAbandoned
    <2> QED
      BY <2>2, <2>3
  <1> QED
    BY <1>1, <1>3, <1>4, <1>5, <1>6, <1>7, <1>8 DEF Webhook

\* So is everything the loops pick up
LEMMA LoopsKind ==
    ASSUME TypeOK, SafetyInv, Loops \/ InspectLost
    PROVE  Kinds
  <1> USE DEF SafetyInv, Kinds
  <1>0. /\ "mode_unavailable" \in Reason \ {"accept_declined", "accept_timeout"}
        /\ "unknown_map" \in Reason \ {"accept_declined", "accept_timeout"}
        /\ "no_server" \in Reason \ {"accept_declined", "accept_timeout"}
    BY DEF Reason
  <1>1. CASE AllocRefused
    <2>1. UNCHANGED <<effects, source, everConnected, accepted, declined>>
      BY <1>1 DEF AllocRefused, notAlloc, effects, fixedVars, tableVars, answerVars
    <2> QED
      BY <1>0, <1>1, <2>1, CancelMatchKind DEF AllocRefused
  <1>2. CASE AllocWait
    <2>1. UNCHANGED <<effects, source, everConnected, accepted, declined>>
      BY <1>2 DEF AllocWait, notAlloc, effects, fixedVars, tableVars, answerVars
    <2> QED
      BY <1>0, <1>2, <2>1, CancelMatchKind DEF AllocWait
  <1>3. CASE AllocStart
    BY <1>3 DEF AllocStart, notAlloc, Bystands, outcomeRow, rowVars, effects, fixedVars, tableVars, answerVars
  <1>4. CASE ExpireAccept
    <2>1. /\ accepted' \in SUBSET Player /\ declined' \in SUBSET Player
          /\ accepted' = accepted /\ declined' = declined
          /\ UNCHANGED <<effects, source, everConnected>> /\ status = "accepting"
      BY <1>4 DEF ExpireAccept, TypeOK, LocalTypeOK, effects, fixedVars, tableVars, answerVars
    <2>2. ApplyAcceptOutcome(ResolveAccept(accepted', declined', TRUE))
      BY <1>4, <2>1 DEF ExpireAccept
    <2> QED
      BY <2>1, <2>2, ApplyAcceptKind
  <1>5. CASE ExpireVetoStep
    BY <1>5, UsersKind DEF ExpireVetoStep, Vote, Users
  <1>6. CASE SelectStaleReady
    BY <1>6 DEF SelectStaleReady, notTimer, Bystands, outcomeRow, rowVars, effects, fixedVars, tableVars, answerVars
  <1>7. CASE SelectStuck
    BY <1>7 DEF SelectStuck, notTimer, Bystands, outcomeRow, rowVars, effects, fixedVars, tableVars, answerVars
  <1>8. CASE InspectTimeout
    BY <1>8 DEF InspectTimeout, notWatch, Bystands, outcomeRow, rowVars, effects, fixedVars, tableVars, answerVars
  <1>9. CASE Teardown
    BY <1>9 DEF Teardown, TeardownWhen, Bystands, outcomeRow, rowVars, effects, fixedVars, answerVars
  <1>10. CASE InspectLost
    BY <1>10 DEF InspectLost, notWatch, Bystands, outcomeRow, rowVars, effects, fixedVars, tableVars, answerVars
  <1> QED
    BY <1>1, <1>2, <1>3, <1>4, <1>5, <1>6, <1>7, <1>8, <1>9, <1>10 DEF Loops

\* So is every continuation of a handler
LEMMA InProgressKind ==
    ASSUME TypeOK, SafetyInv, InProgress
    PROVE  Kinds
  <1> USE DEF SafetyInv, Kinds
  <1>0. status \in Status
    BY DEF TypeOK, RowTypeOK
  <1>1. CASE AllocFailed
    <2>1. UNCHANGED <<effects, source, everConnected, accepted, declined>>
      BY <1>1 DEF AllocFailed, notAlloc, effects, fixedVars, tableVars, answerVars
    <2>2. CASE allocExpired
      <3>1. "server_start_failed" \in Reason \ {"accept_declined", "accept_timeout"}
        BY DEF Reason
      <3> QED
        BY <1>1, <2>1, <2>2, <3>1, CancelMatchKind DEF AllocFailed
    <2>3. CASE ~allocExpired
      BY <1>1, <2>1, <2>3 DEF AllocFailed, rowVars, Bystands, outcomeRow
    <2> QED
      BY <2>2, <2>3
  <1>2. CASE StoreConnect
    <2>1. UNCHANGED <<effects, source, everConnected, accepted, declined>>
      BY <1>2 DEF StoreConnect, StartReturned, notAlloc, effects, fixedVars, tableVars, answerVars
    <2>2. CASE status \in PreLive
      <3>1. AllAccepted /\ ~Ended
        BY <2>2 DEF OutcomeInv, AllAcceptedBeforeVeto, PreLive, Ended, Terminal
      <3>2. status' \in {"starting", "ready"}
        BY <1>2, <2>2 DEF StoreConnect, AttachServer
      <3> QED
        BY <1>2, <2>1, <3>1, <3>2 DEF StoreConnect, StartReturned, Moves, AllAccepted, Terminal, Watched
    <2>3. CASE status \notin PreLive
      BY <1>2, <2>1, <2>3 DEF StoreConnect, StartReturned, Bystands, outcomeRow
    <2> QED
      BY <2>2, <2>3
  <1>3. CASE ReadMissing
    BY <1>3 DEF ReadMissing, notTimer, Bystands, outcomeRow, rowVars, effects, fixedVars, tableVars, answerVars
  <1>4. CASE ExpireConnect
    <2>1. /\ UNCHANGED <<effects, source, everConnected, accepted, declined>>
          /\ status # "accepting"
      BY <1>4, BusyMeansOpened DEF ExpireConnect, notTimer, effects, fixedVars, tableVars, answerVars
    <2>2. connectMissing \in SUBSET Player
      BY DEF TypeOK, LocalTypeOK
    <2>3. CASE connectMissing = {}
      <3>1. "never_started" \in Reason \ {"accept_declined", "accept_timeout"}
        BY DEF Reason
      <3> QED
        BY <1>4, <2>1, <2>3, <3>1, CancelMatchKind DEF ExpireConnect
    <2>4. CASE connectMissing # {}
      BY <1>0, <1>4, <2>1, <2>2, <2>4, AbandonMatchKind DEF ExpireConnect
    <2> QED
      BY <2>3, <2>4
  <1>5. CASE CancelStuck
    <2>1. UNCHANGED <<effects, source, everConnected, accepted, declined>>
      BY <1>5 DEF CancelStuck, notTimer, effects, fixedVars, tableVars, answerVars
    <2>2. "server_never_ready" \in Reason \ {"accept_declined", "accept_timeout"}
      BY DEF Reason
    <2> QED
      BY <1>5, <2>1, <2>2, CancelMatchKind DEF CancelStuck
  <1>6. CASE EndLost
    BY <1>6, EndLostKind
  <1>7. CASE IssueCooldown \/ ReleaseServer \/ CancelTicket \/ RequeueTicket \/ EmitResult
    BY <1>7 DEF EffectStep
  <1> QED
    BY <1>1, <1>2, <1>3, <1>4, <1>5, <1>6, <1>7 DEF InProgress

\* So are the clock, a restart and the game server
LEMMA OutsideKind ==
    ASSUME TypeOK, SafetyInv, Clock \/ Crash \/ Game \/ UNCHANGED vars
    PROVE  Kinds
  <1> USE DEF Kinds
  <1>1. CASE Clock
    <2>1. PICK d : Elapse(d)
      BY <1>1 DEF Clock
    <2> QED
      BY <2>1 DEF Elapse, Bystands, outcomeRow, effects, fixedVars, tableVars, answerVars
  <1>2. CASE Game
    <2>1. UNCHANGED <<rowVars, fixedVars, answerVars, tableVars, everConnected>>
      BY <1>2 DEF Game, Server
    <2> QED
      BY <2>1 DEF Bystands, outcomeRow, rowVars, effects, fixedVars, tableVars, answerVars
  <1>3. CASE UNCHANGED vars
    BY <1>3 DEF vars, matchVars, Bystands, outcomeRow, rowVars, effects, fixedVars, tableVars, answerVars
  <1> QED
    BY <1>1, <1>2, <1>3

\* Every step of the match is of one of the five kinds
LEMMA StepKind ==
    ASSUME TypeOK, SafetyInv, [Next]_vars
    PROVE  Kinds
  BY UsersKind, WebhookKind, LoopsKind, InProgressKind, OutsideKind DEF Next

\* Whatever its kind, a step keeps what the invariant says of the outcome
LEMMA OutcomeStep ==
    ASSUME TypeOK, SafetyInv, [Next]_vars
    PROVE  OutcomeInv'
  <1>1. OutcomeInv
    BY DEF SafetyInv
  <1>2. CASE EffectStep
    BY <1>1, <1>2, IssueCooldownSafe, ReleaseServerSafe, TicketSafe, EmitResultSafe DEF EffectStep
  <1> QED
    BY <1>1, <1>2, StepKind, BystandsSafe, MovesSafe, EndsSafe, CrashSafe DEF Kinds

-----------------------------------------------------------------------------
\* While the players answer nothing else is going on

\* No step opens the accept window again
LEMMA AcceptingIsFirst ==
    ASSUME TypeOK, SafetyInv, [Next]_vars, status' = "accepting"
    PROVE  status = "accepting"
  <1>1. Bystands \/ EffectStep \/ Crash => status' = status
    BY DEF Bystands, EffectStep, Crash, IssueCooldown, ReleaseServer, CancelTicket, RequeueTicket,
           EmitResult, Emit, notTail, outcomeRow
  <1>2. ~Ends
    BY DEF Ends, Terminal
  <1> QED
    BY <1>1, <1>2, StepKind DEF Kinds, Moves

\* flow.ts 395-433: while the players answer, no step starts a server, a webhook or a timer pass
LEMMA QuietStep ==
    ASSUME TypeOK, SafetyInv, [Next]_vars
    PROVE  QuietWhileAccepting'
  <1> SUFFICES ASSUME status' = "accepting"
               PROVE  /\ inbox' = {} /\ game' = "off" /\ outbox' = <<>> /\ ~crashReport'
                      /\ timer' = "idle" /\ verdict' = "none"
    BY DEF QuietWhileAccepting
  <1>1. status = "accepting"
    BY AcceptingIsFirst
  <1>2. /\ inbox = {} /\ game = "off" /\ outbox = <<>> /\ ~crashReport
        /\ timer = "idle" /\ verdict = "none" /\ owed = Nothing
    BY <1>1 DEF SafetyInv, OutcomeInv, QuietWhileAccepting, NothingBeforeTheEnd, Ended, Terminal
  <1>3. CASE Users
    <2>1. UNCHANGED <<gameVars, loopVars, inbox>>
      <3>1. ASSUME NEW p \in Player, NEW a \in BOOLEAN, Respond(p, a)
            PROVE  UNCHANGED <<gameVars, loopVars, inbox>>
        BY <3>1 DEF Respond
      <3> QED
        BY <1>3, <3>1 DEF Users, Vote, SaveVeto, AdminCancel
    <2> QED
      BY <1>2, <2>1 DEF gameVars, loopVars
  <1>4. CASE Webhook
    BY <1>2, <1>4 DEF Webhook, Receive, Deliverables, OnServerReady, OnPlayerConnected, OnMatchStarted,
                      OnRoundEnd, OnMatchEnd, OnMatchAbandoned, Take
  <1>5. CASE Loops \/ InspectLost
    <2>1. CASE ExpireAccept
      BY <1>2, <2>1 DEF ExpireAccept, loopVars, gameVars
    <2>2. CASE ~ExpireAccept
      BY <1>1, <1>5, <2>2 DEF Loops, AllocRefused, AllocWait, AllocStart, ExpireVetoStep, SaveVeto,
                SelectStaleReady, SelectStuck, InspectTimeout, InspectLost, Teardown, TeardownWhen,
                Watched, Ended, Terminal
    <2> QED
      BY <2>1, <2>2
  <1>6. CASE AllocFailed \/ StoreConnect
    BY <1>1, <1>2, <1>6 DEF AllocFailed, StoreConnect, StartReturned, StopServer, notAlloc, PreLive
  <1>7. CASE InProgress /\ ~AllocFailed /\ ~StoreConnect
    BY <1>2, <1>7 DEF InProgress, ReadMissing, ExpireConnect, CancelStuck, EndLost, Judge, IssueCooldown,
              ReleaseServer, CancelTicket, RequeueTicket, EmitResult, Emit, Nothing, Effects
  <1>8. CASE Clock \/ Crash
    BY <1>2, <1>8 DEF Clock, Elapse, Crash, loopVars, gameVars
  <1>9. CASE Game
    <2>1. UNCHANGED <<loopVars, inbox>>
      BY <1>9 DEF Game, Server
    <2>2. FALSE
      BY <1>2, <1>9 DEF Game, Server, WarmupStart, GoLive, EndRound, Join, Connect, Disconnect, FinishMap,
                Abandon, ProcessCrash, NextWebhook, Playing, Running
    <2> QED
      BY <2>2
  <1>10. CASE UNCHANGED vars
    BY <1>2, <1>10 DEF vars, matchVars, loopVars, gameVars
  <1> QED
    BY <1>3, <1>4, <1>5, <1>6, <1>7, <1>8, <1>9, <1>10 DEF Next

\* A match is created with the invariant
LEMMA InitSafe == Init => SafetyInv
  <1> SUFFICES ASSUME Init PROVE SafetyInv
    OBVIOUS
  <1>1. status \in {"accepting", "veto", "allocating"} /\ ~Ended
    BY DEF Init, Ended, Terminal
  <1>2. /\ cancelReason = "none" /\ winner = "none" /\ ratingApplied = FALSE /\ owed = Nothing
        /\ cooldown = {} /\ ratings = 0 /\ results = 0
        /\ \A t \in Ticket : ticket[t] # "waiting"
    BY DEF Init
  <1>3. status # "accepting" => AllAccepted
    BY DEF Init, AllAccepted
  <1>4. QuietWhileAccepting
    BY DEF Init, GameInit, QuietWhileAccepting
  <1>5. Nothing.cooldowns = {} /\ Nothing.requeue = {} /\ ~Nothing.emit
    BY DEF Nothing, Effects
  <1>6. NothingBeforeTheEnd /\ RequeueIsFree
    BY <1>2, <1>5 DEF NothingBeforeTheEnd, RequeueIsFree
  <1>7. AllAcceptedBeforeVeto /\ RatedOnce
    BY <1>1, <1>2, <1>3 DEF AllAcceptedBeforeVeto, RatedOnce, PreLive
  <1>8. BlameNeedsProof /\ NobodysFault /\ AcceptedNotPunished
    BY <1>1, <1>2, <1>5 DEF BlameNeedsProof, NobodysFault, AcceptedNotPunished, Blamed
  <1>9. WaitingTicketIsFree /\ ResultOnce
    BY <1>2 DEF WaitingTicketIsFree, ResultOnce
  <1> QED
    BY <1>4, <1>5, <1>2, <1>6, <1>7, <1>8, <1>9 DEF SafetyInv, OutcomeInv

-----------------------------------------------------------------------------
\* The invariant holds of every match, and so do the properties it is made of
THEOREM SafetyHolds == Spec => []SafetyInv
  <1>1. TypeOK /\ SafetyInv /\ [Next]_vars => SafetyInv'
    BY OutcomeStep, QuietStep DEF SafetyInv
  <1> QED
    BY <1>1, InitSafe, TypeCorrect, PTL DEF Spec

\* flow.ts 395-433: no match goes past the accept window, or gets a winner, without all accepting
THEOREM AllAcceptedHolds == Spec => []AllAcceptedBeforeVeto
  <1>1. SafetyInv => AllAcceptedBeforeVeto
    BY DEF SafetyInv, OutcomeInv
  <1> QED
    BY <1>1, SafetyHolds, PTL

\* flow.ts 1089-1167, 1202-1270: the ratings move at most once, with the winner
THEOREM RatedOnceHolds == Spec => []RatedOnce
  <1>1. SafetyInv => RatedOnce
    BY DEF SafetyInv, OutcomeInv
  <1> QED
    BY <1>1, SafetyHolds, PTL

\* CONTRACTS.md 222: nobody is punished for an absence, and no forfeit is rated, without proof
\* that the server could be reached
THEOREM BlameNeedsProofHolds == Spec => []BlameNeedsProof
  <1>1. SafetyInv => BlameNeedsProof
    BY DEF SafetyInv, OutcomeInv
  <1> QED
    BY <1>1, SafetyHolds, PTL

\* flow.ts 905-908, 1288-1289: a match that ended through no fault of a player blames nobody
THEOREM NobodysFaultHolds == Spec => []NobodysFault
  <1>1. SafetyInv => NobodysFault
    BY DEF SafetyInv, OutcomeInv
  <1> QED
    BY <1>1, SafetyHolds, PTL

\* accept.ts 30-31: nobody is punished for the answer of someone else
THEOREM AcceptedNotPunishedHolds == Spec => []AcceptedNotPunished
  <1>1. SafetyInv => AcceptedNotPunished
    BY DEF SafetyInv, OutcomeInv
  <1> QED
    BY <1>1, SafetyHolds, PTL

\* accept.ts 34-43: a ticket is back in the queue only without an offender on it
THEOREM WaitingTicketIsFreeHolds == Spec => []WaitingTicketIsFree
  <1>1. SafetyInv => WaitingTicketIsFree
    BY DEF SafetyInv, OutcomeInv
  <1> QED
    BY <1>1, SafetyHolds, PTL

\* The result listeners hear of a match at most once, after everything else
THEOREM ResultOnceHolds == Spec => []ResultOnce
  <1>1. SafetyInv => ResultOnce
    BY DEF SafetyInv, OutcomeInv
  <1> QED
    BY <1>1, SafetyHolds, PTL

\* flow.ts 776, 1092, 1206, 1293: no handler changes how a match ended
THEOREM TerminalIsFinalHolds == Spec => TerminalIsFinal
  <1>1. TypeOK /\ SafetyInv /\ [Next]_vars
           => [Ended => UNCHANGED <<status, cancelReason, winner, ratingApplied, ratings>>]_vars
    <2> SUFFICES ASSUME TypeOK, SafetyInv, [Next]_vars, Ended
                 PROVE  UNCHANGED <<status, cancelReason, winner, ratingApplied, ratings>>
      OBVIOUS
    <2>1. Bystands \/ EffectStep \/ Crash
      BY StepKind DEF Kinds, Moves, Ends
    <2> QED
      BY <2>1 DEF Bystands, EffectStep, Crash, IssueCooldown, ReleaseServer, CancelTicket, RequeueTicket,
                  EmitResult, Emit, notTail, outcomeRow
  <1> QED
    BY <1>1, TypeCorrect, SafetyHolds, PTL DEF Spec, TerminalIsFinal

-----------------------------------------------------------------------------
(***************************************************************************)
(* MatchFlow keeps the promise of MatchOutcome. A winner is decided only   *)
(* while the match has a server, because only a server that players could  *)
(* reach reports a result or a connected player, and they get its address  *)
(* in the step that starts the serving stage.                              *)
(***************************************************************************)

\* The events a server sends on its own are not those that players bring about
LEMMA NotPlayed ==
    /\ ServerReady \notin Played /\ MatchStarted \notin Played /\ ServerCrashed \notin Played
    /\ \A n \in 1..Rounds : RoundEnd(n) \notin Played
    /\ \A r, m : MatchAbandoned(r, m) \notin Played
  <1>1. \A e \in Played : e.type \in {"player_connected", "match_end"}
    BY DEF Played, PlayerConnected, MatchEnd
  <1>2. /\ ServerReady.type = "server_ready" /\ MatchStarted.type = "match_started"
        /\ ServerCrashed.type = "match_abandoned"
        /\ \A n \in 1..Rounds : RoundEnd(n).type = "round_end"
        /\ \A r, m : MatchAbandoned(r, m).type = "match_abandoned"
    BY DEF ServerReady, MatchStarted, ServerCrashed, RoundEnd, MatchAbandoned
  <1> QED
    BY <1>1, <1>2

\* Until the address is stored nothing that the server queues speaks of a player
QueueUnplayed == \A i \in 1..Len(outbox) : outbox[i] \notin Played

\* Queueing another event leaves the queue without one that players bring about
LEMMA EnqueueUnplayed ==
    ASSUME outbox \in Seq(Event), QueueUnplayed, NEW e \in Event, e \notin Played, Enqueue(e)
    PROVE  QueueUnplayed'
  BY DEF QueueUnplayed, Enqueue

\* A server that is stopped keeps nobody and nothing queued
LEMMA StopUnplayed ==
    ASSUME StopServer
    PROVE  QueueUnplayed' /\ present' = {} /\ game' = "off"
  <1>1. outbox' = <<>> /\ present' = {} /\ game' = "off"
    BY DEF StopServer
  <1>2. Len(<<>>) = 0
    OBVIOUS
  <1>3. QueueUnplayed'
    BY <1>1, <1>2 DEF QueueUnplayed
  <1> QED
    BY <1>1, <1>3

\* What a server does on its own before anybody knows its address
LEMMA GameUnplayed ==
    ASSUME TypeOK, PlayedOnlyWhenServed, ~connect, Game
    PROVE  /\ present' = {} /\ game' # "live" /\ QueueUnplayed'
           /\ UNCHANGED <<connect, everConnected, inbox>>
  <1>1. /\ present = {} /\ game # "live" /\ QueueUnplayed
        /\ outbox \in Seq(Event)
    BY DEF PlayedOnlyWhenServed, QueueUnplayed, TypeOK, GameTypeOK
  <1>2. UNCHANGED <<connect, everConnected, inbox>>
    BY DEF Game, Server, serverVars
  <1>3. CASE Server(WarmupStart)
    BY <1>1, <1>2, <1>3, NotPlayed, EventType, EnqueueUnplayed DEF Server, WarmupStart
  <1>4. ASSUME NEW r \in PlayerFault, Server(Abandon(r))
        PROVE  present' = {} /\ game' # "live" /\ QueueUnplayed'
    <2>1. MatchAbandoned(r, Player \ present) \in Event
      BY EventType
    <2> QED
      BY <1>1, <1>4, <2>1, NotPlayed, EnqueueUnplayed DEF Server, Abandon
  <1>5. CASE Server(ProcessCrash)
    <2>1. outbox' = <<>> /\ present' = {} /\ game' = "dead"
      BY <1>5 DEF Server, ProcessCrash
    <2>2. Len(<<>>) = 0
      OBVIOUS
    <2> QED
      BY <1>2, <2>1, <2>2 DEF QueueUnplayed
  <1>6. CASE Server(NextWebhook)
    <2>1. outbox # <<>> /\ outbox' = Tail(outbox) /\ UNCHANGED <<game, present>>
      BY <1>6 DEF Server, NextWebhook
    <2>2. Len(outbox') = Len(outbox) - 1 /\ \A i \in 1..Len(outbox') : outbox'[i] = outbox[i + 1]
      BY <1>1, <2>1
    <2>3. QueueUnplayed'
      BY <1>1, <2>2 DEF QueueUnplayed
    <2> QED
      BY <1>1, <1>2, <2>1, <2>3
  <1>7. ASSUME NEW p \in Player, Server(Join(p)) \/ Server(Disconnect(p))
        PROVE  FALSE
    BY <1>1, <1>7 DEF Server, Join, Disconnect
  <1>8. CASE Server(GoLive) \/ Server(EndRound)
    BY <1>1, <1>8 DEF Server, GoLive, EndRound
  <1>9. ASSUME NEW w \in Winner, Server(FinishMap(w))
        PROVE  FALSE
    BY <1>1, <1>9 DEF Server, FinishMap
  <1> QED
    BY <1>2, <1>3, <1>4, <1>5, <1>6, <1>7, <1>8, <1>9 DEF Game

\* flow.ts 801-912: a webhook of a server without players does not store its address or touch it
LEMMA WebhookUnplayed ==
    ASSUME TypeOK, PlayedOnlyWhenServed, ~connect, Webhook
    PROVE  /\ inbox' \cap Played = {}
           /\ UNCHANGED <<connect, everConnected, game, present, outbox>>
  <1>1. inbox \cap Played = {} /\ QueueUnplayed /\ outbox \in Seq(Event)
    BY DEF PlayedOnlyWhenServed, QueueUnplayed, TypeOK, GameTypeOK
  <1>2. ASSUME NEW e, Take(e)
        PROVE  inbox' \cap Played = {} /\ e \notin Played
    BY <1>1, <1>2 DEF Take
  <1>3. ASSUME NEW e \in Deliverables, Receive(e)
        PROVE  inbox' \cap Played = {} /\ UNCHANGED <<connect, everConnected, game, present, outbox>>
    <2>1. e \notin Played
      <3>1. CASE outbox # <<>> /\ e = Head(outbox)
        <4>1. Len(outbox) >= 1 /\ Head(outbox) = outbox[1]
          BY <1>1, <3>1
        <4> QED
          BY <1>1, <3>1, <4>1 DEF QueueUnplayed
      <3>2. CASE e = ServerCrashed
        BY <3>2, NotPlayed
      <3> QED
        BY <1>3, <3>1, <3>2 DEF Deliverables
    <2> QED
      BY <1>1, <1>3, <2>1 DEF Receive, notHook, gameVars, serverVars
  <1>4. ASSUME NEW p \in Player, OnPlayerConnected(p)
        PROVE  FALSE
    BY <1>2, <1>4 DEF OnPlayerConnected, Played
  <1>5. CASE OnServerReady
    BY <1>2, <1>5 DEF OnServerReady, notHook, gameVars
  <1>6. CASE OnMatchStarted
    BY <1>2, <1>6 DEF OnMatchStarted, notHook, gameVars, serverVars
  <1>7. ASSUME NEW n \in 1..Rounds, OnRoundEnd(n)
        PROVE  inbox' \cap Played = {} /\ UNCHANGED <<connect, everConnected, game, present, outbox>>
    BY <1>2, <1>7 DEF OnRoundEnd, notHook, gameVars, serverVars
  <1>8. ASSUME NEW w \in Winner, OnMatchEnd(w)
        PROVE  FALSE
    BY <1>2, <1>8 DEF OnMatchEnd, Played
  <1>9. ASSUME NEW r \in PlayerFault \cup ServerFault, NEW m \in SUBSET Player, OnMatchAbandoned(r, m)
        PROVE  inbox' \cap Played = {} /\ UNCHANGED <<connect, everConnected, game, present, outbox>>
    BY <1>2, <1>9 DEF OnMatchAbandoned, notHook, gameVars, serverVars
  <1> QED
    BY <1>3, <1>4, <1>5, <1>6, <1>7, <1>8, <1>9 DEF Webhook

Untouched == UNCHANGED <<connect, everConnected, inbox, game, present, outbox>>

\* Answers, votes and an admin cancel do not touch the server
LEMMA UsersUntouched ==
    ASSUME Users
    PROVE  Untouched
  <1>1. ASSUME NEW p \in Player, NEW a \in BOOLEAN, Respond(p, a)
        PROVE  Untouched
    BY <1>1 DEF Respond, Untouched, serverVars, gameVars
  <1>2. CASE Vote \/ AdminCancel
    BY <1>2 DEF Vote, SaveVeto, AdminCancel, Untouched, serverVars, gameVars
  <1> QED
    BY <1>1, <1>2 DEF Users

\* The loops start and stop the server, and do nothing else to it
LEMMA LoopsUnplayed ==
    ASSUME Loops \/ InspectLost
    PROVE  \/ Untouched
           \/ (StartServer \/ StopServer) /\ UNCHANGED <<connect, everConnected, inbox>>
  <1>1. CASE AllocStart
    BY <1>1 DEF AllocStart, notAlloc, serverVars
  <1>2. CASE Teardown
    BY <1>2 DEF Teardown, TeardownWhen, serverVars
  <1>3. CASE AllocRefused \/ AllocWait
    BY <1>3 DEF AllocRefused, AllocWait, notAlloc, Untouched, serverVars, gameVars
  <1>4. CASE ExpireAccept \/ ExpireVetoStep
    BY <1>4 DEF ExpireAccept, ExpireVetoStep, SaveVeto, Untouched, serverVars, gameVars
  <1>5. CASE SelectStaleReady \/ SelectStuck
    BY <1>5 DEF SelectStaleReady, SelectStuck, notTimer, Untouched, serverVars, gameVars
  <1>6. CASE InspectTimeout \/ InspectLost
    BY <1>6 DEF InspectTimeout, InspectLost, notWatch, Untouched, serverVars, gameVars
  <1> QED
    BY <1>1, <1>2, <1>3, <1>4, <1>5, <1>6 DEF Loops

\* Of the handlers under way one stores the address, and only for a match that waits for it
LEMMA InProgressUnplayed ==
    ASSUME InProgress
    PROVE  \/ Untouched
           \/ StopServer /\ UNCHANGED <<connect, everConnected, inbox>>
           \/ StoreConnect /\ status \in PreLive /\ connect' /\ status' \in Watched
  <1>1. CASE AllocFailed
    BY <1>1 DEF AllocFailed, notAlloc, serverVars
  <1>2. CASE StoreConnect
    <2>1. CASE status \in PreLive
      BY <1>2, <2>1 DEF StoreConnect, AttachServer, Watched
    <2>2. CASE status \notin PreLive
      BY <1>2, <2>2 DEF StoreConnect, StartReturned, notAlloc
    <2> QED
      BY <2>1, <2>2
  <1>3. CASE ReadMissing \/ ExpireConnect \/ CancelStuck
    BY <1>3 DEF ReadMissing, ExpireConnect, CancelStuck, notTimer, Untouched, serverVars, gameVars
  <1>4. CASE EndLost
    BY <1>4 DEF EndLost, Judge, notWatch, Untouched, serverVars, gameVars
  <1>5. CASE ReleaseServer
    BY <1>5 DEF ReleaseServer, notTail, serverVars
  <1>6. CASE IssueCooldown \/ CancelTicket \/ RequeueTicket \/ EmitResult
    BY <1>6 DEF IssueCooldown, CancelTicket, RequeueTicket, EmitResult, Emit, notTail, Untouched,
                serverVars, gameVars
  <1> QED
    BY <1>1, <1>2, <1>3, <1>4, <1>5, <1>6 DEF InProgress

\* Only the stored address opens the way to a server, and it is never taken back
LEMMA ConnectOnce ==
    ASSUME TypeOK, [Next]_vars
    PROVE  UNCHANGED connect \/ (connect' /\ status' \in Watched)
  <1>1. CASE Webhook
    BY <1>1 DEF Webhook, Receive, OnServerReady, OnPlayerConnected, OnMatchStarted, OnRoundEnd,
                OnMatchEnd, OnMatchAbandoned, serverVars
  <1>2. CASE Clock \/ Crash \/ Game
    BY <1>2 DEF Clock, Elapse, Crash, Game, Server, serverVars
  <1>3. CASE UNCHANGED vars
    BY <1>3 DEF vars, matchVars, serverVars
  <1> QED
    BY <1>1, <1>2, <1>3, UsersUntouched, LoopsUnplayed, InProgressUnplayed DEF Next, Untouched

\* No step lets players on a server whose address is not stored, or leaves a served match unwatched
LEMMA PlayedStep ==
    ASSUME TypeOK, SafetyInv, PlayedOnlyWhenServed, [Next]_vars
    PROVE  PlayedOnlyWhenServed'
  <1>1. (connect /\ ~Ended => status \in Watched)'
    <2>1. CASE connect' /\ status' \in Watched
      BY <2>1
    <2>2. CASE UNCHANGED connect
      <3>1. Bystands \/ EffectStep \/ Crash => status' = status
        BY DEF Bystands, EffectStep, Crash, IssueCooldown, ReleaseServer, CancelTicket, RequeueTicket,
               EmitResult, Emit, notTail, outcomeRow
      <3> QED
        BY <2>2, <3>1, StepKind DEF Kinds, Ends, Moves, Ended, PlayedOnlyWhenServed
    <2> QED
      BY <2>1, <2>2, ConnectOnce
  <1>2. ASSUME ~connect'
        PROVE  /\ present' = {} /\ everConnected' = {} /\ game' # "live"
               /\ inbox' \cap Played = {}
               /\ QueueUnplayed'
    <2>1. ~connect
      BY <1>2, ConnectOnce
    <2>2. /\ present = {} /\ everConnected = {} /\ game # "live"
          /\ inbox \cap Played = {} /\ QueueUnplayed
      BY <2>1 DEF PlayedOnlyWhenServed, QueueUnplayed
    <2>3. CASE Untouched
      BY <2>2, <2>3 DEF Untouched, QueueUnplayed
    <2>4. CASE StopServer /\ UNCHANGED <<everConnected, inbox>>
      BY <2>2, <2>4, StopUnplayed
    <2>5. CASE StartServer /\ UNCHANGED <<everConnected, inbox>>
      BY <2>2, <2>5 DEF StartServer, QueueUnplayed
    <2>6. CASE Webhook
      BY <2>1, <2>2, <2>6, WebhookUnplayed DEF QueueUnplayed
    <2>7. CASE Game
      BY <2>1, <2>2, <2>7, GameUnplayed
    <2>8. CASE Crash
      BY <2>2, <2>8 DEF Crash, gameVars, QueueUnplayed
    <2>9. CASE Clock
      BY <2>3, <2>9 DEF Clock, Elapse, Untouched, serverVars, gameVars
    <2>10. CASE UNCHANGED vars
      BY <2>3, <2>10 DEF vars, matchVars, Untouched, serverVars, gameVars
    <2> QED
      BY <1>2, <2>3, <2>4, <2>5, <2>6, <2>7, <2>8, <2>9, <2>10,
         UsersUntouched, LoopsUnplayed, InProgressUnplayed DEF Next
  <1> QED
    BY <1>1, <1>2 DEF PlayedOnlyWhenServed, QueueUnplayed

\* A match is created without a server
LEMMA InitPlayed == Init => PlayedOnlyWhenServed
  <1> SUFFICES ASSUME Init PROVE PlayedOnlyWhenServed
    OBVIOUS
  <1>1. ~connect /\ present = {} /\ everConnected = {} /\ game = "off" /\ inbox = {} /\ outbox = <<>>
    BY DEF Init, GameInit
  <1>2. Len(<<>>) = 0
    OBVIOUS
  <1>3. QueueUnplayed
    BY <1>1, <1>2 DEF QueueUnplayed
  <1> QED
    BY <1>1, <1>3 DEF PlayedOnlyWhenServed, QueueUnplayed

\* flow.ts 703-734, 832-843: nobody plays, and nothing is won, on a server whose address the row lacks
THEOREM PlayedOnlyWhenServedHolds == Spec => []PlayedOnlyWhenServed
  <1>1. TypeOK /\ SafetyInv /\ PlayedOnlyWhenServed /\ [Next]_vars => PlayedOnlyWhenServed'
    BY PlayedStep
  <1> QED
    BY <1>1, InitPlayed, TypeCorrect, SafetyHolds, PTL DEF Spec

-----------------------------------------------------------------------------
\* The refinement

\* flow.ts 772-798, 1202-1286, 422-431: none of these transactions makes a match finished
LEMMA NeverFinishes ==
    /\ \A r, q, d : CancelMatch(r, q, d) => status' = status \/ status' = "cancelled"
    /\ \A m, r : AbandonMatch(m, r) => status' = status \/ status' \in {"abandoned", "cancelled"}
    /\ \A o : ApplyAcceptOutcome(o) =>
          status' = status \/ status' \in {"veto", "allocating", "cancelled"}
  <1>1. ASSUME NEW r, NEW q, NEW d, CancelMatch(r, q, d)
        PROVE  status' = status \/ status' = "cancelled"
    BY <1>1 DEF CancelMatch, CancelRow, EndRow, rowVars
  <1>2. ASSUME NEW m, NEW r, AbandonMatch(m, r)
        PROVE  status' = status \/ status' \in {"abandoned", "cancelled"}
    <2>1. CASE Ended \/ ratingApplied
      BY <1>2, <2>1 DEF AbandonMatch, rowVars
    <2>2. CASE ~(Ended \/ ratingApplied)
      BY <1>2, <2>2 DEF AbandonMatch, EndRow
    <2> QED
      BY <2>1, <2>2
  <1>3. ASSUME NEW o, ApplyAcceptOutcome(o)
        PROVE  status' = status \/ status' \in {"veto", "allocating", "cancelled"}
    BY <1>3 DEF ApplyAcceptOutcome, EnterPostAccept, EndRow, rowVars
  <1> QED
    BY <1>1, <1>2, <1>3

\* Only a match_end finishes a match
LEMMA FinishedByMatchEnd ==
    ASSUME [Next]_vars, status' = "finished", status # "finished"
    PROVE  \E w \in Winner : MatchEnd(w) \in inbox
  <1>1. ASSUME NEW w \in Winner, OnMatchEnd(w)
        PROVE  MatchEnd(w) \in inbox
    BY <1>1 DEF OnMatchEnd, Take
  <1>2. CASE Users
    <2>1. ASSUME NEW p \in Player, NEW a \in BOOLEAN, Respond(p, a)
          PROVE  FALSE
      BY <2>1, NeverFinishes DEF Respond
    <2> QED
      BY <1>2, <2>1, NeverFinishes DEF Users, Vote, SaveVeto, AdminCancel
  <1>3. CASE Webhook
    <2>1. ASSUME NEW r \in PlayerFault \cup ServerFault, NEW m \in SUBSET Player, OnMatchAbandoned(r, m)
          PROVE  FALSE
      BY <2>1, NeverFinishes DEF OnMatchAbandoned
    <2>2. ASSUME \/ \E e \in Deliverables : Receive(e)
                 \/ OnServerReady \/ OnMatchStarted
                 \/ \E p \in Player : OnPlayerConnected(p)
                 \/ \E n \in 1..Rounds : OnRoundEnd(n)
          PROVE  FALSE
      BY <2>2 DEF Receive, OnServerReady, OnMatchStarted, OnPlayerConnected, OnRoundEnd, rowVars
    <2> QED
      BY <1>1, <1>3, <2>1, <2>2 DEF Webhook
  <1>4. CASE Loops \/ InspectLost
    BY <1>4, NeverFinishes DEF Loops, AllocRefused, AllocWait, AllocStart, ExpireAccept, ExpireVetoStep,
              SaveVeto, SelectStaleReady, SelectStuck, InspectTimeout, InspectLost, Teardown, TeardownWhen,
              rowVars
  <1>5. CASE AllocFailed \/ ExpireConnect \/ CancelStuck
    BY <1>5, NeverFinishes DEF AllocFailed, ExpireConnect, CancelStuck, rowVars
  <1>6. CASE StoreConnect
    BY <1>6 DEF StoreConnect, AttachServer
  <1>7. CASE EndLost
    BY <1>7 DEF EndLost, Judge, EndLostRow, EndRow, rowVars
  <1>8. CASE ReadMissing \/ EffectStep
    BY <1>8 DEF ReadMissing, EffectStep, IssueCooldown, ReleaseServer, CancelTicket, RequeueTicket,
                EmitResult, Emit, notTail, rowVars
  <1>9. CASE Clock \/ Crash \/ Game
    BY <1>9 DEF Clock, Elapse, Crash, Game, Server, rowVars
  <1>10. CASE UNCHANGED vars
    BY <1>10 DEF vars, matchVars, rowVars
  <1> QED
    BY <1>2, <1>3, <1>4, <1>5, <1>6, <1>7, <1>8, <1>9, <1>10 DEF Next, InProgress, EffectStep

\* A match gets a winner only while it is being served
LEMMA WinnerNeedsServer ==
    ASSUME SafetyInv, PlayedOnlyWhenServed, [Next]_vars, Ends, winner' # "none"
    PROVE  status \in Watched
  <1>1. connect
    <2> SUFFICES ASSUME ~connect PROVE FALSE
      OBVIOUS
    <2>1. everConnected = {} /\ inbox \cap Played = {}
      BY DEF PlayedOnlyWhenServed
    <2>2. status' \in {"finished", "abandoned"}
      BY DEF Ends, SoundEnd
    <2>3. status' # "abandoned"
      BY <2>1 DEF Ends, SoundEnd
    <2>4. \E w \in Winner : MatchEnd(w) \in inbox
      BY <2>2, <2>3, FinishedByMatchEnd DEF Ends, Ended, Terminal
    <2> QED
      BY <2>1, <2>4 DEF Played
  <1> QED
    BY <1>1 DEF PlayedOnlyWhenServed, Ends

\* Every step of the match is a step of its promise, or a stutter
LEMMA StepRefines ==
    ASSUME TypeOK, TypeOK', SafetyInv, PlayedOnlyWhenServed, [Next]_vars
    PROVE  [Outcome!OutcomeNext]_(Outcome!outcomeVars)
  <1> DEFINE counts == source # "challenge"
  <1>1. CASE Bystands \/ EffectStep \/ Crash
    <2>1. UNCHANGED <<status, winner, ratings, source>>
      BY <1>1 DEF Bystands, EffectStep, Crash, IssueCooldown, ReleaseServer, CancelTicket, RequeueTicket,
                  EmitResult, Emit, notTail, outcomeRow, fixedVars
    <2> QED
      BY <2>1 DEF Outcome!outcomeVars, StageOf
  <1>2. CASE Moves
    <2>1. /\ UNCHANGED <<winner, ratings, source>>
          /\ status \notin Terminal /\ status' \notin Terminal
          /\ status \in Watched => status' \in Watched
      BY <1>2 DEF Moves, Ended
    <2>2. CASE status \in Watched \/ status' \notin Watched
      <3>1. UNCHANGED StageOf(status)
        BY <2>1, <2>2 DEF StageOf
      <3> QED
        BY <2>1, <3>1 DEF Outcome!outcomeVars
    <2>3. CASE status \notin Watched /\ status' \in Watched
      <3>1. StageOf(status) = "forming" /\ StageOf(status') = "serving"
        BY <2>1, <2>3 DEF StageOf
      <3> QED
        BY <2>1, <3>1 DEF Outcome!OutcomeNext, Outcome!Serve
    <2> QED
      BY <2>2, <2>3
  <1>3. CASE Ends
    <2>1. /\ StageOf(status') = "over" /\ StageOf(status) # "over"
          /\ source' = source /\ winner = "none" /\ ratings = 0
          /\ ratings' = IF winner' # "none" /\ source # "challenge" THEN 1 ELSE 0
      <3>1. StageOf(status') = "over" /\ StageOf(status) # "over" /\ source' = source
        BY <1>3 DEF Ends, Ended, StageOf, Terminal, Watched
      <3>2. winner = "none" /\ ratings = 0
        BY <1>3 DEF Ends, SafetyInv, OutcomeInv, NothingBeforeTheEnd, RatedOnce
      <3>3. ratings' = IF winner' # "none" /\ source # "challenge" THEN 1 ELSE 0
        BY <1>3 DEF Ends, SoundEnd
      <3> QED
        BY <3>1, <3>2, <3>3
    <2>2. CASE winner' = "none"
      BY <2>1, <2>2 DEF Outcome!OutcomeNext, Outcome!Close
    <2>3. CASE winner' # "none"
      <3>1. StageOf(status) = "serving"
        BY <1>3, <2>3, WinnerNeedsServer DEF StageOf, Ends, Ended
      <3>2. winner' \in Team
        BY <2>3 DEF TypeOK, RowTypeOK
      <3>3. ratings' = IF counts THEN 1 ELSE 0
        BY <2>1, <2>3
      <3> QED
        BY <2>1, <3>1, <3>2, <3>3 DEF Outcome!OutcomeNext, Outcome!Decide
    <2> QED
      BY <2>2, <2>3
  <1> QED
    BY <1>1, <1>2, <1>3, StepKind DEF Kinds

\* A match is created as the promise begins
LEMMA InitRefines == Init => Outcome!OutcomeInit
  <1> SUFFICES ASSUME Init PROVE Outcome!OutcomeInit
    OBVIOUS
  <1>1. status \in {"accepting", "veto", "allocating"} /\ winner = "none" /\ ratings = 0
    BY DEF Init
  <1>2. StageOf(status) = "forming"
    BY <1>1 DEF StageOf, Terminal, Watched
  <1> QED
    BY <1>1, <1>2 DEF Outcome!OutcomeInit

\* Every match forms, is served and is over once, and the ratings move with the winner or never
THEOREM Refinement == Spec => Outcome!OutcomeSpec
  <1>1. TypeOK /\ TypeOK' /\ SafetyInv /\ PlayedOnlyWhenServed /\ [Next]_vars
           => [Outcome!OutcomeNext]_(Outcome!outcomeVars)
    BY StepRefines
  <1> QED
    BY <1>1, InitRefines, TypeCorrect, SafetyHolds, PlayedOnlyWhenServedHolds, PTL
       DEF Spec, Outcome!OutcomeSpec

\* The same as the property that TLC checks
THEOREM KeepsPromiseHolds == Spec => KeepsPromise
  BY Refinement DEF KeepsPromise

=============================================================================
