------------------------------ MODULE QueueTickets ------------------------------
(***************************************************************************)
(* Queue tickets, parties and challenges on their way into a match:        *)
(* modules/queue/service.ts, queue/loop.ts, challenges/service.ts and the  *)
(* two functions of match/flow.ts that create a match from them.           *)
(*                                                                         *)
(* A ticket is a row of queue_tickets (Postgres) and three Redis keys: its *)
(* JSON (live), an entry in the sorted set of every mode (queued) and the  *)
(* key of its party (partyKey).  No transaction spans the two stores, so a *)
(* request is a job of a worker and every call to a store is an action of  *)
(* its own; what an earlier call returned is kept in the job.  Requests of *)
(* all players, the matchmaker loop and the tail of a failed accept window *)
(* are jobs, and a restart of the API loses all of them.                   *)
(*                                                                         *)
(* Left out: bans, cooldowns, trust floors, ratings and closed modes only  *)
(* refuse a join or change which tickets the matchmaker proposes, and a    *)
(* proposal is any set of queued tickets here.  Opponents outside Player   *)
(* are left out as well; that a ticket of theirs is lost fails the claim.  *)
(*                                                                         *)
(* Bounds: Ticket, Match and Worker are the tickets and matches ever       *)
(* created and the requests under way at once; MaxRequests and MaxCrashes  *)
(* the requests and restarts there are in all.                             *)
(***************************************************************************)
EXTENDS Parties

CONSTANTS Ticket, Mode, Match, Worker, NoTicket, NoMatch, MaxCrashes,
    MaxPasses,  \* matchmaker passes at once: 1 while the lock of the loop outlives a pass
    MaxRequests,
    Mixes   \* which kinds of request meet in one behaviour

ASSUME QueueAssumption == NoTicket \notin Ticket /\ NoMatch \notin Match /\ MaxCrashes \in Nat /\ MaxPasses \in Nat
ASSUME RequestsAssumption == MaxRequests \in Nat
ASSUME MixesAssumption ==
    Mixes \subseteq SUBSET {"join", "leave", "party", "kick", "claim", "fail", "challenge", "withdraw"}

VARIABLES
    row,        \* queue_tickets
    live,       \* modes in the ticket's JSON, {} when the key is absent
    queued,     \* sorted set of each mode
    partyKey,   \* ticket id under the key of each party
    match,      \* matches, with the tickets and players they consumed
    challenge,  \* the one challenge looked at
    job,        \* what each worker is doing
    requests,   \* number of requests so far
    ops,        \* the kinds of request of this behaviour
    crashes

storeVars == <<row, live, queued, partyKey>>
queueVars == <<storeVars, match, challenge, job, requests, ops, crashes>>
vars == <<partyVars, queueVars>>

Statuses == {"none", "waiting", "matched", "cancelled"}
Steps == {"idle", "look", "insert", "adopt", "merge", "put", "assert", "shrink", "cancel", "drop", "cancelRow",
          "joinParty", "claim", "load", "lost", "consume", "create", "discard", "requeue", "reopen", "direct", "answer"}

Idle == [pc |-> "idle", party |-> NoParty, ticket |-> NoTicket, modes |-> {}, gone |-> {}, after |-> "idle",
         tickets |-> {}, copies |-> [t \in Ticket |-> {}], rest |-> <<>>, match |-> NoMatch, players |-> {}, link |-> 0]

QueueTypeOK ==
    /\ row \in [Ticket -> [status : Statuses, party : Party \cup {NoParty}, players : SUBSET Player, modes : SUBSET Mode]]
    /\ live \in [Ticket -> SUBSET Mode]
    /\ queued \in [Mode -> SUBSET Ticket]
    /\ partyKey \in [Party -> Ticket \cup {NoTicket}]
    /\ match \in [Match -> [status : {"none", "claimed", "active", "over"}, tickets : SUBSET Ticket, players : SUBSET Player]]
    /\ challenge \in [status : {"none", "open", "accepted", "declined", "cancelled", "expired"},
                     by : Player \cup {NoPlayer}]
    /\ \A w \in Worker :
        /\ job[w].pc \in Steps
        /\ job[w].pc \in {"merge", "put", "assert", "shrink", "drop", "cancelRow", "reopen"} => job[w].ticket \in Ticket
        /\ job[w].pc \in {"load", "create", "discard", "requeue", "answer"} => job[w].match \in Match
    /\ requests \in 0..MaxRequests
    /\ ops \in Mixes
    /\ crashes \in 0..MaxCrashes

TypeOK == PartyTypeOK /\ QueueTypeOK

Init ==
    /\ PartyInit
    /\ row = [t \in Ticket |-> [status |-> "none", party |-> NoParty, players |-> {}, modes |-> {}]]
    /\ live = [t \in Ticket |-> {}]
    /\ queued = [m \in Mode |-> {}]
    /\ partyKey = [g \in Party |-> NoTicket]
    /\ match = [k \in Match |-> [status |-> "none", tickets |-> {}, players |-> {}]]
    /\ challenge = [status |-> "none", by |-> NoPlayer]
    /\ job = [w \in Worker |-> Idle]
    /\ requests = 0
    /\ ops \in Mixes
    /\ crashes = 0

-----------------------------------------------------------------------------
\* inActiveMatch: players of a match that is not over. A match that is only claimed has no row yet
InMatch == UNION {match[k].players : k \in {k \in Match : match[k].status = "active"}}

Waiting(t) == row[t].status = "waiting"
WaitingOf(g) == {t \in Ticket : Waiting(t) /\ row[t].party = g}

\* ticketForParty: the party's key, then the JSON it names
TicketForParty(g) ==
    IF partyKey[g] # NoTicket /\ live[partyKey[g]] # {} THEN partyKey[g] ELSE NoTicket

Begin(w, step, j) ==
    /\ job[w] = Idle
    /\ job' = [job EXCEPT ![w] = [j EXCEPT !.pc = step]]
    /\ requests < MaxRequests
    /\ requests' = requests + 1

At(w, step) == job[w].pc = step
Goto(w, step) == job' = [job EXCEPT ![w].pc = step]
End(w) == job' = [job EXCEPT ![w] = Idle]

\* One MULTI: the JSON, the party key, and the sorted sets of the modes that came and went
PutLive(t, modes, gone) ==
    /\ live' = [live EXCEPT ![t] = modes]
    /\ partyKey' = [partyKey EXCEPT ![row[t].party] = t]
    /\ queued' = [m \in Mode |-> IF m \in modes THEN queued[m] \cup {t}
                                 ELSE IF m \in gone THEN queued[m] \ {t} ELSE queued[m]]

\* The modes are those of the copy the caller holds. The party key goes whichever ticket it names
DropLive(t, modes) ==
    /\ live' = [live EXCEPT ![t] = {}]
    /\ partyKey' = [partyKey EXCEPT ![row[t].party] = NoTicket]
    /\ queued' = [m \in Mode |-> IF m \in modes THEN queued[m] \ {t} ELSE queued[m]]

UnchangedLive == UNCHANGED <<live, queued, partyKey>>

SetStatus(S, status) == row' = [t \in Ticket |-> IF t \in S THEN [row[t] EXCEPT !.status = status] ELSE row[t]]

notJob == <<match, challenge, ops, crashes>>
notQueue == <<partyVars, notJob, requests>>

-----------------------------------------------------------------------------
\* join

\* The party is read, or created, and its players must not be in a match. Only the leader may queue
Join(w, p, modes) ==
    /\ "join" \in ops
    /\ modes = Mode \/ "leave" \in ops
    /\ \E g \in Party :
        /\ EnsureParty(p, g)
        /\ leader'[g] = p
        /\ {q \in Player : memberOf'[q] = g} \cap InMatch = {}
        /\ Begin(w, "look", [Idle EXCEPT !.party = g, !.modes = modes,
                                         !.players = {q \in Player : memberOf'[q] = g}])
    /\ UNCHANGED <<storeVars, notJob>>

\* A live ticket of the party gets the modes added, otherwise a new row is inserted
JoinLook(w) ==
    /\ At(w, "look")
    /\ LET t == TicketForParty(job[w].party)
       IN  IF t = NoTicket
           THEN Goto(w, "insert")
           ELSE job' = [job EXCEPT ![w].pc = "merge", ![w].ticket = t, ![w].modes = @ \cup live[t], ![w].players = {}]
    /\ UNCHANGED <<storeVars, notQueue>>

\* The unique index allows one waiting row per party; the join that lost takes the winner's
InsertRow(w) ==
    /\ At(w, "insert")
    /\ \E t \in Ticket :
        /\ row[t].status = "none"
        /\ row' = [row EXCEPT ![t] = [status |-> "waiting", party |-> job[w].party,
                                      players |-> job[w].players, modes |-> job[w].modes]]
        /\ job' = [job EXCEPT ![w].pc = "put", ![w].ticket = t, ![w].after = "assert", ![w].players = {}]
    /\ UnchangedLive /\ UNCHANGED notQueue

JoinInsert(w) ==
    \/ WaitingOf(job[w].party) = {} /\ InsertRow(w)
    \/ /\ At(w, "insert")
       /\ WaitingOf(job[w].party) # {}
       /\ Goto(w, "adopt")
       /\ UNCHANGED <<storeVars, notQueue>>

JoinAdopt(w) ==
    /\ At(w, "adopt")
    /\ IF WaitingOf(job[w].party) = {}
       THEN End(w)
       ELSE \E t \in WaitingOf(job[w].party) :
                job' = [job EXCEPT ![w].pc = "merge", ![w].ticket = t, ![w].modes = @ \cup row[t].modes,
                                   ![w].players = {}]
    /\ UNCHANGED <<storeVars, notQueue>>

\* A row that is not waiting any more is left as it is
JoinMerge(w) ==
    /\ At(w, "merge")
    /\ row' = [row EXCEPT ![job[w].ticket].modes = IF Waiting(job[w].ticket) THEN job[w].modes ELSE @]
    /\ job' = [job EXCEPT ![w].pc = "put", ![w].after = "assert"]
    /\ UnchangedLive /\ UNCHANGED notQueue

\* The ticket becomes visible to the matchmaker
Put(w) ==
    /\ At(w, "put")
    /\ PutLive(job[w].ticket, job[w].modes, job[w].gone)
    /\ IF job[w].after = "idle" THEN End(w) ELSE Goto(w, job[w].after)
    /\ UNCHANGED <<row, notQueue>>

\* assertRoster reads the party again once the ticket is live
JoinAssert(w) ==
    /\ At(w, "assert")
    /\ IF Members(job[w].party) = row[job[w].ticket].players
       THEN End(w)
       ELSE job' = [job EXCEPT ![w].pc = "drop", ![w].after = "idle"]
    /\ UNCHANGED <<storeVars, notQueue>>

-----------------------------------------------------------------------------
\* leave, closeMode and cancelParty

\* Any member may pull the party out of some modes or of all. closeMode does the same for one ticket after another
Leave(w, g, modes) ==
    /\ "leave" \in ops
    /\ TicketForParty(g) # NoTicket
    /\ LET t == TicketForParty(g)
           remaining == live[t] \ modes
       IN  Begin(w, IF remaining = {} THEN "cancel" ELSE "shrink",
                 [Idle EXCEPT !.ticket = t, !.modes = remaining, !.gone = live[t] \ remaining, !.rest = <<g>>])
    /\ UNCHANGED <<partyVars, storeVars, notJob>>

\* The row is updated whatever its status
Shrink(w) ==
    /\ At(w, "shrink")
    /\ row' = [row EXCEPT ![job[w].ticket].modes = job[w].modes]
    /\ Goto(w, "put")
    /\ UnchangedLive /\ UNCHANGED notQueue

\* cancelParty for the parties in `rest`, one after the other. An accepted challenge goes on with its match

CancelParty(w) ==
    /\ At(w, "cancel")
    /\ IF job[w].rest = <<>>
       THEN IF job[w].players = {} THEN End(w) ELSE Goto(w, "direct")
       ELSE LET t == TicketForParty(Head(job[w].rest))
            IN  job' = [job EXCEPT ![w].rest = Tail(@),
                                   ![w].pc = IF t = NoTicket THEN "cancel" ELSE "drop",
                                   ![w].ticket = t,
                                   ![w].modes = IF t = NoTicket THEN {} ELSE live[t],
                                   ![w].after = "cancel"]
    /\ UNCHANGED <<storeVars, notQueue>>

Drop(w) ==
    /\ At(w, "drop")
    /\ DropLive(job[w].ticket, job[w].modes)
    /\ Goto(w, "cancelRow")
    /\ UNCHANGED <<row, notQueue>>

CancelRow_Never(w) ==
    /\ At(w, "cancelRow")
    /\ IF job[w].after = "idle" THEN End(w) ELSE Goto(w, job[w].after)
    /\ UNCHANGED <<storeVars, notQueue>>

CancelRow(w) ==
    /\ At(w, "cancelRow")
    /\ SetStatus({job[w].ticket} \cap {t \in Ticket : Waiting(t)}, "cancelled")
    /\ IF job[w].after = "idle" THEN End(w) ELSE Goto(w, job[w].after)
    /\ UnchangedLive /\ UNCHANGED notQueue

-----------------------------------------------------------------------------
\* Party changes. The transaction commits, then the hook cancels the tickets of the parties that changed

PartyChanged(w, parties) ==
    /\ Begin(w, "cancel", [Idle EXCEPT !.rest = parties])
    /\ UNCHANGED <<storeVars, notJob>>

Leaves(w, p) ==
    /\ "party" \in ops
    /\ memberOf[p] # NoParty
    /\ LeaveParty(p, memberOf[p], InMatch)
    /\ PartyChanged(w, <<memberOf[p]>>)

Kicks(w, p, target) ==
    /\ "kick" \in ops
    /\ memberOf[p] # NoParty
    /\ Kick(p, memberOf[p], target, InMatch)
    /\ PartyChanged(w, <<memberOf[p]>>)

\* Leader and link change without the hook
Leads(p, target) ==
    /\ "kick" \in ops
    /\ memberOf[p] # NoParty
    /\ p # target
    /\ SetLeader(p, memberOf[p], target) \/ RotateInvite(p, memberOf[p])
    /\ UNCHANGED queueVars

\* The link and the player's own party are read before the lock
Joins(w, p, g) ==
    /\ "party" \in ops
    /\ g \notin Unused /\ g \notin disbanded
    /\ memberOf[p] # g
    /\ Begin(w, "joinParty", [Idle EXCEPT !.party = g, !.link = invite[g], !.players = {p},
                                          !.rest = <<memberOf[p]>>])
    /\ UNCHANGED <<partyVars, storeVars, notJob>>

JoinsLocked(w) ==
    /\ At(w, "joinParty")
    /\ \E p \in job[w].players :
        LET g == job[w].party
            from == Head(job[w].rest)
        IN  IF MayJoin(p, g, job[w].link, from, InMatch)
            THEN /\ JoinParty(p, g, job[w].link, from)
                 /\ job' = [job EXCEPT ![w] = [Idle EXCEPT !.pc = "cancel",
                              !.rest = IF from = NoParty THEN <<g>> ELSE <<from, g>>]]
            ELSE End(w) /\ UNCHANGED partyVars
    /\ UNCHANGED <<storeVars, notJob, requests>>

-----------------------------------------------------------------------------
\* The matchmaker. The lock of its loop can expire during a long pass, so two passes may run at once

InPass(w) == job[w].pc \in {"claim", "load", "lost", "consume", "create"}

\* A proposal is made of the tickets the pass has read
Propose(w, m, S) ==
    /\ "claim" \in ops
    /\ Cardinality({v \in Worker : InPass(v)}) < MaxPasses
    /\ S # {}
    /\ S \subseteq {t \in queued[m] : live[t] # {}}
    /\ Begin(w, "claim", [Idle EXCEPT !.tickets = S])
    /\ UNCHANGED <<partyVars, storeVars, notJob>>

\* All tickets are still waiting and become matched, or none does
ClaimAll_Unchecked(w) ==
    /\ At(w, "claim")
    /\ \E k \in Match :
        /\ match[k].status = "none"
        /\ match' = [match EXCEPT ![k] = [status |-> "claimed", tickets |-> job[w].tickets,
                                          players |-> UNION {row[t].players : t \in job[w].tickets}]]
        /\ job' = [job EXCEPT ![w].pc = "load", ![w].match = k]
    /\ SetStatus(job[w].tickets, "matched")
    /\ UnchangedLive /\ UNCHANGED <<partyVars, challenge, requests, ops, crashes>>

ClaimAll(w) ==
    /\ \A t \in job[w].tickets : Waiting(t)
    /\ ClaimAll_Unchecked(w)

LoadTickets(w) ==
    /\ At(w, "load")
    /\ job' = [job EXCEPT ![w].pc = "consume", ![w].tickets = {},
                          ![w].copies = [t \in Ticket |-> IF t \in job[w].tickets THEN live[t] ELSE {}]]
    /\ UNCHANGED <<storeVars, notQueue>>

\* A ticket was lost, one of ours or one of the opponents'. The lost ones leave Redis
ClaimLost(w) ==
    /\ At(w, "claim")
    /\ job' = [job EXCEPT ![w].pc = "lost", ![w].tickets = {t \in @ : ~Waiting(t)}]
    /\ UNCHANGED <<storeVars, notQueue>>

\* The JSON of the next lost ticket is read, and dropped by the next step
ReadLost(w) ==
    /\ At(w, "lost")
    /\ IF job[w].tickets = {}
       THEN End(w)
       ELSE \E t \in job[w].tickets :
                job' = [job EXCEPT ![w].tickets = @ \ {t}, ![w].copies[t] = live[t],
                                   ![w].pc = IF live[t] = {} THEN "lost" ELSE "consume"]
    /\ UNCHANGED <<storeVars, notQueue>>

\* Tickets are dropped by the copies read before. After the last one the match is inserted
Consume(w) ==
    /\ At(w, "consume")
    /\ IF \A t \in Ticket : job[w].copies[t] = {}
       THEN Goto(w, IF job[w].match = NoMatch THEN "lost" ELSE "create") /\ UnchangedLive
       ELSE \E t \in Ticket :
                /\ job[w].copies[t] # {}
                /\ DropLive(t, job[w].copies[t])
                /\ job' = [job EXCEPT ![w].copies[t] = {}]
    /\ UNCHANGED <<row, notQueue>>

CreateFromQueue(w) ==
    /\ At(w, "create")
    /\ match' = [match EXCEPT ![job[w].match].status = "active"]
    /\ End(w)
    /\ UNCHANGED <<partyVars, storeVars, challenge, requests, ops, crashes>>

-----------------------------------------------------------------------------
\* The end of a match. MatchFlow says which tickets go back: here it is any set of them

MatchOver(k) ==
    /\ match[k].status = "active"
    /\ match' = [match EXCEPT ![k].status = "over"]
    /\ UNCHANGED <<partyVars, storeVars, challenge, job, requests, ops, crashes>>

MatchFails(w, k, back) ==
    /\ "fail" \in ops
    /\ match[k].status = "active" /\ match[k].tickets # {}
    /\ back \subseteq match[k].tickets
    /\ match' = [match EXCEPT ![k].status = "over"]
    /\ Begin(w, "discard", [Idle EXCEPT !.tickets = back, !.match = k])
    /\ UNCHANGED <<partyVars, storeVars, challenge, ops, crashes>>

\* cancelTicket, whatever the status, for the tickets that do not go back
Discard(w) ==
    /\ At(w, "discard")
    /\ SetStatus(match[job[w].match].tickets \ job[w].tickets, "cancelled")
    /\ Goto(w, "requeue")
    /\ UnchangedLive /\ UNCHANGED notQueue

\* The party must be the same and have no live ticket
Requeue(w) ==
    /\ At(w, "requeue")
    /\ IF job[w].tickets = {}
       THEN End(w) /\ UNCHANGED row
       ELSE \E t \in job[w].tickets :
            LET g == row[t].party
                same == g \notin disbanded /\ Members(g) = row[t].players
            IN  IF ~same \/ partyKey[g] # NoTicket
                THEN SetStatus({t}, "cancelled") /\ job' = [job EXCEPT ![w].tickets = @ \ {t}]
                ELSE /\ job' = [job EXCEPT ![w].pc = "reopen", ![w].tickets = @ \ {t}, ![w].ticket = t,
                                           ![w].modes = row[t].modes]
                     /\ UNCHANGED row
    /\ UnchangedLive /\ UNCHANGED notQueue

\* The unique index refuses a second waiting ticket of the party
Reopen(w) ==
    /\ At(w, "reopen")
    /\ IF WaitingOf(row[job[w].ticket].party) # {}
       THEN SetStatus({job[w].ticket}, "cancelled") /\ Goto(w, "requeue")
       ELSE /\ SetStatus({job[w].ticket}, "waiting")
            /\ job' = [job EXCEPT ![w].pc = "put", ![w].after = "requeue"]
    /\ UnchangedLive /\ UNCHANGED notQueue

-----------------------------------------------------------------------------
\* Challenges. One is looked at; its creator is `challenge.by`

CreateChallenge(p) ==
    /\ "challenge" \in ops
    /\ challenge.status = "none"
    /\ challenge' = [status |-> "open", by |-> p]
    /\ UNCHANGED <<partyVars, storeVars, match, job, requests, ops, crashes>>

\* The players of one side: the player alone, or the party he leads
Side(p, solo) ==
    IF solo \/ memberOf[p] = NoParty THEN {p}
    ELSE IF leader[memberOf[p]] = p THEN Members(memberOf[p]) ELSE {}

Answering(w) == job[w].players # {} /\ job[w].pc \in {"cancel", "drop", "cancelRow", "direct"}

PartyOf(p) == IF memberOf[p] = NoParty THEN <<>> ELSE <<memberOf[p]>>

\* The answer holds a lock that can expire once the match is being created, for that can wait for an agent
Accept_NoMatchCheck(w, p) ==
    /\ challenge.status = "open" /\ challenge.by # p
    /\ \A v \in Worker : ~Answering(v)
    /\ \E solo \in BOOLEAN :
        LET home == Side(challenge.by, solo)
            away == Side(p, solo)
        IN  /\ home # {} /\ Cardinality(home) = Cardinality(away) /\ home \cap away = {}
            /\ Begin(w, "cancel", [Idle EXCEPT !.players = home \cup away,
                                             !.rest = PartyOf(challenge.by) \o PartyOf(p)])
    /\ UNCHANGED <<partyVars, storeVars, notJob>>

Accept(w, p) ==
    /\ Accept_NoMatchCheck(w, p)
    /\ job'[w].players \cap InMatch = {}

\* createDirectMatch
CreateDirect(w) ==
    /\ At(w, "direct")
    /\ \E k \in Match :
        /\ match[k].status = "none"
        /\ match' = [match EXCEPT ![k] = [status |-> "active", tickets |-> {}, players |-> job[w].players]]
        /\ job' = [job EXCEPT ![w] = [Idle EXCEPT !.pc = "answer", !.match = k]]
    /\ UNCHANGED <<partyVars, storeVars, challenge, requests, ops, crashes>>

\* A challenge that is not open any more stays as it is, and the match is there all the same
Answer(w) ==
    /\ At(w, "answer")
    /\ challenge' = IF challenge.status = "open" THEN [challenge EXCEPT !.status = "accepted"] ELSE challenge
    /\ End(w)
    /\ UNCHANGED <<partyVars, storeVars, match, requests, ops, crashes>>

\* The target declines, the creator withdraws, or the challenge expires. None of them takes the lock
CloseChallenge ==
    /\ "withdraw" \in ops
    /\ challenge.status = "open"
    /\ \E s \in {"declined", "cancelled", "expired"} : challenge' = [challenge EXCEPT !.status = s]
    /\ UNCHANGED <<partyVars, storeVars, match, job, requests, ops, crashes>>

-----------------------------------------------------------------------------
Crash ==
    /\ crashes < MaxCrashes
    /\ crashes' = crashes + 1
    /\ job' = [w \in Worker |-> Idle]
    /\ UNCHANGED <<partyVars, storeVars, match, challenge, requests, ops>>

QueueRequest(w) ==
    \/ \E p \in Player, modes \in (SUBSET Mode) \ {{}} : Join(w, p, modes)
    \/ \E g \in Party, modes \in (SUBSET Mode) \ {{}} : Leave(w, g, modes)
    \/ JoinLook(w) \/ JoinInsert(w) \/ JoinAdopt(w) \/ JoinMerge(w) \/ JoinAssert(w)
    \/ Put(w) \/ Shrink(w) \/ CancelParty(w) \/ Drop(w) \/ CancelRow(w)

PartyRequest(w) ==
    \/ \E p \in Player : Leaves(w, p)
    \/ \E p, target \in Player : Kicks(w, p, target) \/ Leads(p, target)
    \/ \E p \in Player, g \in Party : Joins(w, p, g)
    \/ JoinsLocked(w)

Matchmaking(w) ==
    \/ \E m \in Mode, S \in SUBSET Ticket : Propose(w, m, S)
    \/ ClaimAll(w) \/ LoadTickets(w) \/ ClaimLost(w) \/ ReadLost(w) \/ Consume(w) \/ CreateFromQueue(w)

MatchEnds(w) ==
    \/ \E k \in Match : MatchOver(k) \/ \E back \in SUBSET Ticket : MatchFails(w, k, back)
    \/ Discard(w) \/ Requeue(w) \/ Reopen(w)

ChallengeRequest(w) ==
    \/ \E p \in Player : CreateChallenge(p) \/ Accept(w, p)
    \/ CreateDirect(w) \/ Answer(w) \/ CloseChallenge

Next ==
    \/ \E w \in Worker :
        QueueRequest(w) \/ PartyRequest(w) \/ Matchmaking(w) \/ MatchEnds(w) \/ ChallengeRequest(w)
    \/ Crash

Spec == Init /\ [][Next]_vars

-----------------------------------------------------------------------------
\* Nothing is under way and nothing was lost
Quiet == crashes = 0 /\ \A w \in Worker : job[w] = Idle

\* A ticket goes to one match at a time, although two passes or two modes can propose it at once,
\* a failed match puts it back, and a restart may cut a claim. Nor does a challenge make two matches, although
\* its lock may expire while the match is being created
Using(t) == {k \in Match : match[k].status \in {"claimed", "active"} /\ t \in match[k].tickets}
OfChallenge == {k \in Match : match[k].status = "active" /\ match[k].tickets = {}}
ClaimedOnce ==
    /\ \A t \in Ticket : Cardinality(Using(t)) <= 1
    /\ Cardinality(OfChallenge) <= 1

\* A row that waits can be found by the matchmaker: no order of joins, leaves, party changes and claims leaves a
\* ticket waiting in Postgres that is nowhere in Redis. A ticket that came back from a match is excepted: it may
\* be dropped by a pass that lost it before it came back
WaitingIsQueued ==
    Quiet => \A t \in Ticket : (Waiting(t) /\ \A k \in Match : t \notin match[k].tickets)
                                  => live[t] # {} /\ \E m \in Mode : t \in queued[m]
=============================================================================
