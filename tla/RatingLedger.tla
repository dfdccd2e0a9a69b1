---------------------------- MODULE RatingLedger ----------------------------
(***************************************************************************)
(* Ratings of one mode and their rollback when a cheater is confirmed:      *)
(* apps/api/src/modules/rating/service.ts and replay.ts.                   *)
(*                                                                         *)
(* Matches are applied (inside the transaction that ends them) and         *)
(* rollbacks run (from a ban or a confirmed case) at the same time. They   *)
(* meet in the rating rows of their players, each locked until its         *)
(* transaction ends, and in the table of matches rolled back. What a       *)
(* transaction writes is seen when it commits.                             *)
(*                                                                         *)
(* A Glicko-2 rating is the sequence of results it has been computed from, *)
(* each with the strength of its opponents stored beside it; the default   *)
(* rating is the empty one. Left out: the arithmetic, the window of days a *)
(* rollback looks back, entries of kind "rollback", which a replay skips,  *)
(* and "adjust", which nothing writes. Bound: MaxRollbacks.                *)
(***************************************************************************)
EXTENDS Naturals, Sequences, FiniteSets

CONSTANTS RatedPlayer, Game, Tx,
          Lineup,           \* the two teams of a game
          Preceding,        \* Preceding[p]: the players whose steamId sorts before that of p
          Excluded,         \* whom a game may leave unrated
          MaxRollbacks,     \* bound
          NoTx

ASSUME LineupAssumption ==
    /\ NoTx \notin Tx
    /\ \A g \in Game : /\ Lineup[g] \in (SUBSET RatedPlayer) \X (SUBSET RatedPlayer)
                       /\ Lineup[g][1] \cap Lineup[g][2] = {}

VARIABLES
    event,      \* rating_events of each player, oldest first
    rating,     \* ratings: the results behind the value, and the counters
    undone,     \* rating_rollbacks: the matches rolled back
    held,       \* the transaction that has locked the rating row of a player
    tx,
    rollbacks

ledgerVars == <<event, rating, undone, held, tx, rollbacks>>

NoWork == [step |-> "idle"]
Doing(t, step) == tx[t].step = step
SideIn(p, g) == IF p \in Lineup[g][1] THEN 1 ELSE 2
PlayersOf(g) == Lineup[g][1] \cup Lineup[g][2]
Rated(g) == \E p \in RatedPlayer : \E i \in 1..Len(event[p]) : event[p][i].game = g

NewRating == [results |-> <<>>, played |-> 0, wins |-> 0, losses |-> 0]

LedgerInit ==
    /\ event = [p \in RatedPlayer |-> <<>>]
    /\ rating = [p \in RatedPlayer |-> NewRating]
    /\ undone = {}
    /\ held = [p \in RatedPlayer |-> NoTx]
    /\ tx = [t \in Tx |-> NoWork]
    /\ rollbacks = 0

Unlocked(t) == [p \in RatedPlayer |-> IF held[p] = t THEN NoTx ELSE held[p]]

-----------------------------------------------------------------------------
\* applyMatch: `winner` is a side, or 0 for a draw; who is in `exclude` stays unrated

BeginApply(t, g, winner, exclude) ==
    /\ Doing(t, "idle")
    /\ ~Rated(g) /\ \A u \in Tx : ~(Doing(u, "apply") /\ tx[u].game = g)
    /\ tx' = [tx EXCEPT ![t] = [step |-> "apply", game |-> g, winner |-> winner, exclude |-> exclude, todo |-> PlayersOf(g)]]
    /\ UNCHANGED <<event, rating, undone, held, rollbacks>>

\* lockRows takes the rows in the order of the steamIds
LockNext(t) ==
    /\ Doing(t, "apply")
    /\ \E p \in tx[t].todo :
        /\ Preceding[p] \cap tx[t].todo = {}
        /\ held[p] = NoTx
        /\ held' = [held EXCEPT ![p] = t]
        /\ tx' = [tx EXCEPT ![t].todo = @ \ {p}]
    /\ UNCHANGED <<event, rating, undone, rollbacks>>

ScoreOf(p, g, winner) == IF winner = 0 THEN "draw" ELSE IF SideIn(p, g) = winner THEN "win" ELSE "loss"
One(b) == IF b THEN 1 ELSE 0

Played(r, g, score) ==
    [results |-> Append(r.results, g), played |-> r.played + 1,
     wins |-> r.wins + One(score = "win"), losses |-> r.losses + One(score = "loss")]

CommitApply(t) ==
    /\ Doing(t, "apply") /\ tx[t].todo = {}
    /\ LET g == tx[t].game
           rated == PlayersOf(g) \ tx[t].exclude
           S(p) == ScoreOf(p, g, tx[t].winner)
       IN  /\ event' = [p \in RatedPlayer |->
                IF p \in rated
                THEN Append(event[p], [game |-> g, score |-> S(p), start |-> rating[p].results, voided |-> FALSE])
                ELSE event[p]]
           /\ rating' = [p \in RatedPlayer |-> IF p \in rated THEN Played(rating[p], g, S(p)) ELSE rating[p]]
    /\ held' = Unlocked(t)
    /\ tx' = [tx EXCEPT ![t] = NoWork]
    /\ UNCHANGED <<undone, rollbacks>>

-----------------------------------------------------------------------------
\* rollbackCheater

Counting(p) == {event[p][i] : i \in {j \in 1..Len(event[p]) : ~event[p][j].voided}}
WonBy(c) == {e.game : e \in {w \in Counting(c) : w.score = "win"}}

\* The wins of the cheater that no rollback has taken yet
BeginRollback(t, c) ==
    /\ Doing(t, "idle") /\ rollbacks < MaxRollbacks
    /\ WonBy(c) \ undone # {}
    /\ tx' = [tx EXCEPT ![t] = [step |-> "claim", cheater |-> c, games |-> WonBy(c) \ undone]]
    /\ rollbacks' = rollbacks + 1
    /\ UNCHANGED <<event, rating, undone, held>>

\* Goes on at once
ClaimGames_NoConflict(t) ==
    /\ Doing(t, "claim")
    /\ tx' = [tx EXCEPT ![t].step = "read"]
    /\ UNCHANGED <<event, rating, undone, held, rollbacks>>

\* The insert into rating_rollbacks waits for a transaction that has one of the matches, then ignores
\* the conflict
Claimed(u) == IF tx[u].step \in {"read", "replay"} THEN tx[u].games ELSE {}
ClaimGames(t) ==
    /\ Doing(t, "claim")
    /\ \A u \in Tx \ {t} : Claimed(u) \cap tx[t].games = {}
    /\ tx' = [tx EXCEPT ![t].step = "read"]
    /\ UNCHANGED <<event, rating, undone, held, rollbacks>>

\* The results of the other team in these matches that still count
Victims(c, g) == Lineup[g][3 - SideIn(c, g)]
LostTo(p, c, games) == {g \in games : p \in Victims(c, g) /\ \E e \in Counting(p) : e.game = g}

ReadVictims(t) ==
    /\ Doing(t, "read")
    /\ LET void == [p \in RatedPlayer |-> LostTo(p, tx[t].cheater, tx[t].games)]
       IN  tx' = [tx EXCEPT ![t] = [step |-> "replay", games |-> @.games, void |-> void,
                                    todo |-> {p \in RatedPlayer : void[p] # {}}, new |-> <<>>]]
    /\ UNCHANGED <<event, rating, undone, held, rollbacks>>

\* From the first entry that becomes void on: what an earlier rollback took is back
Replay_FromVoided(history, void) ==
    LET after[i \in 0..Len(history)] ==
            IF i = 0 THEN <<>>
            ELSE IF history[i].game \in void /\ \A j \in 1..(i - 1) : history[j].game \notin void
            THEN history[i].start
            ELSE IF history[i].voided \/ history[i].game \in void THEN after[i - 1]
            ELSE Append(after[i - 1], history[i].game)
    IN  after[Len(history)]

\* replayRatings from the oldest entry, without what is or becomes void
Replay(history, void) ==
    LET after[i \in 0..Len(history)] ==
            IF i = 0 THEN IF history = <<>> THEN <<>> ELSE history[1].start
            ELSE IF history[i].voided \/ history[i].game \in void THEN after[i - 1]
            ELSE Append(after[i - 1], history[i].game)
    IN  after[Len(history)]

Minus(n, k) == IF n > k THEN n - k ELSE 0
WithoutVoid(p, void) ==
    LET lost == {g \in void : \E i \in 1..Len(event[p]) : event[p][i].game = g /\ event[p][i].score = "loss"}
        won == {g \in void : \E i \in 1..Len(event[p]) : event[p][i].game = g /\ event[p][i].score = "win"}
    IN  [results |-> Replay(event[p], void), played |-> Minus(rating[p].played, Cardinality(void)),
         wins |-> Minus(rating[p].wins, Cardinality(won)), losses |-> Minus(rating[p].losses, Cardinality(lost))]

\* Without the lock on the row
ReplayVictim_NoLock(t, p) ==
    /\ Doing(t, "replay") /\ p \in tx[t].todo
    /\ tx' = [tx EXCEPT ![t].todo = @ \ {p},
                        ![t].new = [q \in DOMAIN @ \cup {p} |-> IF q = p THEN WithoutVoid(p, tx[t].void[p]) ELSE @[q]]]
    /\ UNCHANGED <<event, rating, undone, held, rollbacks>>

\* One victim, in the order the query happened to return: the row is locked, the whole history replayed
ReplayVictim(t, p) ==
    /\ Doing(t, "replay") /\ p \in tx[t].todo /\ held[p] = NoTx
    /\ held' = [held EXCEPT ![p] = t]
    /\ tx' = [tx EXCEPT ![t].todo = @ \ {p},
                        ![t].new = [q \in DOMAIN @ \cup {p} |-> IF q = p THEN WithoutVoid(p, tx[t].void[p]) ELSE @[q]]]
    /\ UNCHANGED <<event, rating, undone, rollbacks>>

CommitRollback(t) ==
    /\ Doing(t, "replay") /\ tx[t].todo = {}
    /\ undone' = undone \cup tx[t].games
    /\ event' = [p \in RatedPlayer |-> [i \in 1..Len(event[p]) |->
                    [event[p][i] EXCEPT !.voided = @ \/ event[p][i].game \in tx[t].void[p]]]]
    /\ rating' = [p \in RatedPlayer |-> IF p \in DOMAIN tx[t].new THEN tx[t].new[p] ELSE rating[p]]
    /\ held' = Unlocked(t)
    /\ tx' = [tx EXCEPT ![t] = NoWork]
    /\ UNCHANGED rollbacks

-----------------------------------------------------------------------------
\* External: Postgres ends one of two transactions that wait for each other. The webhook that ends a match is
\* sent again, a rollback is not
Wants(t, p) ==
    /\ tx[t].step \in {"apply", "replay"} /\ p \in tx[t].todo
    /\ Doing(t, "apply") => Preceding[p] \cap tx[t].todo = {}
WaitsFor(t, u) == \E p \in RatedPlayer : held[p] = u /\ Wants(t, p)
\* A rollback asks for one row at a time; the one it has come to is held by the other
Stuck(t) == \E u \in Tx \ {t} : WaitsFor(t, u) /\ WaitsFor(u, t)

Abort(t) ==
    /\ Stuck(t)
    /\ held' = Unlocked(t)
    /\ tx' = [tx EXCEPT ![t] = NoWork]
    /\ UNCHANGED <<event, rating, undone, rollbacks>>

LedgerNext ==
    \E t \in Tx :
        \/ \E g \in Game, winner \in 0..2, exclude \in Excluded : BeginApply(t, g, winner, exclude)
        \/ LockNext(t) \/ CommitApply(t)
        \/ \E c \in RatedPlayer : BeginRollback(t, c)
        \/ ClaimGames(t) \/ ReadVictims(t)
        \/ \E p \in RatedPlayer : ReplayVictim(t, p)
        \/ CommitRollback(t) \/ Abort(t)

LedgerSpec == LedgerInit /\ [][LedgerNext]_ledgerVars

-----------------------------------------------------------------------------
\* rating/service.ts 146-148: whatever matches and rollbacks ran at once, a rating is what its results give
\* that have not been voided, in their order, and the counters count them; a match is rolled back as a whole:
\* its losers keep no result of it, and nothing else is void
Counts(p) == {i \in 1..Len(event[p]) : ~event[p][i].voided}
RatingIsReplay ==
    \A p \in RatedPlayer :
        LET Count(score) == Cardinality({i \in Counts(p) : event[p][i].score = score})
        IN  /\ Len(rating[p].results) = Cardinality(Counts(p))
            /\ \A i \in Counts(p) :
                  rating[p].results[Cardinality({j \in Counts(p) : j <= i})] = event[p][i].game
            /\ rating[p].played = Cardinality(Counts(p))
            /\ rating[p].wins = Count("win") /\ rating[p].losses = Count("loss")
            /\ \A i \in 1..Len(event[p]) :
                  event[p][i].voided <=> event[p][i].score = "loss" /\ event[p][i].game \in undone
=============================================================================
