-------------------------------- MODULE Bracket --------------------------------
(***************************************************************************)
(* Single elimination: apps/api/src/modules/tournaments/bracket.ts.        *)
(*                                                                         *)
(* A bracket is a function from <<round, index>> to bracket matches.  All  *)
(* operators are pure, as the functions of the source are; one that throws *)
(* there is guarded by its caller here.  Seeds are left out once the       *)
(* entries are placed, and the maps of a match are in module Series.       *)
(***************************************************************************)
EXTENDS Integers, FiniteSets, Sequences

CONSTANTS Entry, NoEntry, Game, NoGame,
    Rating      \* the rating an entry is seeded by, a tie being broken by the time of sign-up

ASSUME BracketAssumption ==
    /\ NoEntry \notin Entry /\ NoGame \notin Game /\ IsFiniteSet(Entry)
    /\ Rating \in [Entry -> Nat] /\ \A e, f \in Entry : e # f => Rating[e] # Rating[f]

Side == {"a", "b"}
Other(s) == IF s = "a" THEN "b" ELSE "a"
OpenStatuses == {"ready", "provisioning", "live"}
Resolution == {"none", "played", "bye", "walkover", "forfeit", "double_forfeit", "void", "disqualified", "admin_decision"}

Keys(rounds) == UNION {{r} \X (0..(2^(rounds - r) - 1)) : r \in 1..rounds}
RoundsOf(b) == CHOOSE r \in {k[1] : k \in DOMAIN b} : \A k \in DOMAIN b : k[1] <= r
FinalKey(b) == <<RoundsOf(b), 0>>

BracketMatch ==
    [side : [Side -> Entry \cup {NoEntry}], known : SUBSET Side,
     status : {"pending", "done"} \cup OpenStatuses, live : Game \cup {NoGame},
     winner : Entry \cup {NoEntry}, resolution : Resolution]

-----------------------------------------------------------------------------
\* Seeds in bracket order: every seed of the order before meets the one it adds up to one more than
\* the number of seeds with
Spread(order) ==
    [i \in 1..(2 * Len(order)) |-> LET s == order[(i + 1) \div 2]
                                   IN  IF i % 2 = 1 THEN s ELSE 2 * Len(order) + 1 - s]
SeedPositions(rounds) ==
    LET order[n \in 0..(rounds - 1)] == IF n = 0 THEN <<1, 2>> ELSE Spread(order[n - 1])
    IN  order[rounds - 1]

\* The seed of an entry, and the entry of a seed
SeedOf(entries, e) == Cardinality({f \in entries : Rating[f] >= Rating[e]})
Seeded(entries, seed) ==
    LET there == {e \in entries : SeedOf(entries, e) = seed}
    IN  IF there = {} THEN NoEntry ELSE CHOOSE e \in there : TRUE

RoundsFor(n) == CHOOSE r \in 1..n : 2^r >= n /\ \A q \in 1..n : 2^q >= n => r <= q

\* The winner goes to the upper side of the next match from an even index and to the lower from an odd one
Finish_UpperSide(b, k, winner, resolution) ==
    LET up == <<k[1] + 1, k[2] \div 2>>
        done == [b EXCEPT ![k].status = "done", ![k].winner = winner,
                          ![k].resolution = resolution, ![k].live = NoGame]
    IN  IF up \notin DOMAIN b THEN done
        ELSE [done EXCEPT ![up].side = [@ EXCEPT !["a"] = winner], ![up].known = @ \cup {IF "a" \in @ THEN "b" ELSE "a"}]

Finish(b, k, winner, resolution) ==
    LET up == <<k[1] + 1, k[2] \div 2>>
        s == IF k[2] % 2 = 0 THEN "a" ELSE "b"
        done == [b EXCEPT ![k].status = "done", ![k].winner = winner,
                          ![k].resolution = resolution, ![k].live = NoGame]
    IN  IF up \notin DOMAIN b THEN done
        ELSE [done EXCEPT ![up].side = [@ EXCEPT ![s] = winner], ![up].known = @ \cup {s}]

\* A match whose sides are known becomes ready, or is over when a side is empty
SettleMatch(b, k) ==
    LET there == {s \in Side : b[k].side[s] # NoEntry}
    IN  IF there = Side THEN [b EXCEPT ![k].status = "ready"]
        ELSE IF there = {} THEN Finish(b, k, NoEntry, "void")
        ELSE Finish(b, k, b[k].side[CHOOSE s \in there : TRUE], IF k[1] = 1 THEN "bye" ELSE "walkover")

\* In any order, as each match is settled by its own sides
SettleOne(b) ==
    LET unsettled == {k \in DOMAIN b : b[k].status = "pending" /\ b[k].known = Side}
    IN  IF unsettled = {} THEN b ELSE SettleMatch(b, CHOOSE k \in unsettled : TRUE)

\* Until nothing changes, which takes less steps than the bracket has places
Settle(b) ==
    LET size == 2^RoundsOf(b)
        after[i \in 0..size] == IF i = 0 THEN b ELSE SettleOne(after[i - 1])
    IN  after[size]

BuildBracket(entries) ==
    LET rounds == RoundsFor(Cardinality(entries))
        At(i) == Seeded(entries, SeedPositions(rounds)[i])
    IN  Settle([k \in Keys(rounds) |->
            [side |-> [s \in Side |-> IF k[1] = 1 THEN At(2 * k[2] + (IF s = "a" THEN 1 ELSE 2)) ELSE NoEntry],
             known |-> IF k[1] = 1 THEN Side ELSE {}, status |-> "pending",
             live |-> NoGame, winner |-> NoEntry, resolution |-> "none"]])

-----------------------------------------------------------------------------
PlayableMatches(b) == {k \in DOMAIN b : b[k].status = "ready"}

ClaimGame(b, S) == [k \in DOMAIN b |-> IF k \in S THEN [b[k] EXCEPT !.status = "provisioning"] ELSE b[k]]

ReleaseGame(b, S) ==
    [k \in DOMAIN b |-> IF k \in S /\ b[k].status = "provisioning" THEN [b[k] EXCEPT !.status = "ready"] ELSE b[k]]

StartGame(b, k, game) == [b EXCEPT ![k].status = "live", ![k].live = game]

\* The game did not run, or it or a series ended level: it is played again
CancelGame(b, k) == [b EXCEPT ![k].status = "ready", ![k].live = NoGame]

\* recordGame of a single map, recordSeries of a series
RecordGame(b, k, s) == Settle(Finish(b, k, b[k].side[s], "played"))

Forfeit(b, k, losers) ==
    Settle(IF losers = Side THEN Finish(b, k, NoEntry, "double_forfeit")
           ELSE Finish(b, k, b[k].side[CHOOSE s \in Side \ losers : TRUE], "forfeit"))

Disqualify(b, k, loser) == Settle(Finish(b, k, b[k].side[Other(loser)], "disqualified"))

Decide(b, k, s) == Settle(Finish(b, k, b[k].side[s], "admin_decision"))

IsComplete(b) == b[FinalKey(b)].status = "done"

\* Who lost by forfeit or disqualification earns no placement
LoserOf_Any(m) == IF m.winner = NoEntry THEN {} ELSE {m.side[s] : s \in Side} \ {m.winner, NoEntry}

LoserOf(m) ==
    IF m.winner = NoEntry \/ m.resolution \in {"forfeit", "disqualified"} THEN {}
    ELSE {m.side[s] : s \in Side} \ {m.winner, NoEntry}

Placements(b) ==
    LET final == b[FinalKey(b)]
    IN  {<<e, "champion">> : e \in {final.winner} \ {NoEntry}}
        \cup {<<e, "runner_up">> : e \in LoserOf(final)}
        \cup UNION {{<<e, "semifinalist">> : e \in LoserOf(b[k])} : k \in {k \in DOMAIN b : k[1] = FinalKey(b)[1] - 1}}
=============================================================================
