------------------------------ MODULE Tournament ------------------------------
(***************************************************************************)
(* One cup: apps/api/src/modules/tournaments/service.ts and store.ts, with *)
(* what the module sees of its matches (match/flow.ts).                    *)
(*                                                                         *)
(* Every transaction under the row lock of the cup is one step, and the    *)
(* calls made after its commit are jobs in the memory of the process: the  *)
(* servers asked for, the matches to cancel and the results on their way   *)
(* to the listeners.  A restart of the API loses them.  An entry stands    *)
(* for its players, a game for a row of matches, and what happens inside   *)
(* a match is reduced to the ways it can end.                              *)
(***************************************************************************)
EXTENDS Bracket

CONSTANTS
    MaxEntrants,    \* tournaments.maxEntrants
    MaxStarts,      \* bound: servers asked for at once
    MaxSlow,        \* bound: claims that grow old while their start is still under way
    MaxOps,         \* bound: actions of an admin
    MaxCrashes      \* bound: restarts of the API

ASSUME TournamentAssumption == {MaxEntrants, MaxStarts, MaxSlow, MaxOps, MaxCrashes} \subseteq Nat

VARIABLES
    cup,        \* tournaments.status
    due,        \* startsAt has passed
    entry,      \* tournament_entries: none, in or dq (disqualifiedAt is set)
    bracket,    \* tournaments.bracket
    claim,      \* provisioningAt: the start that holds a bracket match
    champion, badges,
    game,       \* the matches played for the cup: their rows and their servers
    starts,     \* startClaim calls under way
    stops,      \* matches that stopMatches still has to cancel
    results,    \* results of matches and maps on their way to the listeners
    slow, ops, crashes  \* used up of the bounds

cupVars == <<cup, due, entry, bracket, claim, champion, badges>>
jobVars == <<starts, stops, results>>
counts == <<slow, ops, crashes>>
vars == <<cupVars, game, jobVars, counts>>

Level == "level"
NoMatch == [key |-> <<>>, status |-> "none"]

\* Tells the starts under way apart: the time of the claim in the source
Claim == 1..(MaxStarts + Cardinality(DOMAIN bracket))
InUse == {j.claim : j \in starts} \cup {claim[k] : k \in DOMAIN claim}

Unused == {g \in Game : game[g].status = "none"}
On(g) == game[g].status = "on"
LiveKeys(g) == {k \in DOMAIN bracket : bracket[k].live = g}
In == {e \in Entry : entry[e] = "in"}
Out(e) == e # NoEntry /\ entry[e] = "dq"

\* The types, and that a bracket match names its match exactly while it is live and has a claim
\* exactly while it is provisioning
TypeOK ==
    /\ cup \in {"open", "running", "completed", "cancelled"}
    /\ due \in BOOLEAN
    /\ entry \in [Entry -> {"none", "in", "dq"}]
    /\ \A k \in DOMAIN bracket : /\ bracket[k] \in BracketMatch
                                 /\ bracket[k].status = "live" <=> bracket[k].live # NoGame
                                 /\ bracket[k].status = "provisioning" <=> k \in DOMAIN claim
    /\ DOMAIN claim \subseteq DOMAIN bracket /\ \A k \in DOMAIN claim : claim[k] \in Claim
    /\ champion \in Entry \cup {NoEntry}
    /\ badges \subseteq Entry \X {"champion", "runner_up", "semifinalist"}
    /\ \A g \in Game : game[g].status \in {"none", "on", "over"}
    /\ \A j \in starts : j.key \in DOMAIN bracket /\ j.claim \in Claim /\ j.game \in Game \cup {NoGame}
    /\ stops \subseteq Game
    /\ \A r \in results : r.game \in Game /\ r.outcome \in {"completed", "abandoned", "cancelled"}

Init ==
    /\ cup = "open" /\ due = FALSE /\ entry = [e \in Entry |-> "none"]
    /\ bracket = <<>> /\ claim = <<>> /\ champion = NoEntry /\ badges = {}
    /\ game = [g \in Game |-> NoMatch]
    /\ starts = {} /\ stops = {} /\ results = {}
    /\ slow = 0 /\ ops = 0 /\ crashes = 0

-----------------------------------------------------------------------------
\* Sign-up

Enter(e) ==
    /\ cup = "open" /\ ~due
    /\ entry[e] = "none" /\ Cardinality(In) < MaxEntrants
    /\ entry' = [entry EXCEPT ![e] = "in"]
    /\ UNCHANGED <<cup, due, bracket, claim, champion, badges, game, jobVars, counts>>

Withdraw(e) ==
    /\ cup = "open" /\ entry[e] = "in"
    /\ entry' = [entry EXCEPT ![e] = "none"]
    /\ UNCHANGED <<cup, due, bracket, claim, champion, badges, game, jobVars, counts>>

StartsAt ==
    /\ cup = "open" /\ ~due
    /\ due' = TRUE
    /\ UNCHANGED <<cup, entry, bracket, claim, champion, badges, game, jobVars, counts>>

\* Entries that lost the required trust are dropped; fewer than two cancel the cup
Start(untrusted) ==
    /\ cup = "open" /\ due /\ untrusted \subseteq In
    /\ entry' = [e \in Entry |-> IF e \in untrusted THEN "none" ELSE entry[e]]
    /\ IF Cardinality(In \ untrusted) < 2
       THEN cup' = "cancelled" /\ UNCHANGED bracket
       ELSE cup' = "running" /\ bracket' = BuildBracket(In \ untrusted)
    /\ UNCHANGED <<due, claim, champion, badges, game, jobVars, counts>>

-----------------------------------------------------------------------------
\* Badges and the champion, once the final is over
Complete(b) ==
    IF IsComplete(b)
    THEN cup' = "completed" /\ badges' = badges \cup Placements(b) /\ champion' = b[FinalKey(b)].winner
    ELSE UNCHANGED <<cup, badges, champion>>

SweepMatch(b, k) ==
    LET out == {s \in Side : Out(b[k].side[s])}
    IN  IF out = Side THEN Forfeit(b, k, Side) ELSE Disqualify(b, k, CHOOSE s \in out : TRUE)

SweepOne(b) ==
    LET lost == {k \in PlayableMatches(b) : \E s \in Side : Out(b[k].side[s])}
    IN  IF lost = {} THEN b ELSE SweepMatch(b, CHOOSE k \in lost : TRUE)

\* Ready matches with a disqualified side are settled, which can make a later one ready
SweepDisqualified(b) ==
    LET size == 2^RoundsOf(b)
        after[i \in 0..size] == IF i = 0 THEN b ELSE SweepOne(after[i - 1])
    IN  after[size]

Without(f, S) == [k \in DOMAIN f \ S |-> f[k]]

\* Claims of a process that died
Orphaned == {k \in DOMAIN claim : bracket[k].status = "provisioning" /\ ~ \E j \in starts : j.claim = claim[k]}

\* Releases the claims of old and claims every ready match
Claimed(old) ==
    LET swept == SweepDisqualified(bracket)
        free == ReleaseGame(swept, old)
        asked == IF IsComplete(swept) THEN {} ELSE PlayableMatches(free)
        now == CHOOSE c \in Claim : c \notin InUse
    IN  /\ swept # bracket \/ old # {} \/ asked # {}
        /\ Cardinality(starts) + Cardinality(asked) <= MaxStarts
        /\ bracket' = ClaimGame(free, asked)
        /\ claim' = [k \in asked \cup (DOMAIN claim \ old) |-> IF k \in asked THEN now ELSE claim[k]]
        /\ starts' = starts \cup {[key |-> k, claim |-> now, game |-> NoGame] : k \in asked}
        /\ Complete(swept)

Provision_KeepsClaims(old) ==
    /\ cup = "running" /\ old \subseteq {k \in DOMAIN claim : bracket[k].status = "provisioning"}
    /\ Claimed({})
    /\ UNCHANGED <<due, entry, game, stops, results, counts>>

\* old: the claims that are five minutes old
Provision(old) ==
    /\ cup = "running" /\ old \subseteq {k \in DOMAIN claim : bracket[k].status = "provisioning"}
    /\ slow' = slow + Cardinality(old \ Orphaned) /\ slow' <= MaxSlow
    /\ Claimed(old)
    /\ UNCHANGED <<due, entry, game, stops, results, ops, crashes>>

\* createTournamentMatch has inserted the row; it may take a while yet to return
StartMatch(j) ==
    /\ j.game = NoGame /\ Unused # {}
    /\ LET g == CHOOSE g \in Unused : TRUE
       IN  /\ game' = [game EXCEPT ![g] = [key |-> j.key, status |-> "on"]]
           /\ starts' = (starts \ {j}) \cup {[j EXCEPT !.game = g]}
    /\ UNCHANGED <<cupVars, stops, results, counts>>

\* Stores the match that was made, or gives the bracket match back when none could be.  A start
\* whose claim is gone cancels its match.
StoreStart_Unchecked(j) ==
    /\ starts' = starts \ {j}
    /\ claim' = Without(claim, {j.key})
    /\ bracket' = IF j.game = NoGame THEN ReleaseGame(bracket, {j.key})
                  ELSE IF bracket[j.key].status \in {"ready", "provisioning"} THEN StartGame(bracket, j.key, j.game)
                  ELSE bracket
    /\ UNCHANGED <<cup, due, entry, champion, badges, game, stops, results, counts>>

StoreStart(j) ==
    /\ starts' = starts \ {j}
    /\ IF /\ bracket[j.key].status = "provisioning"
          /\ j.key \in DOMAIN claim /\ claim[j.key] = j.claim
       THEN /\ claim' = Without(claim, {j.key})
            /\ bracket' = IF j.game = NoGame THEN ReleaseGame(bracket, {j.key})
                          ELSE StartGame(bracket, j.key, j.game)
            /\ UNCHANGED stops
       ELSE stops' = stops \cup ({j.game} \ {NoGame}) /\ UNCHANGED <<claim, bracket>>
    /\ UNCHANGED <<cup, due, entry, champion, badges, game, results, counts>>

-----------------------------------------------------------------------------
\* What a match does

Over(g, outcome, side, absent) ==
    /\ game' = [game EXCEPT ![g].status = "over"]
    /\ results' = results \cup {[game |-> g, outcome |-> outcome, side |-> side, absent |-> absent]}

\* A match or series was played to its end
Finished(g, s) ==
    /\ On(g) /\ Over(g, "completed", s, {})
    /\ UNCHANGED <<cupVars, starts, stops, counts>>

Abandoned(g, absent) ==
    /\ On(g) /\ Over(g, "abandoned", Level, absent)
    /\ UNCHANGED <<cupVars, starts, stops, counts>>

\* The server crashed, or no server or player came
Cancelled(g) ==
    /\ On(g) /\ Over(g, "cancelled", Level, {})
    /\ UNCHANGED <<cupVars, starts, stops, counts>>

\* stopMatches
Stop(g) ==
    /\ g \in stops
    /\ stops' = stops \ {g}
    /\ IF On(g) THEN Over(g, "cancelled", Level, {}) ELSE UNCHANGED <<game, results>>
    /\ UNCHANGED <<cupVars, starts, counts>>

-----------------------------------------------------------------------------
\* Results

ApplyResult(k, r) ==
    CASE r.outcome = "completed" /\ r.side # Level -> RecordGame(bracket, k, r.side)
      [] r.outcome = "abandoned" /\ r.absent # {} -> Forfeit(bracket, k, r.absent)
      [] OTHER -> CancelGame(bracket, k)

\* A result counts for the bracket match that is live with it, if there still is one
HandleResult_AnyGame(r) ==
    /\ results' = results \ {r}
    /\ IF cup = "running"
       THEN LET applied == ApplyResult(game[r.game].key, r) IN bracket' = applied /\ Complete(applied)
       ELSE UNCHANGED <<bracket, cup, badges, champion>>
    /\ UNCHANGED <<due, entry, claim, game, starts, stops, counts>>

HandleResult(r) ==
    /\ results' = results \ {r}
    /\ IF cup = "running" /\ LiveKeys(r.game) # {}
       THEN LET applied == ApplyResult(CHOOSE k \in LiveKeys(r.game) : TRUE, r)
            IN  bracket' = applied /\ Complete(applied)
       ELSE UNCHANGED <<bracket, cup, badges, champion>>
    /\ UNCHANGED <<due, entry, claim, game, starts, stops, counts>>

-----------------------------------------------------------------------------
\* What an admin does

Op == ops < MaxOps /\ ops' = ops + 1

\* Matches still being asked for are not looked at
Cancel ==
    /\ Op /\ cup \in {"open", "running"}
    /\ cup' = "cancelled"
    /\ stops' = stops \cup {bracket[k].live : k \in {k \in DOMAIN bracket : bracket[k].status = "live"}}
    /\ UNCHANGED <<due, entry, bracket, claim, champion, badges, game, starts, results, slow, crashes>>

Reschedule ==
    /\ Op /\ cup = "open" /\ due
    /\ due' = FALSE
    /\ UNCHANGED <<cup, entry, bracket, claim, champion, badges, game, jobVars, slow, crashes>>

\* A bracket match is decided from outside: its claim is void and its match is to be cancelled
SaveAdminBracket(k, b) ==
    /\ bracket' = b
    /\ claim' = Without(claim, {k})
    /\ stops' = stops \cup ({bracket[k].live} \ {NoGame})
    /\ Complete(b)

DisqualifyEntry(e) ==
    /\ Op /\ cup \in {"open", "running"} /\ entry[e] = "in"
    /\ entry' = [entry EXCEPT ![e] = "dq"]
    /\ LET open == {k \in DOMAIN bracket : bracket[k].status \in OpenStatuses /\ \E s \in Side : bracket[k].side[s] = e}
       IN  IF open = {} THEN UNCHANGED <<cup, bracket, claim, stops, champion, badges>>
           ELSE LET k == CHOOSE k \in open : TRUE
                IN  SaveAdminBracket(k, Disqualify(bracket, k, CHOOSE s \in Side : bracket[k].side[s] = e))
    /\ UNCHANGED <<due, game, starts, results, slow, crashes>>

ForceResult(k, s) ==
    /\ Op /\ cup = "running" /\ bracket[k].status \in OpenStatuses
    /\ SaveAdminBracket(k, Decide(bracket, k, s))
    /\ UNCHANGED <<due, entry, game, starts, results, slow, crashes>>

StripBadges(e) ==
    /\ Op /\ cup = "completed" /\ \E b \in badges : b[1] = e
    /\ badges' = {b \in badges : b[1] # e}
    /\ UNCHANGED <<cup, due, entry, bracket, claim, champion, game, jobVars, slow, crashes>>

\* A restart of the API: what was under way is gone, what was committed stays
Crash ==
    /\ crashes < MaxCrashes /\ crashes' = crashes + 1
    /\ starts' = {} /\ stops' = {} /\ results' = {}
    /\ UNCHANGED <<cupVars, game, slow, ops>>

-----------------------------------------------------------------------------
SignUp == StartsAt \/ \E e \in Entry : Enter(e) \/ Withdraw(e)
Scheduler == (\E untrusted \in SUBSET In : Start(untrusted)) \/ (\E old \in SUBSET DOMAIN claim : Provision(old))
Starting == \E j \in starts : StartMatch(j) \/ StoreStart(j)
GameEnds(g) == \/ \E s \in Side \cup {Level} : Finished(g, s)
               \/ \E absent \in SUBSET Side : Abandoned(g, absent)
               \/ Cancelled(g)
Listening == \E r \in results : HandleResult(r)
Admin == Cancel \/ Reschedule \/ (\E e \in Entry : DisqualifyEntry(e) \/ StripBadges(e))
         \/ \E k \in DOMAIN bracket, s \in Side : ForceResult(k, s)

Next == \/ SignUp \/ Scheduler \/ Starting \/ Listening \/ Admin \/ Crash
        \/ \E g \in Game : GameEnds(g) \/ Stop(g)

Spec == Init /\ [][Next]_vars

\* The scheduler ticks every 30 seconds, so a claim nobody works on grows old; a call returns; a match
\* settles; and a server is found sooner or later, as those of other matches come back
FairSpec ==
    /\ Spec
    /\ WF_vars(Provision(Orphaned))
    /\ SF_vars(\E j \in starts : StartMatch(j)) /\ WF_vars(\E j \in starts : StoreStart(j))
    /\ WF_vars(Listening) /\ WF_vars(\E g \in Game : GameEnds(g))

-----------------------------------------------------------------------------
\* A side of a later round is known exactly when the match before it is over, and is its winner; so
\* nobody is in two open matches and nobody plays on after a loss (bracket.ts finish, settle)
BracketIsTree ==
    /\ \A k \in DOMAIN bracket, s \in Side :
         k[1] > 1 => LET feeder == bracket[<<k[1] - 1, 2 * k[2] + IF s = "a" THEN 0 ELSE 1>>]
                     IN  /\ s \in bracket[k].known <=> feeder.status = "done"
                         /\ bracket[k].side[s] = IF feeder.status = "done" THEN feeder.winner ELSE NoEntry
    /\ \A e \in Entry : Cardinality({k \in DOMAIN bracket : /\ bracket[k].status \in OpenStatuses
                                                            /\ \E s \in Side : bracket[k].side[s] = e}) <= 1

\* Without a restart every running match of a cup that was not cancelled is live in the bracket, still
\* with its start call, or about to be cancelled: none is played for nothing (service.ts startClaim)
NoGameForNothing ==
    crashes = 0 /\ cup # "cancelled" =>
        \A g \in Game : On(g) => g \in stops \/ LiveKeys(g) # {} \/ \E j \in starts : j.game = g

\* One badge for each, and none for who lost the last match by forfeit or disqualification (bracket.ts
\* placements, service.ts complete)
LastMatch(e) == LET played == {k \in DOMAIN bracket : \E s \in Side : bracket[k].side[s] = e}
                IN  bracket[CHOOSE k \in played : \A l \in played : l[1] <= k[1]]
BadgesAreEarned ==
    \A b \in badges :
        /\ \A c \in badges : c[1] = b[1] => c = b
        /\ LastMatch(b[1]).winner # b[1] => LastMatch(b[1]).resolution \notin {"forfeit", "disqualified"}

\* No step reopens a bracket match or names another winner, late results and admins included
DoneIsFinal ==
    [][\A k \in DOMAIN bracket : bracket[k].status = "done" => bracket'[k] = bracket[k]]_vars

\* A bracket match waits for a match that is over and whose result nobody will hear of
Stuck == \E k \in DOMAIN bracket : /\ bracket[k].status = "live" /\ ~On(bracket[k].live)
                                   /\ ~ \E r \in results : r.game = bracket[k].live

\* A running cup ends, restarts included, unless a result was lost
CupEnds == cup = "running" ~> (cup # "running" \/ Stuck \/ Unused = {})
=============================================================================
