--------------------------- MODULE Decisions_proofs ---------------------------
(***************************************************************************)
(* Proofs about the pure decisions, a section each.                        *)
(*                                                                         *)
(* The accept window and the forfeit (AcceptRules), for any teams and      *)
(* tickets; the trust level (TrustRules), for any thresholds and any       *)
(* player; a pass of the matchmaker (Matchmaker), for any queue in order:  *)
(* the matches it proposes keep the rules, nobody is passed over for       *)
(* someone alike who has waited less, and none is missed; and the vetoes   *)
(* (Veto, RoomVeto), for pools of any size and any votes: what is taken is *)
(* what a team voted for, and the map, the three maps or the paths of      *)
(* rooms that a veto ends with can be played.                              *)
(***************************************************************************)
EXTENDS MCDecisions, LoopTheorems, FiniteSetTheorems, SequenceTheorems

(***************************************************************************)
(* Accept window and forfeit                                               *)
(***************************************************************************)

\* accept.ts resolveAccept: a match starts when all are in, and whoever pays for its failure has failed it
THEOREM WindowCorrect ==
    ASSUME NEW accepted \in SUBSET Player, NEW declined \in SUBSET Player, NEW timedOut \in BOOLEAN
    PROVE  WindowIsJust(accepted, declined, timedOut)
<1> DEFINE outcome == ResolveAccept(accepted, declined, timedOut)
           offenders == Offenders(accepted, declined)
<1>1. outcome.kind = "all_accepted" <=> \A p \in Player : p \in accepted \ declined
    BY DEF ResolveAccept, AllIn, Unresolved
<1>2. outcome.kind = "pending" => ~timedOut /\ declined = {}
    BY DEF ResolveAccept, AllIn, Unresolved
<1>3. ASSUME outcome.kind = "failed"
      PROVE  /\ outcome.penalize # {}
             /\ \A p \in outcome.penalize : p \in declined \/ (declined = {} /\ p \notin accepted)
             /\ outcome.dropTickets = {TicketOf[p] : p \in outcome.penalize}
             /\ outcome.requeueTickets = TicketsOfPlayers \ outcome.dropTickets
    <2>1. /\ outcome.penalize = offenders /\ outcome.dropTickets = TicketsHit(offenders)
          /\ outcome.requeueTickets = TicketsOfPlayers \ TicketsHit(offenders)
          /\ declined # {} \/ accepted # Player
        BY <1>3 DEF ResolveAccept, AllIn, Unresolved
    <2>2. offenders \subseteq Player /\ offenders # {}
        BY <2>1 DEF Offenders
    <2>3. \A p \in offenders : p \in declined \/ (declined = {} /\ p \notin accepted)
        BY DEF Offenders
    <2>4. TicketsHit(offenders) = {TicketOf[p] : p \in offenders}
        BY <2>2 DEF TicketsHit, TicketsOfPlayers, MembersOf
    <2> QED BY <2>1, <2>2, <2>3, <2>4
<1> QED BY <1>1, <1>2, <1>3 DEF WindowIsJust

\* accept.ts resolveAbandon: the team that misses someone loses, and nobody when both do
THEOREM ForfeitCorrect ==
    ASSUME NEW missing \in SUBSET Player
    PROVE  ForfeitIsJust(missing)
BY TeamAssumption DEF ForfeitIsJust, ResolveAbandon, TeamOf

-----------------------------------------------------------------------------
(***************************************************************************)
(* Trust levels                                                            *)
(***************************************************************************)

Unasked == [is : {"unknown", "none"}]
SteamAnswer == [is : {"checked"}, count : Nat, daysSince : Int, community : BOOLEAN]
FaceitAnswer == [is : {"checked"}, banned : BOOLEAN, pastBans : Nat, matches : Nat]
TrustInput ==
    [steam : Unasked \cup SteamAnswer, faceit : Unasked \cup FaceitAnswer, days : Int, minutes : Int,
     completed : Int, flags : Nat, activeBan : BOOLEAN]

\* evaluate.ts: the level a player has and the progress a player is shown never disagree
THEOREM LevelsCorrect ==
    ASSUME NEW i \in TrustInput, NEW requireSteamCheck \in BOOLEAN
    PROVE  LevelsAgree(i, requireSteamCheck)
<1> DEFINE level == EvaluateTrust(i, requireSteamCheck)
           Met(r) == \A key \in DOMAIN r : r[key]
           toVerified == TrustProgress("new", i, requireSteamCheck)
           toTrusted == TrustProgress("verified", i, requireSteamCheck)
<1>1. Met(toVerified) <=> /\ SteamVerifiedOk(i, requireSteamCheck) /\ FaceitVerifiedOk(i)
                          /\ i.completed >= VerifiedMinMatches /\ CleanHistory(i)
    <2>1. toVerified = [steam_check |-> SteamVerifiedOk(i, requireSteamCheck), faceit_check |-> FaceitVerifiedOk(i),
                        matches |-> i.completed >= VerifiedMinMatches, clean_history |-> CleanHistory(i)]
        BY DEF TrustProgress
    <2> HIDE DEF toVerified
    <2>2. DOMAIN toVerified = {"steam_check", "faceit_check", "matches", "clean_history"}
        BY <2>1
    <2>3. /\ toVerified["steam_check"] = SteamVerifiedOk(i, requireSteamCheck)
          /\ toVerified["faceit_check"] = FaceitVerifiedOk(i)
          /\ toVerified["matches"] = (i.completed >= VerifiedMinMatches)
          /\ toVerified["clean_history"] = CleanHistory(i)
        BY <2>1
    <2> QED BY <2>2, <2>3
<1>2. Met(toTrusted) <=> /\ SteamTrustedOk(i) /\ FaceitTrustedOk(i)
                         /\ i.completed >= TrustedMinMatches /\ OldEnough(i)
                         /\ CleanHistory(i) /\ Score(i) >= 0
    <2>1. toTrusted = [steam_check |-> SteamTrustedOk(i), faceit_check |-> FaceitTrustedOk(i),
                       matches |-> i.completed >= TrustedMinMatches, account_age |-> OldEnough(i),
                       clean_history |-> CleanHistory(i) /\ Score(i) >= 0]
        BY DEF TrustProgress
    <2> HIDE DEF toTrusted
    <2>2. DOMAIN toTrusted = {"steam_check", "faceit_check", "matches", "account_age", "clean_history"}
        BY <2>1
    <2>3. /\ toTrusted["steam_check"] = SteamTrustedOk(i)
          /\ toTrusted["faceit_check"] = FaceitTrustedOk(i)
          /\ toTrusted["matches"] = (i.completed >= TrustedMinMatches)
          /\ toTrusted["account_age"] = OldEnough(i)
          /\ toTrusted["clean_history"] = (CleanHistory(i) /\ Score(i) >= 0)
        BY <2>1
    <2> QED BY <2>2, <2>3
<1>3. i.completed < VerifiedMinMatches <=> ~(i.completed >= VerifiedMinMatches)
    BY TrustAssumption DEF TrustInput
<1>4. CleanHistory(i) => ~i.activeBan
    BY DEF CleanHistory
<1>5. level # "new" <=> Met(toVerified)
    BY <1>1, <1>3, <1>4 DEF EvaluateTrust
<1>6. level = "trusted" <=> Met(toVerified) /\ Met(toTrusted)
    BY <1>1, <1>2, <1>3, <1>4 DEF EvaluateTrust
<1>7. HardBlock(i) => level = "new"
    BY DEF HardBlock, EvaluateTrust, SteamVerifiedOk, FaceitVerifiedOk, CleanHistory, TrustInput
<1>8. ASSUME i.faceit.is = "unknown"
      PROVE  level = EvaluateTrust([i EXCEPT !.faceit.is = "none"], requireSteamCheck)
    <2> DEFINE j == [i EXCEPT !.faceit.is = "none"]
    <2>1. ~Checked(i.faceit) /\ ~Checked(j.faceit)
        BY <1>8 DEF Checked, TrustInput, Unasked, FaceitAnswer
    <2>2. /\ j.steam = i.steam /\ j.days = i.days /\ j.minutes = i.minutes /\ j.completed = i.completed
          /\ j.flags = i.flags /\ j.activeBan = i.activeBan
        BY DEF TrustInput
    <2> HIDE DEF j
    <2>3. /\ SteamVerifiedOk(j, requireSteamCheck) = SteamVerifiedOk(i, requireSteamCheck)
          /\ SteamTrustedOk(j) = SteamTrustedOk(i)
          /\ OldEnough(j) = OldEnough(i)
          /\ CleanHistory(j) = CleanHistory(i)
        BY <2>2 DEF SteamVerifiedOk, SteamTrustedOk, OldEnough, CleanHistory, CommunityBanned, BannedRecently, SteamBanned
    <2>4. /\ FaceitVerifiedOk(i) /\ FaceitVerifiedOk(j) /\ FaceitTrustedOk(i) /\ FaceitTrustedOk(j)
        BY <2>1 DEF FaceitVerifiedOk, FaceitTrustedOk, FaceitBanned, FaceitPast
    <2>5. Score(j) = Score(i)
        BY <2>1, <2>2 DEF Score, CommunityBanned, BannedRecently, SteamBanned
    <2> QED BY <2>2, <2>3, <2>4, <2>5 DEF EvaluateTrust, j
<1> QED BY <1>5, <1>6, <1>7, <1>8 DEF LevelsAgree

-----------------------------------------------------------------------------
(***************************************************************************)
(* A pass of the matchmaker                                                *)
(***************************************************************************)

\* What the first tickets of a team add up to, f[i] for the first i
Running(value, team, f) ==
    /\ f \in [0..Len(value) -> Int] /\ f[0] = 0 /\ Total(value, team) = f[Len(value)]
    /\ \A i \in 1..Len(value) : f[i] = f[i - 1] + (IF i \in team THEN value[i] ELSE 0)

\* A total is a loop over the tickets
LEMMA TotalRuns ==
    ASSUME NEW value \in Seq(Int), NEW team
    PROVE  \E f : Running(value, team, f)
<1> DEFINE n == Len(value)
           Adds(i) == IF i \in team THEN value[i] ELSE 0
           B == Int
           step == [i \in 1..n |-> [s \in B |-> s + Adds(i)]]
           Runs(f) == f = [i \in 0..n |-> IF i = 0 THEN 0 ELSE f[i - 1] + Adds(i)]
<1>1. n \in Nat /\ \A i \in 1..n : Adds(i) \in Int
    <2>1. n \in Nat /\ \A i \in 1..n : value[i] \in Int
        BY LenProperties, ElementOfSeq
    <2> HIDE DEF n
    <2> QED BY <2>1
<1>2. \E f : Runs(f)
    <2>1. 0 \in B /\ step \in [1..n -> [B -> B]]
        <3> HIDE DEF n, Adds
        <3> QED BY <1>1
    <2>2. PICK f \in [0..n -> B] : LoopOf(f, n, 0, step)
        <3> HIDE DEF step, n, B
        <3> QED BY <1>1, <2>1, LoopSteps
    <2>3. ASSUME NEW i \in 0..n, i # 0
          PROVE  step[i][f[i - 1]] = f[i - 1] + Adds(i)
        <3>1. i \in 1..n /\ i - 1 \in 0..n
            BY <2>3, <1>1
        <3>2. f[i - 1] \in Int
            BY <2>2, <3>1
        <3> HIDE DEF n, Adds
        <3> QED BY <3>1, <3>2
    <2>4. Runs(f)
        <3> HIDE DEF n, Adds, step
        <3> QED BY <2>2, <2>3 DEF LoopOf
    <2> QED BY <2>4
<1>3. \E f : Runs(f) /\ Total(value, team) = f[n]
    <2> DEFINE g == CHOOSE f : Runs(f)
    <2>1. Runs(g)
        <3> HIDE DEF Runs
        <3> QED BY <1>2
    <2>2. Total(value, team) = g[n]
        BY Zenon DEF Total
    <2> QED BY <2>1, <2>2
<1>4. PICK f : Runs(f) /\ Total(value, team) = f[n]
    BY <1>3
<1>5. f[0] = 0 /\ \A i \in 1..n : f[i] = f[i - 1] + Adds(i)
    <2>1. 0 \in 0..n /\ \A i \in 1..n : i \in 0..n /\ i # 0
        BY <1>1
    <2> HIDE DEF n, Adds
    <2> QED BY <1>4, <2>1
<1>6. f \in [0..n -> Int]
    <2> DEFINE T == {i \in 0..n : f[i] \in Int}
    <2>1. 0 \in T
        BY <1>1, <1>5
    <2>2. ASSUME NEW i \in 0..n, i < n, i \in T PROVE i + 1 \in T
        <3>1. i + 1 \in 1..n /\ i + 1 \in 0..n /\ (i + 1) - 1 = i
            BY <1>1, <2>2
        <3>2. f[i + 1] = f[i] + Adds(i + 1) /\ Adds(i + 1) \in Int
            <4> HIDE DEF n, Adds
            <4> QED BY <1>1, <1>5, <3>1
        <3> HIDE DEF n, Adds
        <3> QED BY <2>2, <3>1, <3>2
    <2>3. \A i \in 0..n : f[i] \in Int
        <3>1. \A i \in 0..n : i \in T
            <4> HIDE DEF T, n
            <4> QED BY <1>1, <2>1, <2>2, UpTo
        <3> QED BY <3>1
    <2>4. DOMAIN f = 0..n /\ f = [i \in DOMAIN f |-> f[i]]
        BY <1>4
    <2> HIDE DEF n, Runs
    <2> QED BY <2>3, <2>4
<1> HIDE DEF Runs
<1> QED BY <1>4, <1>5, <1>6 DEF Running

\* One ticket more
LEMMA TotalMore ==
    ASSUME NEW value \in Seq(Int), NEW team, NEW m \in 1..Len(value), m \notin team
    PROVE  /\ Total(value, team) \in Int
           /\ Total(value, team \cup {m}) = Total(value, team) + value[m]
<1> DEFINE n == Len(value)
<1>1. n \in Nat /\ \A i \in 1..n : value[i] \in Int
    BY LenProperties, ElementOfSeq
<1>2. PICK f : Running(value, team, f)
    BY TotalRuns
<1>3. PICK g : Running(value, team \cup {m}, g)
    BY TotalRuns
<1>8. /\ f \in [0..n -> Int] /\ f[0] = 0 /\ Total(value, team) = f[n]
      /\ \A i \in 1..n : f[i] = f[i - 1] + (IF i \in team THEN value[i] ELSE 0)
    BY <1>2 DEF Running
<1>9. /\ g \in [0..n -> Int] /\ g[0] = 0 /\ Total(value, team \cup {m}) = g[n]
      /\ \A i \in 1..n : g[i] = g[i - 1] + (IF i \in team \cup {m} THEN value[i] ELSE 0)
    BY <1>3 DEF Running
<1> HIDE DEF n
<1> DEFINE T == {i \in 0..n : g[i] = f[i] + (IF i >= m THEN value[m] ELSE 0)}
<1>m. m \in 1..n
    BY DEF n
<1>4. 0 \in T
    BY <1>1, <1>8, <1>9, <1>m
<1>5. ASSUME NEW i \in 0..n, i < n, i \in T PROVE i + 1 \in T
    <2>1. i + 1 \in 1..n /\ i + 1 \in 0..n /\ (i + 1) - 1 = i
        BY <1>1, <1>5
    <2>2. /\ f[i + 1] = f[i] + (IF i + 1 \in team THEN value[i + 1] ELSE 0)
          /\ g[i + 1] = g[i] + (IF i + 1 \in team \cup {m} THEN value[i + 1] ELSE 0)
        BY <1>8, <1>9, <2>1
    <2>3. value[i + 1] \in Int /\ value[m] \in Int /\ f[i] \in Int /\ g[i] \in Int
        BY <1>1, <1>8, <1>9, <1>m, <2>1
    <2>4. g[i] = f[i] + (IF i >= m THEN value[m] ELSE 0)
        BY <1>5
    <2>5. CASE i + 1 = m
        <3>1. ~(i >= m) /\ i + 1 >= m /\ i + 1 \notin team
            BY <2>5, <1>m
        <3> QED BY <2>1, <2>2, <2>3, <2>4, <2>5, <3>1
    <2>6. CASE i + 1 # m
        <3>1. (i >= m <=> i + 1 >= m) /\ (i + 1 \in team \cup {m} <=> i + 1 \in team)
            BY <2>6, <1>m
        <3> QED BY <2>1, <2>2, <2>3, <2>4, <3>1
    <2> QED BY <2>5, <2>6
<1>6. n \in T
    <2>1. \A i \in 0..n : i \in T
        <3> HIDE DEF T
        <3> QED BY <1>1, <1>4, <1>5, UpTo
    <2> QED BY <1>1, <2>1
<1>7. n >= m /\ f[n] \in Int
    BY <1>1, <1>8, <1>m
<1> QED BY <1>8, <1>9, <1>6, <1>7

\* A team of some of the tickets has at most as much as one of more
LEMMA TotalOfSome ==
    ASSUME NEW value \in Seq(Nat), NEW team, NEW more, team \subseteq more
    PROVE  /\ Total(value, team) \in Nat /\ Total(value, more) \in Nat
           /\ Total(value, team) <= Total(value, more)
<1> DEFINE n == Len(value)
<1>1. n \in Nat /\ value \in Seq(Int) /\ \A i \in 1..n : value[i] \in Nat
    <2>1. n \in Nat /\ \A i \in 1..n : value[i] \in Nat
        BY LenProperties, ElementOfSeq
    <2>2. value \in [1..Len(value) -> Int]
        BY <2>1, LenProperties
    <2> QED BY <2>1, <2>2, SeqDef
<1>2. PICK f : Running(value, team, f)
    BY <1>1, TotalRuns
<1>3. PICK g : Running(value, more, g)
    BY <1>1, TotalRuns
<1>8. /\ f \in [0..n -> Int] /\ f[0] = 0 /\ Total(value, team) = f[n]
      /\ \A i \in 1..n : f[i] = f[i - 1] + (IF i \in team THEN value[i] ELSE 0)
    BY <1>2 DEF Running
<1>9. /\ g \in [0..n -> Int] /\ g[0] = 0 /\ Total(value, more) = g[n]
      /\ \A i \in 1..n : g[i] = g[i - 1] + (IF i \in more THEN value[i] ELSE 0)
    BY <1>3 DEF Running
<1> HIDE DEF n
<1> DEFINE T == {i \in 0..n : 0 <= f[i] /\ f[i] <= g[i]}
<1>4. 0 \in T
    BY <1>1, <1>8, <1>9
<1>5. ASSUME NEW i \in 0..n, i < n, i \in T PROVE i + 1 \in T
    <2>1. i + 1 \in 1..n /\ i + 1 \in 0..n /\ (i + 1) - 1 = i
        BY <1>1, <1>5
    <2>2. /\ f[i + 1] = f[i] + (IF i + 1 \in team THEN value[i + 1] ELSE 0)
          /\ g[i + 1] = g[i] + (IF i + 1 \in more THEN value[i + 1] ELSE 0)
        BY <1>8, <1>9, <2>1
    <2>3. value[i + 1] \in Nat /\ f[i] \in Int /\ g[i] \in Int /\ 0 <= f[i] /\ f[i] <= g[i]
        BY <1>1, <1>8, <1>9, <1>5, <2>1
    <2>4. i + 1 \in team => i + 1 \in more
        OBVIOUS
    <2> QED BY <2>1, <2>2, <2>3, <2>4
<1>6. n \in T
    <2>1. \A i \in 0..n : i \in T
        <3> HIDE DEF T
        <3> QED BY <1>1, <1>4, <1>5, UpTo
    <2> QED BY <1>1, <2>1
<1>7. f[n] \in Int /\ g[n] \in Int
    BY <1>1, <1>8, <1>9
<1> QED BY <1>8, <1>9, <1>6, <1>7

\* What waits, wherever its regions are
Waiting(Regions) ==
    [size : Nat \ {0}, rating : Int, region : Regions, minTrust : Int, trust : Int, wait : Nat]

\* The sums of a team are numbers, and a ticket adds what it has
LEMMA Sums ==
    ASSUME NEW Regions, NEW queue \in Seq(Waiting(Regions)), NEW team
    PROVE  /\ Players(queue, team) \in Nat /\ Weight(queue, team) \in Int /\ Waited(queue, team) \in Nat
           /\ Waited(queue, team) <= Waited(queue, team \cup DOMAIN queue)
           /\ \A m \in DOMAIN queue \ team :
                 /\ Players(queue, team \cup {m}) = Players(queue, team) + queue[m].size
                 /\ Weight(queue, team \cup {m}) = Weight(queue, team) + queue[m].rating * queue[m].size
                 /\ Waited(queue, team \cup {m}) = Waited(queue, team) + queue[m].wait
<1> DEFINE n == Len(queue)
           sizes == [i \in DOMAIN queue |-> queue[i].size]
           Weighs(i) == queue[i].rating * queue[i].size
           weights == [i \in DOMAIN queue |-> Weighs(i)]
           waits == [i \in DOMAIN queue |-> queue[i].wait]
<1>1. n \in Nat /\ DOMAIN queue = 1..n
    BY LenProperties
<1>2. \A i \in DOMAIN queue : queue[i].size \in Nat /\ queue[i].rating \in Int /\ queue[i].wait \in Nat
    <2>1. \A i \in DOMAIN queue : queue[i] \in Waiting(Regions)
        BY <1>1, ElementOfSeq
    <2>2. \A t \in Waiting(Regions) : t.size \in Nat /\ t.rating \in Int /\ t.wait \in Nat
        BY DEF Waiting
    <2> QED BY <2>1, <2>2
<1>3. \A i \in DOMAIN queue : Weighs(i) \in Int
    BY <1>2
<1>4. /\ sizes \in Seq(Nat) /\ sizes \in Seq(Int) /\ waits \in Seq(Nat) /\ waits \in Seq(Int) /\ weights \in Seq(Int)
      /\ Len(sizes) = n /\ Len(waits) = n /\ Len(weights) = n
    <2> HIDE DEF n
    <2>1. /\ sizes \in [1..n -> Nat] /\ sizes \in [1..n -> Int]
          /\ waits \in [1..n -> Nat] /\ waits \in [1..n -> Int] /\ weights \in [1..n -> Int]
        <3> HIDE DEF Weighs
        <3>1. sizes \in [1..n -> Nat] /\ sizes \in [1..n -> Int]
            BY <1>1, <1>2
        <3>2. waits \in [1..n -> Nat] /\ waits \in [1..n -> Int]
            BY <1>1, <1>2
        <3>3. weights \in [1..n -> Int]
            BY <1>1, <1>3
        <3> QED BY <3>1, <3>2, <3>3
    <2>2. \A S : \A f \in [1..n -> S] : f \in Seq(S) /\ DOMAIN f = 1..n
        BY <1>1, SeqDef
    <2>3. \A S : \A f \in Seq(S) : DOMAIN f = 1..n => Len(f) = n
        BY <1>1, LenProperties
    <2> HIDE DEF sizes, waits, weights
    <2>4. sizes \in Seq(Nat) /\ DOMAIN sizes = 1..n /\ sizes \in Seq(Int)
        BY <2>1, <2>2
    <2>5. waits \in Seq(Nat) /\ DOMAIN waits = 1..n /\ waits \in Seq(Int)
        BY <2>1, <2>2
    <2>6. weights \in Seq(Int) /\ DOMAIN weights = 1..n
        BY <2>1, <2>2
    <2> QED BY <2>3, <2>4, <2>5, <2>6
<1>5. /\ Players(queue, team) = Total(sizes, team) /\ Weight(queue, team) = Total(weights, team)
      /\ Waited(queue, team) = Total(waits, team)
    BY DEF Players, Weight, Waited
<1>6. Waited(queue, team \cup DOMAIN queue) = Total(waits, team \cup DOMAIN queue)
    BY DEF Waited
<1>7. ASSUME NEW m \in DOMAIN queue \ team
      PROVE  /\ Players(queue, team \cup {m}) = Total(sizes, team \cup {m})
             /\ Weight(queue, team \cup {m}) = Total(weights, team \cup {m})
             /\ Waited(queue, team \cup {m}) = Total(waits, team \cup {m})
             /\ sizes[m] = queue[m].size /\ weights[m] = queue[m].rating * queue[m].size /\ waits[m] = queue[m].wait
             /\ m \in 1..n /\ m \notin team
    BY <1>1 DEF Players, Weight, Waited
<1> HIDE DEF sizes, weights, waits, n
<1>8. Total(sizes, team) \in Nat
    BY <1>4, TotalOfSome
<1>9. Total(waits, team) \in Nat /\ Total(waits, team) <= Total(waits, team \cup DOMAIN queue)
    BY <1>4, TotalOfSome
<1>10. Total(weights, team) \in Int
    <2>1. PICK f : Running(weights, team, f)
        BY <1>4, TotalRuns
    <2>2. f \in [0..n -> Int] /\ Total(weights, team) = f[n]
        BY <1>4, <2>1 DEF Running
    <2>3. n \in 0..n
        BY <1>1
    <2> QED BY <2>2, <2>3
<1>11. ASSUME NEW m \in DOMAIN queue \ team
       PROVE  /\ Players(queue, team \cup {m}) = Players(queue, team) + queue[m].size
              /\ Weight(queue, team \cup {m}) = Weight(queue, team) + queue[m].rating * queue[m].size
              /\ Waited(queue, team \cup {m}) = Waited(queue, team) + queue[m].wait
    <2>1. m \in 1..n /\ m \notin team
        BY <1>7
    <2>2. Total(sizes, team \cup {m}) = Total(sizes, team) + sizes[m]
        BY <1>4, <2>1, TotalMore
    <2>3. Total(weights, team \cup {m}) = Total(weights, team) + weights[m]
        BY <1>4, <2>1, TotalMore
    <2>4. Total(waits, team \cup {m}) = Total(waits, team) + waits[m]
        BY <1>4, <2>1, TotalMore
    <2> QED BY <1>5, <1>7, <2>2, <2>3, <2>4
<1> QED BY <1>5, <1>6, <1>8, <1>9, <1>10, <1>11

\* A ticket for an equal one, but for its wait
LEMMA Swapped ==
    ASSUME NEW Regions, NEW queue \in Seq(Waiting(Regions)), NEW team,
           NEW j \in DOMAIN queue, NEW l \in DOMAIN queue, j \in team, l \notin team,
           queue[j].size = queue[l].size, queue[j].rating = queue[l].rating
    PROVE  /\ Players(queue, (team \ {j}) \cup {l}) = Players(queue, team)
           /\ Weight(queue, (team \ {j}) \cup {l}) = Weight(queue, team)
           /\ Waited(queue, (team \ {j}) \cup {l}) = Waited(queue, team) + queue[l].wait - queue[j].wait
<1> DEFINE rest == team \ {j}
<1>1. /\ Players(queue, rest) \in Nat /\ Weight(queue, rest) \in Int /\ Waited(queue, rest) \in Nat
      /\ \A m \in DOMAIN queue \ rest :
                 /\ Players(queue, rest \cup {m}) = Players(queue, rest) + queue[m].size
                 /\ Weight(queue, rest \cup {m}) = Weight(queue, rest) + queue[m].rating * queue[m].size
                 /\ Waited(queue, rest \cup {m}) = Waited(queue, rest) + queue[m].wait
    <2> HIDE DEF rest
    <2> QED BY Sums
<1>2. j \notin rest /\ l \notin rest /\ rest \cup {j} = team
    OBVIOUS
<1>3. /\ Players(queue, team) = Players(queue, rest) + queue[j].size
      /\ Weight(queue, team) = Weight(queue, rest) + queue[j].rating * queue[j].size
      /\ Waited(queue, team) = Waited(queue, rest) + queue[j].wait
    <2> HIDE DEF rest
    <2> QED BY <1>1, <1>2
<1>4. /\ Players(queue, rest \cup {l}) = Players(queue, rest) + queue[l].size
      /\ Weight(queue, rest \cup {l}) = Weight(queue, rest) + queue[l].rating * queue[l].size
      /\ Waited(queue, rest \cup {l}) = Waited(queue, rest) + queue[l].wait
    <2> HIDE DEF rest
    <2> QED BY <1>1, <1>2
<1>5. queue[j].wait \in Nat /\ queue[l].wait \in Nat
    <2>1. \A i \in DOMAIN queue : queue[i] \in Waiting(Regions)
        BY LenProperties, ElementOfSeq
    <2> QED BY <2>1 DEF Waiting
<1> HIDE DEF rest
<1>6. Waited(queue, rest \cup {l}) = Waited(queue, team) + queue[l].wait - queue[j].wait
    BY <1>1, <1>3, <1>4, <1>5
<1> QED BY <1>3, <1>4, <1>6 DEF rest

\* config/queue.ts maxRatingDiffAfter: the last step that the wait has reached
LEMMA Schedule ==
    ASSUME NEW wait \in Nat
    PROVE  MaxRatingDiffAfter(wait) = IF wait >= 300 THEN AnyGap
                                      ELSE IF wait >= 180 THEN 800
                                      ELSE IF wait >= 120 THEN 500
                                      ELSE IF wait >= 60 THEN 350
                                      ELSE IF wait >= 30 THEN 200 ELSE 100
<1> DEFINE reached == {k \in DOMAIN WidenSchedule : wait >= WidenSchedule[k].afterSec}
           last == CHOOSE k \in reached : \A l \in reached : l <= k
<1>1. /\ DOMAIN WidenSchedule = 1..6
      /\ WidenSchedule[1].afterSec = 0 /\ WidenSchedule[2].afterSec = 30 /\ WidenSchedule[3].afterSec = 60
      /\ WidenSchedule[4].afterSec = 120 /\ WidenSchedule[5].afterSec = 180 /\ WidenSchedule[6].afterSec = 300
      /\ WidenSchedule[1].maxRatingDiff = 100 /\ WidenSchedule[2].maxRatingDiff = 200
      /\ WidenSchedule[3].maxRatingDiff = 350 /\ WidenSchedule[4].maxRatingDiff = 500
      /\ WidenSchedule[5].maxRatingDiff = 800 /\ WidenSchedule[6].maxRatingDiff = AnyGap
    BY DEF WidenSchedule
<1>2. \A k \in 1..6 : k = 1 \/ k = 2 \/ k = 3 \/ k = 4 \/ k = 5 \/ k = 6
    OBVIOUS
<1>3. MaxRatingDiffAfter(wait) = WidenSchedule[last].maxRatingDiff
    BY DEF MaxRatingDiffAfter
<1>4. ASSUME NEW k \in reached, \A l \in reached : l <= k PROVE last = k
    <2>1. last \in reached /\ \A l \in reached : l <= last
        <3> HIDE DEF reached
        <3> QED BY <1>4
    <2>2. k \in 1..6 /\ last \in 1..6
        <3> HIDE DEF last
        <3> QED BY <1>1, <2>1
    <2>3. k <= last /\ last <= k
        <3> HIDE DEF last, reached
        <3> QED BY <1>4, <2>1
    <2> HIDE DEF last, reached
    <2> QED BY <2>2, <2>3
<1>5. \A k \in 1..6 : (k \in reached) <=> wait >= WidenSchedule[k].afterSec
    BY <1>1
<1>6. reached \subseteq 1..6
    BY <1>1
<1> HIDE DEF last, reached
<1>7. CASE wait >= 300
    <2>1. 6 \in reached /\ \A l \in reached : l <= 6
        BY <1>1, <1>5, <1>6, <1>7
    <2> QED BY <1>1, <1>3, <1>4, <1>7, <2>1
<1>8. CASE wait >= 180 /\ ~(wait >= 300)
    <2>1. 5 \in reached /\ \A l \in reached : l <= 5
        BY <1>1, <1>2, <1>5, <1>6, <1>8
    <2> QED BY <1>1, <1>3, <1>4, <1>8, <2>1
<1>9. CASE wait >= 120 /\ ~(wait >= 180)
    <2>1. 4 \in reached /\ \A l \in reached : l <= 4
        BY <1>1, <1>2, <1>5, <1>6, <1>9
    <2> QED BY <1>1, <1>3, <1>4, <1>9, <2>1
<1>10. CASE wait >= 60 /\ ~(wait >= 120)
    <2>1. 3 \in reached /\ \A l \in reached : l <= 3
        BY <1>1, <1>2, <1>5, <1>6, <1>10
    <2> QED BY <1>1, <1>3, <1>4, <1>10, <2>1
<1>11. CASE wait >= 30 /\ ~(wait >= 60)
    <2>1. 2 \in reached /\ \A l \in reached : l <= 2
        BY <1>1, <1>2, <1>5, <1>6, <1>11
    <2> QED BY <1>1, <1>3, <1>4, <1>11, <2>1
<1>12. CASE ~(wait >= 30)
    <2>1. 1 \in reached /\ \A l \in reached : l <= 1
        BY <1>1, <1>2, <1>5, <1>6, <1>12
    <2> QED BY <1>1, <1>3, <1>4, <1>12, <2>1
<1> QED BY <1>7, <1>8, <1>9, <1>10, <1>11, <1>12

\* Waiting never narrows the window
LEMMA Widens ==
    ASSUME NEW w \in Nat, NEW v \in Nat, w <= v
    PROVE  /\ MaxRatingDiffAfter(w) \in Nat \cup {AnyGap}
           /\ \/ MaxRatingDiffAfter(v) = AnyGap
              \/ /\ MaxRatingDiffAfter(w) # AnyGap /\ MaxRatingDiffAfter(v) \in Nat
                 /\ MaxRatingDiffAfter(w) <= MaxRatingDiffAfter(v)
BY Schedule DEF AnyGap

\* The gap between two teams is a number
LEMMA GapNat ==
    ASSUME NEW Regions, NEW queue \in Seq(Waiting(Regions)), NEW p
    PROVE  Gap(queue, p) \in Nat
<1>1. Weight(queue, p[1]) \in Int /\ Weight(queue, p[2]) \in Int
    BY Sums
<1> QED BY <1>1 DEF Gap, Abs

\* matchmaker.ts 287-297: among pairings there is one that none is better than
LEMMA BestExists ==
    ASSUME NEW Regions, NEW queue \in Seq(Waiting(Regions)), NEW P, P # {},
           \A p \in P : Members(p) \subseteq DOMAIN queue
    PROVE  \E p \in P : \A q \in P : ~Better(queue, q, p)
<1> DEFINE Plain == {p \in P : ~Mixed(queue, p)}
           C == IF Plain # {} THEN Plain ELSE P
           most == Waited(queue, DOMAIN queue)
<1>1. C # {} /\ C \subseteq P
    OBVIOUS
<1>2. ASSUME NEW p \in C, NEW q \in P
      PROVE  /\ ~(~Mixed(queue, q) /\ Mixed(queue, p))
             /\ Mixed(queue, q) = Mixed(queue, p) => q \in C
    <2>1. CASE Plain # {}
        <3>1. ~Mixed(queue, p)
            BY <2>1
        <3>2. Mixed(queue, q) = Mixed(queue, p) => ~Mixed(queue, q)
            BY <3>1
        <3>3. C = Plain
            BY <2>1
        <3>4. ~Mixed(queue, q) => q \in Plain
            OBVIOUS
        <3> HIDE DEF Plain, C
        <3> QED BY <3>1, <3>2, <3>3, <3>4
    <2>2. CASE Plain = {}
        <3>1. Mixed(queue, q) /\ C = P
            BY <2>2
        <3> HIDE DEF C, Plain
        <3> QED BY <3>1
    <2> QED BY <2>1, <2>2
<1> HIDE DEF C, Plain
<1>3. PICK p0 \in C : \A p \in C : Gap(queue, p0) <= Gap(queue, p)
    <2> DEFINE G == {Gap(queue, p) : p \in C}
    <2>1. G # {} /\ G \in SUBSET Nat
        BY <1>1, GapNat
    <2>2. PICK x \in G : \A y \in G : x <= y
        <3> HIDE DEF G
        <3> QED BY <2>1, Least
    <2>3. PICK p0 \in C : x = Gap(queue, p0)
        BY <2>2
    <2>4. \A p \in C : Gap(queue, p) \in G
        OBVIOUS
    <2> HIDE DEF G
    <2> QED BY <2>2, <2>3, <2>4
<1> DEFINE D == {p \in C : Gap(queue, p) = Gap(queue, p0)}
<1>4. ASSUME NEW p \in P
      PROVE  Waited(queue, Members(p)) \in Nat /\ Waited(queue, Members(p)) <= most /\ most \in Nat
    <2>1. Members(p) \cup DOMAIN queue = DOMAIN queue
        OBVIOUS
    <2>2. Waited(queue, Members(p)) \in Nat /\ Waited(queue, Members(p)) <= Waited(queue, Members(p) \cup DOMAIN queue)
        BY Sums
    <2>3. most \in Nat
        BY Sums
    <2> QED BY <2>1, <2>2, <2>3
<1> HIDE DEF most
<1>5. PICK p1 \in D : \A p \in D : Waited(queue, Members(p)) <= Waited(queue, Members(p1))
    <2> DEFINE Short(p) == most - Waited(queue, Members(p))
               G == {Short(p) : p \in D}
    <2>1. G # {} /\ G \in SUBSET Nat
        <3>1. \A p \in P : Short(p) \in Nat
            BY <1>4
        <3> HIDE DEF Short
        <3> QED BY <1>1, <1>3, <3>1
    <2>2. PICK x \in G : \A y \in G : x <= y
        <3> HIDE DEF G
        <3> QED BY <2>1, Least
    <2>3. PICK p1 \in D : x = Short(p1)
        BY <2>2
    <2>4. \A p \in D : Short(p) \in G
        OBVIOUS
    <2>5. ASSUME NEW p \in D PROVE Waited(queue, Members(p)) <= Waited(queue, Members(p1))
        <3>1. Short(p1) <= Short(p) /\ p \in P /\ p1 \in P
            BY <1>1, <2>2, <2>3, <2>4
        <3> QED BY <1>4, <3>1
    <2> QED BY <2>5
<1>6. p1 \in C /\ p1 \in P /\ Gap(queue, p1) = Gap(queue, p0)
    BY <1>1
<1>7. ASSUME NEW q \in P, Better(queue, q, p1) PROVE FALSE
    <2>1. q \in C
        BY <1>2, <1>6, <1>7 DEF Better
    <2>2. ~(Gap(queue, q) < Gap(queue, p1))
        <3>1. Gap(queue, q) \in Nat /\ Gap(queue, p0) \in Nat
            BY GapNat
        <3> QED BY <1>3, <1>6, <2>1, <3>1
    <2>3. Gap(queue, q) = Gap(queue, p1) /\ Waited(queue, Members(q)) > Waited(queue, Members(p1))
        BY <1>2, <1>6, <1>7, <2>2 DEF Better
    <2>4. q \in D
        BY <1>6, <2>1, <2>3
    <2> QED BY <1>4, <1>5, <1>6, <2>3, <2>4
<1> QED BY <1>6, <1>7

\* The pairing that is taken is one, and none is better
LEMMA BestIs ==
    ASSUME NEW Regions, NEW queue \in Seq(Waiting(Regions)), NEW teamSize, NEW i \in DOMAIN queue,
           NEW candidates \in SUBSET DOMAIN queue, Pairings(queue, i, candidates, teamSize) # {}
    PROVE  LET best == BestProposal(queue, i, candidates, teamSize)
           IN  /\ best \in Pairings(queue, i, candidates, teamSize)
               /\ \A q \in Pairings(queue, i, candidates, teamSize) : ~Better(queue, q, best)
<1> DEFINE P == Pairings(queue, i, candidates, teamSize)
<1>1. \A p \in P : Members(p) \subseteq DOMAIN queue
    BY DEF Pairings, Teams, Members
<1>2. \E p \in P : \A q \in P : ~Better(queue, q, p)
    <2> HIDE DEF P
    <2>1. P # {}
        BY DEF P
    <2> QED BY <1>1, <2>1, BestExists
<1>3. BestProposal(queue, i, candidates, teamSize) = CHOOSE p \in P : \A q \in P : ~Better(queue, q, p)
    BY DEF BestProposal
<1> HIDE DEF P
<1>4. LET best == BestProposal(queue, i, candidates, teamSize)
      IN  best \in P /\ \A q \in P : ~Better(queue, q, best)
    BY <1>2, <1>3
<1> QED BY <1>4 DEF P

\* The longest waiting first (matchmaker.ts 162-163), and who asks for trust has it (queue/service.ts 276-282)
Orderly(queue) ==
    /\ \A i, j \in DOMAIN queue : i <= j => queue[i].wait >= queue[j].wait
    /\ \A i \in DOMAIN queue : queue[i].trust >= queue[i].minTrust

\* The fields of the tickets in a queue
LEMMA TicketFacts ==
    ASSUME NEW Regions, NEW queue \in Seq(Waiting(Regions))
    PROVE  /\ Len(queue) \in Nat /\ DOMAIN queue = 1..Len(queue)
           /\ \A i \in DOMAIN queue :
                 /\ queue[i] \in Waiting(Regions)
                 /\ queue[i].size \in Nat /\ queue[i].size >= 1 /\ queue[i].rating \in Int /\ queue[i].wait \in Nat
                 /\ queue[i].trust \in Int /\ queue[i].minTrust \in Int
<1>1. Len(queue) \in Nat /\ DOMAIN queue = 1..Len(queue) /\ \A i \in 1..Len(queue) : queue[i] \in Waiting(Regions)
    BY LenProperties, ElementOfSeq
<1>2. \A t \in Waiting(Regions) : /\ t.size \in Nat /\ t.size >= 1 /\ t.rating \in Int /\ t.wait \in Nat
                                  /\ t.trust \in Int /\ t.minTrust \in Int
    BY DEF Waiting
<1> QED BY <1>1, <1>2

\* Nobody adds up to nothing
LEMMA NoneAreNothing ==
    ASSUME NEW Regions, NEW queue \in Seq(Waiting(Regions))
    PROVE  Players(queue, {}) = 0 /\ Weight(queue, {}) = 0
<1>1. ASSUME NEW value \in Seq(Int) PROVE Total(value, {}) = 0
    <2> DEFINE n == Len(value)
    <2>1. n \in Nat
        BY LenProperties
    <2>2. PICK f : Running(value, {}, f)
        BY TotalRuns
    <2>3. f[0] = 0 /\ Total(value, {}) = f[n] /\ f \in [0..n -> Int] /\ \A i \in 1..n : f[i] = f[i - 1] + 0
        BY <2>2 DEF Running
    <2> DEFINE T == {i \in 0..n : f[i] = 0}
    <2> HIDE DEF n
    <2>4. 0 \in T
        BY <2>1, <2>3
    <2>5. ASSUME NEW i \in 0..n, i < n, i \in T PROVE i + 1 \in T
        <3>1. i + 1 \in 1..n /\ i + 1 \in 0..n /\ (i + 1) - 1 = i
            BY <2>1, <2>5
        <3> QED BY <2>3, <2>5, <3>1
    <2>6. \A i \in 0..n : i \in T
        <3> HIDE DEF T
        <3> QED BY <2>1, <2>4, <2>5, UpTo
    <2> QED BY <2>1, <2>3, <2>6
<1> DEFINE Weighs(i) == queue[i].rating * queue[i].size
           sizes == [i \in DOMAIN queue |-> queue[i].size]
           weights == [i \in DOMAIN queue |-> Weighs(i)]
<1>2. sizes \in Seq(Int) /\ weights \in Seq(Int)
    <2>1. Len(queue) \in Nat /\ DOMAIN queue = 1..Len(queue) /\ \A i \in DOMAIN queue : queue[i].size \in Int
        BY TicketFacts
    <2>2. \A i \in DOMAIN queue : Weighs(i) \in Int
        BY TicketFacts
    <2> HIDE DEF Weighs
    <2>3. sizes \in [1..Len(queue) -> Int]
        BY <2>1
    <2>4. weights \in [1..Len(queue) -> Int]
        BY <2>1, <2>2
    <2> HIDE DEF sizes, weights
    <2> QED BY <2>1, <2>3, <2>4, SeqDef
<1>3. Players(queue, {}) = Total(sizes, {}) /\ Weight(queue, {}) = Total(weights, {})
    BY DEF Players, Weight
<1> HIDE DEF sizes, weights
<1> QED BY <1>1, <1>2, <1>3

\* Who is a candidate
LEMMA CandidateFacts ==
    ASSUME NEW queue, NEW i, NEW F, NEW n, NEW j \in Candidates(queue, i, F, n)
    PROVE  /\ j \in F /\ j # i /\ queue[j].region = queue[i].region
           /\ Within(Distance(queue, i, j), Spread(Window(queue, i, n)))
           /\ TrustCompatible(queue[i], queue[j])
BY DEF Candidates, NearEnough

\* What a pairing is made of
LEMMA PairingFacts ==
    ASSUME NEW queue, NEW i, NEW c, NEW n, NEW p \in Pairings(queue, i, c, n)
    PROVE  \E mates \in SUBSET c, other \in SUBSET c :
              /\ Players(queue, mates) = n - queue[i].size /\ Players(queue, other) = n
              /\ p = <<mates \cup {i}, other>> /\ p[1] = mates \cup {i} /\ p[2] = other
              /\ p[1] \cap p[2] = {} /\ Allowed(queue, i, p, n)
BY DEF Pairings, Teams

\* The distance of a ticket within the spread of a window
LEMMA SpreadIs ==
    ASSUME NEW g \in Int, NEW w \in Nat \cup {AnyGap}
    PROVE  /\ w = AnyGap => Within(g, Spread(w))
           /\ w # AnyGap => (Within(g, Spread(w)) <=> g <= CandidateSpread * w)
BY DEF Within, Spread, AnyGap, CandidateSpread

\* Distances are numbers
LEMMA DistanceIs ==
    ASSUME NEW Regions, NEW queue \in Seq(Waiting(Regions)), NEW i \in DOMAIN queue
    PROVE  Distance(queue, i, i) = 0 /\ \A j \in DOMAIN queue : Distance(queue, i, j) \in Nat
<1>1. \A j \in DOMAIN queue : queue[j].rating \in Int
    BY TicketFacts
<1> QED BY <1>1 DEF Distance, Abs

\* What the code puts together is a match
LEMMA PairingIsMatch ==
    ASSUME NEW Regions, NEW queue \in Seq(Waiting(Regions)), NEW n \in Nat \ {0},
           NEW i \in DOMAIN queue, NEW F \in SUBSET DOMAIN queue,
           NEW p \in Pairings(queue, i, Candidates(queue, i, F, n), n)
    PROVE  IsMatch(queue, n, i, p) /\ Members(p) \subseteq F \cup {i} /\ p = <<p[1], p[2]>>
<1> DEFINE c == Candidates(queue, i, F, n)
           w == MaxRatingDiffAfter(queue[i].wait)
<1>1. PICK mates \in SUBSET c, other \in SUBSET c :
              /\ Players(queue, mates) = n - queue[i].size /\ Players(queue, other) = n
              /\ p = <<mates \cup {i}, other>> /\ p[1] = mates \cup {i} /\ p[2] = other
              /\ p[1] \cap p[2] = {} /\ Allowed(queue, i, p, n)
    BY PairingFacts
<1>2. ASSUME NEW j \in c
      PROVE  /\ j \in F /\ j # i /\ queue[j].region = queue[i].region
             /\ Within(Distance(queue, i, j), Spread(Window(queue, i, n)))
    BY CandidateFacts
<1> HIDE DEF c
<1>3. \A j \in Members(p) : j \in c \/ j = i
    BY <1>1 DEF Members
<1>4. Players(queue, p[1]) = n /\ Players(queue, p[2]) = n
    <2>1. i \in DOMAIN queue \ mates
        BY <1>2
    <2>2. Players(queue, mates \cup {i}) = Players(queue, mates) + queue[i].size
        BY <2>1, Sums
    <2>3. queue[i].size \in Nat
        BY TicketFacts
    <2> QED BY <1>1, <2>2, <2>3
<1>5. \A j \in Members(p) : queue[j].region = queue[i].region
    BY <1>2, <1>3
<1>6. \A j, k \in Members(p) : queue[j].trust >= queue[k].minTrust
    BY <1>1 DEF Allowed, TrustCompatible
<1>7. ASSUME ~Sole(queue, i, n)
      PROVE  /\ \/ w = AnyGap
                \/ /\ Gap(queue, p) <= w * n
                   /\ \A j \in Members(p) : Distance(queue, i, j) <= CandidateSpread * w
             /\ Mixed(queue, p) => \A j \in Members(p) : queue[j].wait >= MixAfter
    <2>1. Window(queue, i, n) = w
        BY <1>7 DEF Window
    <2>2. w \in Nat \cup {AnyGap}
        BY TicketFacts, Widens
    <2> HIDE DEF w
    <2>3. w = AnyGap \/ Gap(queue, p) <= w * n
        BY <1>1, <2>1 DEF Allowed
    <2>4. ASSUME w # AnyGap, NEW j \in Members(p) PROVE Distance(queue, i, j) <= CandidateSpread * w
        <3>1. CASE j \in c
            <4>1. Within(Distance(queue, i, j), Spread(w)) /\ Distance(queue, i, j) \in Int
                BY <1>2, <2>1, <3>1, DistanceIs
            <4> QED BY <2>2, <2>4, <4>1, SpreadIs
        <3>2. CASE j = i
            <4>1. Distance(queue, i, j) = 0
                BY <3>2, DistanceIs
            <4>2. w \in Nat
                BY <2>2, <2>4
            <4> QED BY <4>1, <4>2 DEF CandidateSpread
        <3> QED BY <1>3, <3>1, <3>2
    <2>5. Mixed(queue, p) => \A j \in Members(p) : queue[j].wait >= MixAfter
        BY <1>1, <1>7 DEF Allowed, MayMix, CanMix
    <2> QED BY <2>3, <2>4, <2>5
<1>8. p[1] \cap p[2] = {} /\ i \in p[1] /\ p = <<p[1], p[2]>> /\ Members(p) \subseteq F \cup {i}
    BY <1>1, <1>2, <1>3
<1> HIDE DEF w
<1>9. IsMatch(queue, n, i, p)
    BY <1>4, <1>5, <1>6, <1>7, <1>8 DEF IsMatch, w
<1> QED BY <1>8, <1>9

\* Whoever can be in a match with the anchor is near enough to it
LEMMA MembersAreNear ==
    ASSUME NEW Regions, NEW queue \in Seq(Waiting(Regions)), NEW n \in Nat \ {0},
           NEW i \in DOMAIN queue, NEW F \in SUBSET DOMAIN queue, NEW A \in SUBSET F, NEW B \in SUBSET F,
           IsMatch(queue, n, i, <<A, B>>), NEW j \in (A \cup B) \ {i}
    PROVE  j \in NearEnough(queue, i, F \ {i}, n) /\ TrustCompatible(queue[i], queue[j])
<1> DEFINE p == <<A, B>>
           w == MaxRatingDiffAfter(queue[i].wait)
<1>1. Members(p) = A \cup B /\ i \in Members(p) /\ j \in Members(p) /\ j \in F \ {i} /\ j \in DOMAIN queue
    BY DEF Members, IsMatch
<1>2. queue[j].region = queue[i].region /\ TrustCompatible(queue[i], queue[j])
    BY <1>1 DEF IsMatch, TrustCompatible
<1>3. Within(Distance(queue, i, j), Spread(Window(queue, i, n)))
    <2>1. Distance(queue, i, j) \in Int
        BY <1>1, DistanceIs
    <2>2. CASE Sole(queue, i, n)
        BY <2>1, <2>2, SpreadIs DEF Window
    <2>3. CASE ~Sole(queue, i, n)
        <3>1. Window(queue, i, n) = w /\ w \in Nat \cup {AnyGap}
            BY <2>3, TicketFacts, Widens DEF Window
        <3>2. w = AnyGap \/ Distance(queue, i, j) <= CandidateSpread * w
            BY <1>1, <2>3 DEF IsMatch
        <3> HIDE DEF w
        <3> QED BY <2>1, <3>1, <3>2, SpreadIs
    <2> QED BY <2>2, <2>3
<1> QED BY <1>1, <1>2, <1>3 DEF NearEnough

\* A match of one against one: nobody else is on a team of one player
LEMMA OneEach ==
    ASSUME NEW Regions, NEW queue \in Seq(Waiting(Regions)), NEW T \in SUBSET DOMAIN queue,
           Players(queue, T) = 1, NEW b \in T
    PROVE  T = {b} /\ queue[b].size = 1
<1> DEFINE rest == T \ {b}
<1>1. queue[b].size \in Nat /\ queue[b].size >= 1
    BY TicketFacts
<1>2. Players(queue, rest) \in Nat /\ Players(queue, rest \cup {b}) = Players(queue, rest) + queue[b].size
    <2>1. b \in DOMAIN queue \ rest
        OBVIOUS
    <2> HIDE DEF rest
    <2> QED BY <2>1, Sums
<1>3. rest \cup {b} = T
    OBVIOUS
<1>4. Players(queue, rest) = 0 /\ queue[b].size = 1
    <2> HIDE DEF rest
    <2>1. Players(queue, T) = Players(queue, rest) + queue[b].size
        BY <1>2, <1>3
    <2> QED BY <1>1, <1>2, <2>1
<1>5. ASSUME NEW x \in rest PROVE FALSE
    <2> DEFINE less == rest \ {x}
    <2>1. x \in DOMAIN queue \ less /\ less \cup {x} = rest
        OBVIOUS
    <2>2. Players(queue, less) \in Nat /\ Players(queue, less \cup {x}) = Players(queue, less) + queue[x].size
        <3> HIDE DEF less, rest
        <3> QED BY <2>1, Sums
    <2>3. queue[x].size \in Nat /\ queue[x].size >= 1
        <3>1. x \in DOMAIN queue
            OBVIOUS
        <3> QED BY <3>1, TicketFacts
    <2> HIDE DEF less, rest
    <2>4. Players(queue, rest) = Players(queue, less) + queue[x].size
        BY <2>1, <2>2
    <2> QED BY <1>4, <2>2, <2>3, <2>4
<1> QED BY <1>3, <1>4, <1>5

\* The places before one among few
LEMMA FewAreBefore ==
    ASSUME NEW m \in Nat, NEW S \in SUBSET (1..m), NEW i \in 1..m, NEW j \in 1..m, i # j,
           i \notin S, j \notin S
    PROVE  Cardinality(S) \in Nat /\ Cardinality(S) <= m - 2
<1> DEFINE M == 1..m
           N == M \ {i}
           K == N \ {j}
<1>1. IsFiniteSet(M) /\ Cardinality(M) = m
    <2>1. \A x, y \in Int : IsFiniteSet(x..y) /\ Cardinality(x..y) = IF x > y THEN 0 ELSE y - x + 1
        BY FS_Interval
    <2>2. m \in Int /\ 1 \in Int /\ ~(1 > m) /\ m - 1 + 1 = m
        OBVIOUS
    <2>3. IsFiniteSet(1..m) /\ Cardinality(1..m) = IF 1 > m THEN 0 ELSE m - 1 + 1
        BY <2>1, <2>2
    <2> QED BY <2>2, <2>3
<1>2. i \in M /\ j \in N /\ S \in SUBSET K
    OBVIOUS
<1> HIDE DEF M
<1>3. IsFiniteSet(N) /\ Cardinality(N) = m - 1
    BY <1>1, <1>2, FS_RemoveElement
<1> HIDE DEF N
<1>4. IsFiniteSet(K) /\ Cardinality(K) = m - 1 - 1
    BY <1>2, <1>3, FS_RemoveElement
<1> HIDE DEF K
<1>5. IsFiniteSet(S) /\ Cardinality(S) <= Cardinality(K)
    BY <1>2, <1>4, FS_Subset
<1>6. Cardinality(S) \in Nat
    BY <1>5, FS_CardinalityType
<1> QED BY <1>4, <1>5, <1>6

\* The nearest of the near, and the longest waiting of those
LEMMA NearestExists ==
    ASSUME NEW Regions, NEW queue \in Seq(Waiting(Regions)), NEW i \in DOMAIN queue,
           NEW near \in SUBSET DOMAIN queue, near # {}
    PROVE  \E j \in near : \A k \in near : ~Before(queue, i, k, j) /\ Distance(queue, i, j) <= Distance(queue, i, k)
<1>1. \A k \in near : Distance(queue, i, k) \in Nat
    BY DistanceIs
<1>2. PICK j0 \in near : \A k \in near : Distance(queue, i, j0) <= Distance(queue, i, k)
    <2> DEFINE G == {Distance(queue, i, k) : k \in near}
    <2>1. G # {} /\ G \in SUBSET Nat
        BY <1>1
    <2>2. PICK x \in G : \A y \in G : x <= y
        <3> HIDE DEF G
        <3> QED BY <2>1, Least
    <2>3. PICK j0 \in near : x = Distance(queue, i, j0)
        BY <2>2
    <2>4. \A k \in near : Distance(queue, i, k) \in G
        OBVIOUS
    <2> HIDE DEF G
    <2> QED BY <2>2, <2>3, <2>4
<1> DEFINE D == {k \in near : Distance(queue, i, k) = Distance(queue, i, j0)}
<1>3. D \in SUBSET Nat /\ D # {} /\ D \subseteq near
    <2>1. DOMAIN queue = 1..Len(queue)
        BY TicketFacts
    <2> QED BY <2>1
<1>4. PICK j \in D : \A k \in D : j <= k
    <2> HIDE DEF D
    <2> QED BY <1>3, Least
<1>5. ASSUME NEW k \in near
      PROVE  ~Before(queue, i, k, j) /\ Distance(queue, i, j) <= Distance(queue, i, k)
    <2>1. /\ Distance(queue, i, j) = Distance(queue, i, j0)
          /\ Distance(queue, i, k) = Distance(queue, i, j) => k \in D
        OBVIOUS
    <2>2. Distance(queue, i, j0) <= Distance(queue, i, k)
        BY <1>2
    <2>3. j \in Nat /\ k \in Nat /\ (k \in D => j <= k)
        <3>1. near \in SUBSET Nat
            BY TicketFacts
        <3> HIDE DEF D
        <3> QED BY <1>3, <1>4, <3>1
    <2>4. Distance(queue, i, j) \in Nat /\ Distance(queue, i, k) \in Nat
        BY <1>1
    <2> HIDE DEF D
    <2> QED BY <2>1, <2>2, <2>3, <2>4 DEF Before
<1> QED BY <1>3, <1>5

\* What suffices for a pairing
LEMMA PairingsHas ==
    ASSUME NEW queue, NEW i, NEW c, NEW n, NEW mates \in SUBSET c, NEW other \in SUBSET c,
           Players(queue, mates) = n - queue[i].size, Players(queue, other) = n,
           NEW p, p = <<mates \cup {i}, other>>, p[1] \cap p[2] = {}, Allowed(queue, i, p, n)
    PROVE  p \in Pairings(queue, i, c, n)
<1>1. mates \in Teams(queue, c, n - queue[i].size) /\ other \in Teams(queue, c, n)
    BY DEF Teams
<1>2. p \in {<<m \cup {i}, o>> : m \in Teams(queue, c, n - queue[i].size), o \in Teams(queue, c, n)}
    BY <1>1
<1> QED BY <1>2 DEF Pairings

\* In a queue that is not crowded the code finds a match for an anchor when there is one
LEMMA MatchIsPaired ==
    ASSUME NEW Regions, NEW queue \in Seq(Waiting(Regions)), NEW n \in Nat \ {0}, Orderly(queue),
           NEW i \in DOMAIN queue, NEW F \in SUBSET DOMAIN queue, NEW A \in SUBSET F, NEW B \in SUBSET F,
           \A k \in F : queue[k].size <= n, IsMatch(queue, n, i, <<A, B>>), ~Crowded(queue, n)
    PROVE  Pairings(queue, i, Candidates(queue, i, F, n), n) # {}
<1> DEFINE p == <<A, B>>
           c == Candidates(queue, i, F, n)
           near == {j \in NearEnough(queue, i, F \ {i}, n) : TrustCompatible(queue[i], queue[j])}
           w == MaxRatingDiffAfter(queue[i].wait)
           Earlier(j) == {k \in near : Before(queue, i, k, j)}
<1>1. /\ A \cap B = {} /\ i \in A /\ Players(queue, A) = n /\ Players(queue, B) = n /\ Members(p) = A \cup B
      /\ \A j, k \in Members(p) : queue[j].trust >= queue[k].minTrust
      /\ \/ Sole(queue, i, n)
         \/ /\ w = AnyGap \/ Gap(queue, p) <= w * n
            /\ Mixed(queue, p) => \A j \in Members(p) : queue[j].wait >= MixAfter
    BY DEF IsMatch, Members
<1>2. c = {j \in near : Cardinality(Earlier(j)) < MaxCandidates}
    BY DEF Candidates
<1>3. near \subseteq F \ {i} /\ \A j \in (A \cup B) \ {i} : j \in near
    <2>1. near \subseteq F \ {i}
        BY DEF NearEnough
    <2>2. \A j \in (A \cup B) \ {i} : j \in near
        BY MembersAreNear
    <2> QED BY <2>1, <2>2
<1>4. \A j \in near : ~Before(queue, i, j, j)
    BY <1>3, DistanceIs, TicketFacts DEF Before
<1>5. Len(queue) \in Nat /\ DOMAIN queue = 1..Len(queue) /\ MaxCandidates \in Nat \ {0}
    BY TicketFacts, MatchmakerAssumption
<1>6. CASE n # 1
    <2>1. \A j \in near : j \in c
        <3> SUFFICES ASSUME NEW j \in near PROVE Cardinality(Earlier(j)) < MaxCandidates
            BY <1>2
        <3>1. /\ Earlier(j) \in SUBSET (1..Len(queue)) /\ i \in 1..Len(queue) /\ j \in 1..Len(queue) /\ i # j
              /\ i \notin Earlier(j) /\ j \notin Earlier(j)
            <4> HIDE DEF near
            <4> QED BY <1>3, <1>4, <1>5
        <3>2. Cardinality(Earlier(j)) \in Nat /\ Cardinality(Earlier(j)) <= Len(queue) - 2
            <4> HIDE DEF Earlier
            <4> QED BY <1>5, <3>1, FewAreBefore
        <3>3. Len(queue) <= MaxCandidates + 1
            BY <1>5, <1>6 DEF Crowded
        <3> HIDE DEF Earlier
        <3> QED BY <1>5, <3>2, <3>3
    <2>2. (A \ {i}) \in SUBSET c /\ B \in SUBSET c
        <3> HIDE DEF near, c
        <3> QED BY <1>1, <1>3, <2>1
    <2>3. Players(queue, A \ {i}) = n - queue[i].size
        <3>1. /\ Players(queue, A \ {i}) \in Nat
              /\ Players(queue, (A \ {i}) \cup {i}) = Players(queue, A \ {i}) + queue[i].size
            BY Sums
        <3>2. (A \ {i}) \cup {i} = A
            BY <1>1
        <3>3. queue[i].size \in Nat
            BY TicketFacts
        <3>4. Players(queue, A) = Players(queue, A \ {i}) + queue[i].size
            BY <3>1, <3>2
        <3> QED BY <1>1, <3>1, <3>3, <3>4
    <2>4. p = <<(A \ {i}) \cup {i}, B>>
        BY <1>1
    <2>5. Allowed(queue, i, p, n)
        <3>1. \A j, k \in Members(p) : TrustCompatible(queue[j], queue[k])
            BY <1>1 DEF TrustCompatible
        <3>2. Window(queue, i, n) = AnyGap \/ Gap(queue, p) <= Window(queue, i, n) * n
            BY <1>1 DEF Window
        <3>3. Mixed(queue, p) => \A j \in Members(p) : MayMix(queue, i, j, n)
            BY <1>1 DEF MayMix, CanMix
        <3> HIDE DEF p
        <3> QED BY <3>1, <3>2, <3>3 DEF Allowed
    <2>6. p \in Pairings(queue, i, c, n)
        <3>1. p[1] \cap p[2] = {}
            BY <1>1
        <3> HIDE DEF c, p
        <3> QED BY <1>1, <2>2, <2>3, <2>4, <2>5, <3>1, PairingsHas
    <2> QED BY <2>6
<1>7. CASE n = 1
    <2>1. PICK b : b \in B
        <3>1. Players(queue, {}) = 0
            BY NoneAreNothing
        <3> QED BY <1>1, <1>7, <3>1
    <2>2. A = {i} /\ B = {b} /\ queue[i].size = 1 /\ queue[b].size = 1
        BY <1>1, <1>7, <2>1, OneEach
    <2>3. b \in near
        <3> HIDE DEF near
        <3> QED BY <1>1, <1>3, <2>1
    <2>4. PICK j \in near : \A k \in near : ~Before(queue, i, k, j) /\ Distance(queue, i, j) <= Distance(queue, i, k)
        <3>1. near \in SUBSET DOMAIN queue /\ near # {}
            BY <1>3, <2>3
        <3> HIDE DEF near
        <3> QED BY <3>1, NearestExists
    <2>5. j \in c
        <3>1. Earlier(j) = {}
            <4> HIDE DEF near
            <4> QED BY <2>4
        <3>2. Cardinality(Earlier(j)) = 0
            BY <3>1, FS_EmptySet
        <3> QED BY <1>2, <1>5, <2>4, <3>2
    <2> DEFINE q == <<{} \cup {i}, {j}>>
    <2>6. j \in DOMAIN queue /\ j # i /\ j \in F /\ TrustCompatible(queue[i], queue[j]) /\ queue[j].size = 1
        <3>1. j \in F /\ j # i /\ TrustCompatible(queue[i], queue[j])
            BY <1>3, <2>4
        <3>2. queue[j].size <= 1 /\ queue[j].size \in Nat /\ queue[j].size >= 1
            BY <1>7, <3>1, TicketFacts
        <3> QED BY <3>1, <3>2
    <2>7. \A x \in DOMAIN queue : Players(queue, {} \cup {x}) = queue[x].size
                                  /\ Weight(queue, {} \cup {x}) = queue[x].rating * queue[x].size
        <3>1. ASSUME NEW x \in DOMAIN queue
              PROVE  /\ Players(queue, {} \cup {x}) = 0 + queue[x].size
                     /\ Weight(queue, {} \cup {x}) = 0 + queue[x].rating * queue[x].size
            <4>1. x \in DOMAIN queue \ {}
                OBVIOUS
            <4>2. /\ Players(queue, {} \cup {x}) = Players(queue, {}) + queue[x].size
                  /\ Weight(queue, {} \cup {x}) = Weight(queue, {}) + queue[x].rating * queue[x].size
                BY <4>1, Sums
            <4> QED BY <4>2, NoneAreNothing
        <3>2. \A x \in DOMAIN queue : queue[x].size \in Nat /\ queue[x].rating \in Int
            BY TicketFacts
        <3>3. \A x \in DOMAIN queue : queue[x].rating * queue[x].size \in Int
            BY <3>2
        <3> QED BY <3>1, <3>2, <3>3
    <2>8. \A x \in DOMAIN queue : {} \cup {x} = {x}
        OBVIOUS
    <2>9. ASSUME NEW x \in DOMAIN queue, queue[x].size = 1
          PROVE  Weight(queue, {x}) = queue[x].rating /\ queue[x].rating \in Int
        <3>1. Weight(queue, {x}) = queue[x].rating * queue[x].size
            BY <2>7, <2>8
        <3>2. queue[x].rating \in Int
            BY TicketFacts
        <3> QED BY <2>9, <3>1, <3>2
    <2>10. Gap(queue, <<{i}, {j}>>) = Distance(queue, i, j) /\ Gap(queue, <<{i}, {b}>>) = Distance(queue, i, b)
        <3>1. b \in DOMAIN queue
            BY <2>1
        <3>2. /\ Weight(queue, {i}) = queue[i].rating /\ Weight(queue, {j}) = queue[j].rating
              /\ Weight(queue, {b}) = queue[b].rating
            BY <2>2, <2>6, <2>9, <3>1
        <3> QED BY <3>2 DEF Gap, Distance
    <2>11. q = <<{i}, {j}>> /\ p = <<{i}, {b}>> /\ Members(q) = {i, j}
        BY <2>2 DEF Members
    <2>12. Allowed(queue, i, q, n)
        <3>1. \A x, y \in Members(q) : TrustCompatible(queue[x], queue[y])
            <4>1. \A x \in {i, j} : queue[x].trust >= queue[x].minTrust
                BY <2>6 DEF Orderly
            <4> QED BY <2>6, <2>11, <4>1 DEF TrustCompatible
        <3>2. Window(queue, i, n) = AnyGap \/ Gap(queue, q) <= Window(queue, i, n) * n
            <4>1. CASE Sole(queue, i, n)
                BY <4>1 DEF Window
            <4>2. CASE ~Sole(queue, i, n)
                <5>1. Window(queue, i, n) = w /\ w \in Nat \cup {AnyGap}
                    BY <4>2, TicketFacts, Widens DEF Window
                <5>2. w = AnyGap \/ Distance(queue, i, b) <= w * 1
                    BY <1>1, <1>7, <2>10, <2>11, <4>2
                <5>3. /\ Distance(queue, i, j) \in Nat /\ Distance(queue, i, b) \in Nat
                      /\ Distance(queue, i, j) <= Distance(queue, i, b)
                    <6>1. b \in DOMAIN queue
                        BY <2>1
                    <6> QED BY <2>3, <2>4, <2>6, <6>1, DistanceIs
                <5>4. Gap(queue, q) = Distance(queue, i, j)
                    BY <2>10, <2>11
                <5> HIDE DEF w, q
                <5> QED BY <1>7, <5>1, <5>2, <5>3, <5>4 DEF AnyGap
            <4> QED BY <4>1, <4>2
        <3>3. ~Mixed(queue, q)
            BY <2>2, <2>6, <2>11 DEF Mixed, PartyTeam, IsParty
        <3> HIDE DEF q
        <3> QED BY <3>1, <3>2, <3>3 DEF Allowed
    <2>13. {} \in SUBSET c /\ {j} \in SUBSET c /\ Players(queue, {}) = n - queue[i].size /\ Players(queue, {j}) = n
        <3>1. Players(queue, {j}) = 1
            BY <2>6, <2>7, <2>8
        <3> HIDE DEF c
        <3> QED BY <1>7, <2>2, <2>5, <3>1, NoneAreNothing
    <2>14. q[1] \cap q[2] = {}
        BY <2>6
    <2>15. q \in Pairings(queue, i, c, n)
        <3>1. q = <<{} \cup {i}, {j}>>
            OBVIOUS
        <3> HIDE DEF c, q
        <3> QED BY <2>12, <2>13, <2>14, <3>1, PairingsHas
    <2> QED BY <2>15
<1> QED BY <1>6, <1>7

\* A team with one ticket in the place of another
Swap(team, j, l) == IF j \in team THEN (team \ {j}) \cup {l} ELSE team

\* Tickets that differ in their wait only, and who of them is first in the queue
LEMMA OlderFacts ==
    ASSUME NEW Regions, NEW queue \in Seq(Waiting(Regions)),
           NEW l \in DOMAIN queue, NEW j \in DOMAIN queue, Older(queue, l, j)
    PROVE  /\ queue[l].size = queue[j].size /\ queue[l].rating = queue[j].rating
           /\ queue[l].region = queue[j].region /\ queue[l].trust = queue[j].trust
           /\ queue[l].minTrust = queue[j].minTrust /\ queue[l].wait > queue[j].wait
           /\ Orderly(queue) => l < j
<1>1. queue[l] \in Waiting(Regions) /\ queue[j] = [queue[l] EXCEPT !.wait = queue[j].wait]
    BY TicketFacts DEF Older
<1>2. ASSUME NEW t \in Waiting(Regions), NEW w
      PROVE  LET u == [t EXCEPT !.wait = w]
             IN  u.size = t.size /\ u.rating = t.rating /\ u.region = t.region /\ u.trust = t.trust /\ u.minTrust = t.minTrust
    BY DEF Waiting
<1>3. Orderly(queue) => l < j
    <2>1. l \in Nat /\ j \in Nat /\ queue[l].wait \in Nat /\ queue[j].wait \in Nat
        BY TicketFacts
    <2>2. Orderly(queue) /\ j <= l => queue[j].wait >= queue[l].wait
        BY DEF Orderly
    <2> QED BY <2>1, <2>2 DEF Older
<1>4. queue[l].wait > queue[j].wait
    BY DEF Older
<1> DEFINE u == [queue[l] EXCEPT !.wait = queue[j].wait]
<1>5. /\ u.size = queue[l].size /\ u.rating = queue[l].rating /\ u.region = queue[l].region
      /\ u.trust = queue[l].trust /\ u.minTrust = queue[l].minTrust
    BY <1>1, <1>2
<1>6. queue[j] = u
    BY <1>1
<1> HIDE DEF u
<1>7. /\ queue[l].size = queue[j].size /\ queue[l].rating = queue[j].rating /\ queue[l].region = queue[j].region
      /\ queue[l].trust = queue[j].trust /\ queue[l].minTrust = queue[j].minTrust
    BY <1>5, <1>6
<1> QED BY <1>3, <1>4, <1>7

\* With a ticket in the place of an equal one a team is as large and as strong, and a party or not
LEMMA SwapTeam ==
    ASSUME NEW Regions, NEW queue \in Seq(Waiting(Regions)),
           NEW l \in DOMAIN queue, NEW j \in DOMAIN queue, Older(queue, l, j),
           NEW team \in SUBSET DOMAIN queue, l \notin team
    PROVE  /\ Players(queue, Swap(team, j, l)) = Players(queue, team)
           /\ Weight(queue, Swap(team, j, l)) = Weight(queue, team)
           /\ PartyTeam(queue, Swap(team, j, l)) = PartyTeam(queue, team)
           /\ j \in team => Waited(queue, Swap(team, j, l)) = Waited(queue, team) + queue[l].wait - queue[j].wait
<1>1. queue[l].size = queue[j].size /\ queue[l].rating = queue[j].rating
    BY OlderFacts
<1>2. CASE j \in team
    <2>1. Swap(team, j, l) = (team \ {j}) \cup {l}
        BY <1>2 DEF Swap
    <2>2. /\ Players(queue, (team \ {j}) \cup {l}) = Players(queue, team)
          /\ Weight(queue, (team \ {j}) \cup {l}) = Weight(queue, team)
          /\ Waited(queue, (team \ {j}) \cup {l}) = Waited(queue, team) + queue[l].wait - queue[j].wait
        BY <1>1, <1>2, Swapped
    <2>3. PartyTeam(queue, (team \ {j}) \cup {l}) = PartyTeam(queue, team)
        BY <1>1, <1>2 DEF PartyTeam, IsParty
    <2> QED BY <2>1, <2>2, <2>3
<1>3. CASE j \notin team
    BY <1>3 DEF Swap
<1> QED BY <1>2, <1>3

\* A proposal in which an equal ticket that has waited longer can take the place of one
Exchangeable(queue, p, j, l) ==
    /\ l \in DOMAIN queue /\ j \in DOMAIN queue /\ Older(queue, l, j)
    /\ p[1] \in SUBSET DOMAIN queue /\ p[2] \in SUBSET DOMAIN queue /\ p[1] \cap p[2] = {}
    /\ l \notin Members(p) /\ j \in Members(p)
Exchanged(p, j, l) == <<Swap(p[1], j, l), Swap(p[2], j, l)>>

\* q is as good a proposal as p, and better for its wait
AsGood(queue, p, q, j, l) ==
    /\ q[1] \cap q[2] = {}
    /\ Players(queue, q[1]) = Players(queue, p[1]) /\ Players(queue, q[2]) = Players(queue, p[2])
    /\ Gap(queue, q) = Gap(queue, p) /\ Mixed(queue, q) = Mixed(queue, p) /\ Better(queue, q, p)
    /\ \A x \in Members(q) : x = l \/ (x \in Members(p) /\ x # j)

\* Exchanging a member for one that has waited longer makes it so
LEMMA ExchangeIsAsGood ==
    ASSUME NEW Regions, NEW queue \in Seq(Waiting(Regions)), NEW p, NEW j, NEW l, Exchangeable(queue, p, j, l)
    PROVE  AsGood(queue, p, Exchanged(p, j, l), j, l)
<1> DEFINE q == Exchanged(p, j, l)
           A == p[1]
           B == p[2]
<1>1. /\ l \in DOMAIN queue /\ j \in DOMAIN queue /\ Older(queue, l, j)
      /\ A \in SUBSET DOMAIN queue /\ B \in SUBSET DOMAIN queue /\ A \cap B = {}
      /\ l \notin A /\ l \notin B /\ j \in A \cup B /\ Members(p) = A \cup B
    BY DEF Exchangeable, Members
<1>2. q[1] = Swap(A, j, l) /\ q[2] = Swap(B, j, l) /\ Members(q) = Swap(A, j, l) \cup Swap(B, j, l)
    BY DEF Exchanged, Members
<1> HIDE DEF A, B, q
<1>3. /\ Players(queue, Swap(A, j, l)) = Players(queue, A) /\ Weight(queue, Swap(A, j, l)) = Weight(queue, A)
      /\ PartyTeam(queue, Swap(A, j, l)) = PartyTeam(queue, A)
    BY <1>1, SwapTeam
<1>4. /\ Players(queue, Swap(B, j, l)) = Players(queue, B) /\ Weight(queue, Swap(B, j, l)) = Weight(queue, B)
      /\ PartyTeam(queue, Swap(B, j, l)) = PartyTeam(queue, B)
    BY <1>1, SwapTeam
<1>5. Waited(queue, Swap(A \cup B, j, l)) = Waited(queue, A \cup B) + queue[l].wait - queue[j].wait
    <2>1. A \cup B \in SUBSET DOMAIN queue /\ l \notin A \cup B
        BY <1>1
    <2> QED BY <1>1, <2>1, SwapTeam
<1>6. Swap(A, j, l) \cup Swap(B, j, l) = Swap(A \cup B, j, l)
    BY DEF Swap
<1>7. Waited(queue, Members(q)) > Waited(queue, Members(p))
    <2>1. Waited(queue, A \cup B) \in Nat
        BY Sums
    <2>2. queue[l].wait \in Nat /\ queue[j].wait \in Nat /\ queue[l].wait > queue[j].wait
        BY <1>1, TicketFacts DEF Older
    <2>3. Waited(queue, Members(q)) = Waited(queue, Members(p)) + queue[l].wait - queue[j].wait
        BY <1>1, <1>2, <1>5, <1>6
    <2>4. Waited(queue, Members(p)) \in Nat
        BY <1>1, <2>1
    <2> QED BY <2>2, <2>3, <2>4
<1>8. Gap(queue, q) = Gap(queue, p) /\ Mixed(queue, q) = Mixed(queue, p)
    BY <1>2, <1>3, <1>4 DEF Gap, Mixed, A, B
<1>9. Better(queue, q, p)
    BY <1>7, <1>8 DEF Better
<1>10. q[1] \cap q[2] = {}
    BY <1>1, <1>2 DEF Swap
<1>11. \A x \in Members(q) : x = l \/ (x \in Members(p) /\ x # j)
    BY <1>1, <1>2 DEF Swap
<1>12. Players(queue, q[1]) = Players(queue, p[1]) /\ Players(queue, q[2]) = Players(queue, p[2])
    BY <1>2, <1>3, <1>4 DEF A, B
<1> QED BY <1>8, <1>9, <1>10, <1>11, <1>12 DEF AsGood, q

\* A ticket that has waited longer is a candidate when an equal one is
LEMMA OlderIsCandidate ==
    ASSUME NEW Regions, NEW queue \in Seq(Waiting(Regions)), Orderly(queue), NEW n \in Nat \ {0},
           NEW i \in DOMAIN queue, NEW F \in SUBSET DOMAIN queue,
           NEW j \in Candidates(queue, i, F, n), NEW l \in F \ {i}, Older(queue, l, j)
    PROVE  l \in Candidates(queue, i, F, n)
<1> DEFINE near == {x \in NearEnough(queue, i, F \ {i}, n) : TrustCompatible(queue[i], queue[x])}
           Earlier(x) == {k \in near : Before(queue, i, k, x)}
<1>1. Candidates(queue, i, F, n) = {x \in near : Cardinality(Earlier(x)) < MaxCandidates}
    BY DEF Candidates
<1>2. /\ j \in F /\ j # i /\ queue[j].region = queue[i].region
      /\ Within(Distance(queue, i, j), Spread(Window(queue, i, n))) /\ TrustCompatible(queue[i], queue[j])
    BY CandidateFacts
<1>3. /\ queue[l].rating = queue[j].rating
      /\ queue[l].region = queue[j].region /\ queue[l].trust = queue[j].trust
      /\ queue[l].minTrust = queue[j].minTrust /\ l < j
    BY <1>2, OlderFacts
<1>4. Distance(queue, i, l) = Distance(queue, i, j)
    BY <1>3 DEF Distance
<1>5. l \in near
    <2>1. TrustCompatible(queue[i], queue[l])
        BY <1>2, <1>3 DEF TrustCompatible
    <2>2. l \in NearEnough(queue, i, F \ {i}, n)
        BY <1>2, <1>3, <1>4 DEF NearEnough
    <2> QED BY <2>1, <2>2
<1>6. Earlier(l) \subseteq Earlier(j)
    <2>1. near \subseteq DOMAIN queue /\ DOMAIN queue \subseteq Nat
        BY TicketFacts DEF NearEnough
    <2> HIDE DEF near
    <2>2. ASSUME NEW k \in near, Before(queue, i, k, l) PROVE Before(queue, i, k, j)
        <3>1. k \in Nat /\ l \in Nat /\ j \in Nat
            BY <1>2, <2>1
        <3> QED BY <1>3, <1>4, <2>2, <3>1 DEF Before
    <2> QED BY <2>2
<1>7. IsFiniteSet(Earlier(j)) /\ Cardinality(Earlier(j)) < MaxCandidates
    <2>1. Earlier(j) \subseteq DOMAIN queue /\ DOMAIN queue = 1..Len(queue) /\ Len(queue) \in Nat
        BY TicketFacts DEF NearEnough
    <2>2. IsFiniteSet(1..Len(queue))
        BY <2>1, FS_Interval
    <2> HIDE DEF Earlier, near
    <2> QED BY <1>1, <2>1, <2>2, FS_Subset
<1> HIDE DEF Earlier, near
<1>8. Cardinality(Earlier(l)) <= Cardinality(Earlier(j)) /\ IsFiniteSet(Earlier(l))
    BY <1>6, <1>7, FS_Subset
<1>9. Cardinality(Earlier(l)) \in Nat /\ Cardinality(Earlier(j)) \in Nat /\ MaxCandidates \in Nat
    BY <1>7, <1>8, FS_CardinalityType, MatchmakerAssumption
<1> QED BY <1>1, <1>5, <1>7, <1>8, <1>9

\* No ticket is passed over for one that differs only in having waited less, but is not the anchor
LEMMA OlderIsTaken ==
    ASSUME NEW Regions, NEW queue \in Seq(Waiting(Regions)), Orderly(queue), NEW n \in Nat \ {0},
           NEW i \in DOMAIN queue, NEW F \in SUBSET DOMAIN queue,
           NEW p \in Pairings(queue, i, Candidates(queue, i, F, n), n),
           \A q \in Pairings(queue, i, Candidates(queue, i, F, n), n) : ~Better(queue, q, p),
           NEW j \in Members(p) \ {i}, NEW l \in F \ Members(p), Older(queue, l, j)
    PROVE  FALSE
<1> DEFINE c == Candidates(queue, i, F, n)
<1>1. PICK mates \in SUBSET c, other \in SUBSET c :
              /\ Players(queue, mates) = n - queue[i].size /\ Players(queue, other) = n
              /\ p = <<mates \cup {i}, other>> /\ p[1] = mates \cup {i} /\ p[2] = other
              /\ p[1] \cap p[2] = {} /\ Allowed(queue, i, p, n)
    BY PairingFacts
<1>2. \A x \in c : x \in F /\ x # i
    BY CandidateFacts
<1> DEFINE q == Exchanged(p, j, l)
<1>3. /\ j \in c /\ l \in F \ {i} /\ l \notin mates /\ j \in DOMAIN queue /\ l \in DOMAIN queue
      /\ mates \in SUBSET DOMAIN queue /\ Exchangeable(queue, p, j, l)
    <2>1. Members(p) = mates \cup {i} \cup other
        BY <1>1 DEF Members
    <2> HIDE DEF c
    <2>2. j \in c /\ l \in F \ {i} /\ l \notin mates
        BY <2>1
    <2>3. mates \in SUBSET DOMAIN queue /\ other \in SUBSET DOMAIN queue /\ l \in DOMAIN queue /\ j \in DOMAIN queue
        BY <1>2, <2>2
    <2>4. p[1] \in SUBSET DOMAIN queue /\ p[2] \in SUBSET DOMAIN queue /\ p[1] \cap p[2] = {}
        BY <1>1, <2>3
    <2> QED BY <2>2, <2>3, <2>4 DEF Exchangeable
<1>4. l \in c
    BY <1>3, OlderIsCandidate
<1>5. /\ q[1] \cap q[2] = {} /\ Players(queue, q[2]) = n
      /\ Gap(queue, q) = Gap(queue, p) /\ Mixed(queue, q) = Mixed(queue, p) /\ Better(queue, q, p)
      /\ \A x \in Members(q) : x = l \/ (x \in Members(p) /\ x # j)
    <2>1. AsGood(queue, p, q, j, l)
        BY <1>3, ExchangeIsAsGood
    <2> HIDE DEF q
    <2> QED BY <1>1, <2>1 DEF AsGood
<1>6. /\ queue[l].trust = queue[j].trust /\ queue[l].minTrust = queue[j].minTrust /\ queue[l].wait > queue[j].wait
    BY <1>3, OlderFacts
<1>7. Allowed(queue, i, q, n)
    <2>1. ASSUME NEW x \in Members(q), NEW y \in Members(q) PROVE TrustCompatible(queue[x], queue[y])
        <3>1. \E u \in Members(p) : queue[u].trust = queue[x].trust /\ queue[u].minTrust = queue[x].minTrust
            BY <1>3, <1>5, <1>6
        <3>2. \E v \in Members(p) : queue[v].trust = queue[y].trust /\ queue[v].minTrust = queue[y].minTrust
            BY <1>3, <1>5, <1>6
        <3>3. \A u, v \in Members(p) : TrustCompatible(queue[u], queue[v])
            BY <1>1 DEF Allowed
        <3> QED BY <3>1, <3>2, <3>3 DEF TrustCompatible
    <2>2. Window(queue, i, n) = AnyGap \/ Gap(queue, q) <= Window(queue, i, n) * n
        BY <1>1, <1>5 DEF Allowed
    <2>3. ASSUME Mixed(queue, q), NEW x \in Members(q) PROVE MayMix(queue, i, x, n)
        <3>1. \A u \in Members(p) : MayMix(queue, i, u, n)
            BY <1>1, <1>5, <2>3 DEF Allowed
        <3>2. CASE x = l
            <4>1. MayMix(queue, i, j, n) /\ queue[l].wait \in Nat /\ queue[j].wait \in Nat /\ MixAfter \in Nat
                BY <1>3, <3>1, TicketFacts, MatchmakerAssumption
            <4> QED BY <1>6, <3>2, <4>1 DEF MayMix, CanMix
        <3>3. CASE x \in Members(p)
            BY <3>1, <3>3
        <3> QED BY <1>5, <3>2, <3>3
    <2> HIDE DEF q
    <2> QED BY <2>1, <2>2, <2>3 DEF Allowed
<1>8. q \in Pairings(queue, i, c, n)
    <2>1. Swap(mates, j, l) \in SUBSET c /\ Swap(other, j, l) \in SUBSET c
        <3> HIDE DEF c
        <3> QED BY <1>4 DEF Swap
    <2>2. Swap(mates \cup {i}, j, l) = Swap(mates, j, l) \cup {i}
        BY <1>1 DEF Swap
    <2>3. Players(queue, Swap(mates, j, l)) = Players(queue, mates)
        BY <1>3, SwapTeam
    <2>5. q = <<Swap(mates, j, l) \cup {i}, Swap(other, j, l)>> /\ q[2] = Swap(other, j, l)
        BY <1>1, <2>2 DEF Exchanged
    <2>4. Players(queue, Swap(other, j, l)) = n
        BY <1>5, <2>5
    <2>6. Players(queue, Swap(mates, j, l)) = n - queue[i].size
        BY <1>1, <2>3
    <2> HIDE DEF c, q
    <2> QED BY <1>5, <1>7, <2>1, <2>4, <2>5, <2>6, PairingsHas
<1> QED BY <1>5, <1>8

\* Nor for one that is, as far as the rules go: it could be the anchor of that match itself
LEMMA OlderMayAnchor ==
    ASSUME NEW Regions, NEW queue \in Seq(Waiting(Regions)), NEW n \in Nat \ {0},
           NEW i \in DOMAIN queue, NEW A \in SUBSET DOMAIN queue, NEW B \in SUBSET DOMAIN queue,
           IsMatch(queue, n, i, <<A, B>>),
           NEW l \in DOMAIN queue \ (A \cup B), Older(queue, l, i)
    PROVE  IsMatch(queue, n, l, Exchanged(<<A, B>>, i, l))
<1> DEFINE p == <<A, B>>
           q == Exchanged(p, i, l)
           w == MaxRatingDiffAfter(queue[i].wait)
           v == MaxRatingDiffAfter(queue[l].wait)
<1>1. /\ A \cap B = {} /\ i \in A /\ Players(queue, A) = n /\ Players(queue, B) = n
      /\ \A j \in Members(p) : queue[j].region = queue[i].region
      /\ \A j, k \in Members(p) : queue[j].trust >= queue[k].minTrust
      /\ \/ Sole(queue, i, n)
         \/ /\ w = AnyGap \/ (Gap(queue, p) <= w * n /\ \A j \in Members(p) : Distance(queue, i, j) <= CandidateSpread * w)
            /\ Mixed(queue, p) => \A j \in Members(p) : queue[j].wait >= MixAfter
    BY DEF IsMatch
<1>2. /\ Members(p) = A \cup B /\ q[1] \cap q[2] = {}
      /\ Players(queue, q[1]) = n /\ Players(queue, q[2]) = n
      /\ Gap(queue, q) = Gap(queue, p) /\ Mixed(queue, q) = Mixed(queue, p)
      /\ \A x \in Members(q) : x = l \/ (x \in Members(p) /\ x # i)
    <2>1. Members(p) = A \cup B
        BY DEF Members
    <2>2. Exchangeable(queue, p, i, l)
        BY <1>1, <2>1 DEF Exchangeable
    <2>3. AsGood(queue, p, q, i, l)
        <3> HIDE DEF p
        <3> QED BY <2>2, ExchangeIsAsGood
    <2>4. p[1] = A /\ p[2] = B
        OBVIOUS
    <2> HIDE DEF p, q
    <2> QED BY <1>1, <2>1, <2>3, <2>4 DEF AsGood
<1>3. /\ queue[l].rating = queue[i].rating /\ queue[l].region = queue[i].region /\ queue[l].trust = queue[i].trust
      /\ queue[l].minTrust = queue[i].minTrust /\ queue[l].wait > queue[i].wait
    BY OlderFacts
<1>4. l \in q[1] /\ i \in Members(p) /\ Members(p) \subseteq DOMAIN queue
    BY <1>1, <1>2 DEF Swap, Exchanged
<1>5. queue[l].wait \in Nat /\ queue[i].wait \in Nat /\ MixAfter \in Nat
    BY TicketFacts, MatchmakerAssumption
<1> HIDE DEF p, q
<1>6. \A x \in Members(q) : queue[x].region = queue[l].region
    BY <1>1, <1>2, <1>3
<1>7. ASSUME NEW x \in Members(q), NEW y \in Members(q) PROVE queue[x].trust >= queue[y].minTrust
    <2>1. \E u \in Members(p) : queue[u].trust = queue[x].trust
        BY <1>2, <1>3, <1>4
    <2>2. \E u \in Members(p) : queue[u].minTrust = queue[y].minTrust
        BY <1>2, <1>3, <1>4
    <2> QED BY <1>1, <2>1, <2>2
<1>8. ASSUME Sole(queue, i, n) PROVE IsMatch(queue, n, l, q)
    <2>1. Sole(queue, l, n)
        BY <1>3, <1>5, <1>8 DEF Sole, SoleMatchAfter
    <2> QED BY <1>2, <1>4, <1>6, <1>7, <2>1 DEF IsMatch
<1>9. ASSUME ~Sole(queue, i, n) PROVE IsMatch(queue, n, l, q)
    <2>1. /\ w \in Nat \cup {AnyGap}
          /\ v = AnyGap \/ (w # AnyGap /\ v \in Nat /\ w <= v)
        BY <1>3, <1>5, Widens
    <2> HIDE DEF v, w
    <2>2. v = AnyGap \/ (Gap(queue, q) <= v * n /\ \A j \in Members(q) : Distance(queue, l, j) <= CandidateSpread * v)
        <3> SUFFICES ASSUME v # AnyGap
                     PROVE  Gap(queue, q) <= v * n /\ \A j \in Members(q) : Distance(queue, l, j) <= CandidateSpread * v
            OBVIOUS
        <3>1. w \in Nat /\ v \in Nat /\ w <= v /\ w # AnyGap
            BY <2>1
        <3>2. w * n <= v * n /\ w * n \in Nat /\ v * n \in Nat
            <4>1. \A x, y, z \in Nat : x <= y => x * z <= y * z /\ x * z \in Nat /\ y * z \in Nat
                OBVIOUS
            <4>2. n \in Nat
                OBVIOUS
            <4> QED BY <3>1, <4>1, <4>2
        <3>3. Gap(queue, q) <= v * n
            <4>1. Gap(queue, p) <= w * n
                BY <1>1, <1>9, <3>1
            <4>2. Gap(queue, p) \in Nat
                BY GapNat
            <4> QED BY <1>2, <3>2, <4>1, <4>2
        <3>4. ASSUME NEW j \in Members(q) PROVE Distance(queue, l, j) <= CandidateSpread * v
            <4>1. CASE j = l
                <5>1. Distance(queue, l, j) = 0
                    BY <4>1, DistanceIs
                <5> QED BY <3>1, <5>1 DEF CandidateSpread
            <4>2. CASE j \in Members(p)
                <5>1. Distance(queue, l, j) = Distance(queue, i, j)
                    BY <1>3 DEF Distance
                <5>2. Distance(queue, i, j) <= CandidateSpread * w
                    BY <1>1, <1>9, <3>1, <4>2
                <5>3. Distance(queue, i, j) \in Nat
                    BY <1>4, <4>2, DistanceIs
                <5> QED BY <3>1, <5>1, <5>2, <5>3 DEF CandidateSpread
            <4> QED BY <1>2, <4>1, <4>2
        <3> QED BY <3>3, <3>4
    <2>3. ASSUME Mixed(queue, q), NEW j \in Members(q) PROVE queue[j].wait >= MixAfter
        <3>1. \A x \in Members(p) : queue[x].wait >= MixAfter
            BY <1>1, <1>2, <1>9, <2>3
        <3> QED BY <1>2, <1>3, <1>4, <1>5, <3>1
    <2> QED BY <1>2, <1>4, <1>6, <1>7, <2>2, <2>3 DEF IsMatch, v
<1> QED BY <1>8, <1>9 DEF p, q

\* The proposals after the turn of each ticket
Passes(queue, n, after) ==
    after = [i \in 0..Len(queue) |-> IF i = 0 THEN <<>> ELSE Propose(queue, n, after[i - 1], i)]

Proposals(queue) == Seq((SUBSET DOMAIN queue) \X (SUBSET DOMAIN queue))

\* The best of the pairings of an anchor, and that there is one
Taken(queue, n, i, F, p) ==
    LET P == Pairings(queue, i, Candidates(queue, i, F, n), n)
    IN  /\ i \in F /\ p \in P /\ \A q \in P : ~Better(queue, q, p)
        /\ p \in (SUBSET DOMAIN queue) \X (SUBSET DOMAIN queue) /\ Members(p) \subseteq F /\ i \in p[1]

\* The turn of a ticket proposes the best of its pairings, or there is none
LEMMA TurnOf ==
    ASSUME NEW Regions, NEW queue \in Seq(Waiting(Regions)), NEW n \in Nat \ {0}, NEW i \in DOMAIN queue, NEW s
    PROVE  LET F == Free(queue, n, s)
           IN  \/ /\ Propose(queue, n, s, i) = s
                  /\ i \notin F \/ Pairings(queue, i, Candidates(queue, i, F, n), n) = {}
               \/ \E p : Taken(queue, n, i, F, p) /\ Propose(queue, n, s, i) = Append(s, p)
<1> DEFINE F == Free(queue, n, s)
           c == Candidates(queue, i, F, n)
           p == BestProposal(queue, i, c, n)
<1>1. Propose(queue, n, s, i) = IF i \notin F \/ Pairings(queue, i, c, n) = {} THEN s ELSE Append(s, p)
    BY DEF Propose
<1>2. F \in SUBSET DOMAIN queue
    BY DEF Free
<1>3. ASSUME i \in F, Pairings(queue, i, c, n) # {} PROVE Taken(queue, n, i, F, p)
    <2>1. c \in SUBSET DOMAIN queue
        <3>1. \A x \in c : x \in F
            BY CandidateFacts
        <3> HIDE DEF c, F
        <3> QED BY <1>2, <3>1
    <2> HIDE DEF F
    <2>2. p \in Pairings(queue, i, c, n) /\ \A q \in Pairings(queue, i, c, n) : ~Better(queue, q, p)
        <3> HIDE DEF c
        <3> QED BY <1>3, <2>1, BestIs
    <2> HIDE DEF p
    <2>3. IsMatch(queue, n, i, p) /\ Members(p) \subseteq F \cup {i} /\ p = <<p[1], p[2]>>
        BY <1>2, <2>2, PairingIsMatch
    <2>4. Members(p) \subseteq F /\ i \in p[1]
        BY <1>3, <2>3 DEF IsMatch
    <2>5. p \in (SUBSET DOMAIN queue) \X (SUBSET DOMAIN queue)
        <3>1. p[1] \in SUBSET DOMAIN queue /\ p[2] \in SUBSET DOMAIN queue
            BY <1>2, <2>4 DEF Members
        <3>2. <<p[1], p[2]>> \in (SUBSET DOMAIN queue) \X (SUBSET DOMAIN queue)
            BY <3>1
        <3> QED BY <2>3, <3>2
    <2> QED BY <1>3, <2>2, <2>4, <2>5 DEF Taken
<1> HIDE DEF F, c, p
<1>4. \/ /\ Propose(queue, n, s, i) = s
         /\ i \notin F \/ Pairings(queue, i, c, n) = {}
      \/ \E r : Taken(queue, n, i, F, r) /\ Propose(queue, n, s, i) = Append(s, r)
    BY <1>1, <1>3
<1> QED BY <1>4 DEF F, c

\* A pass is the loop of these turns
LEMMA PassRuns ==
    ASSUME NEW Regions, NEW queue \in Seq(Waiting(Regions)), NEW n \in Nat \ {0}
    PROVE  \E after \in [0..Len(queue) -> Proposals(queue)] :
              Passes(queue, n, after) /\ FindMatches(queue, n) = after[Len(queue)]
<1> DEFINE m == Len(queue)
           B == Proposals(queue)
           step == [i \in 1..m |-> [s \in B |-> Propose(queue, n, s, i)]]
<1>1. m \in Nat /\ DOMAIN queue = 1..m
    BY TicketFacts
<1>2. ASSUME NEW i \in 1..m, NEW s \in B PROVE Propose(queue, n, s, i) \in B
    <2>1. i \in DOMAIN queue
        BY <1>1, <1>2
    <2>2. \/ Propose(queue, n, s, i) = s
          \/ \E p : Taken(queue, n, i, Free(queue, n, s), p) /\ Propose(queue, n, s, i) = Append(s, p)
        BY <2>1, TurnOf
    <2>3. ASSUME NEW p, Taken(queue, n, i, Free(queue, n, s), p) PROVE Append(s, p) \in B
        <3>1. p \in (SUBSET DOMAIN queue) \X (SUBSET DOMAIN queue)
            BY <2>3 DEF Taken
        <3> QED BY <3>1, AppendProperties DEF Proposals
    <2> HIDE DEF B
    <2> QED BY <1>2, <2>2, <2>3
<1>3. step \in [1..m -> [B -> B]] /\ <<>> \in B
    <2>1. <<>> \in B
        BY EmptySeq DEF Proposals
    <2> HIDE DEF B, m
    <2> QED BY <1>2, <2>1
<1>4. PICK f \in [0..m -> B] : LoopOf(f, m, <<>>, step)
    <2> HIDE DEF step, B, m
    <2> QED BY <1>1, <1>3, LoopSteps
<1>5. Passes(queue, n, f)
    <2>1. ASSUME NEW i \in 0..m, i # 0
          PROVE  step[i][f[i - 1]] = Propose(queue, n, f[i - 1], i)
        <3>1. i \in 1..m /\ i - 1 \in 0..m
            BY <1>1, <2>1
        <3>2. f[i - 1] \in B
            BY <1>4, <3>1
        <3> HIDE DEF B, m
        <3> QED BY <3>1, <3>2
    <2>2. f = [i \in 0..m |-> IF i = 0 THEN <<>> ELSE Propose(queue, n, f[i - 1], i)]
        <3> HIDE DEF B, m, step
        <3> QED BY <1>4, <2>1 DEF LoopOf
    <2> QED BY <2>2 DEF Passes
<1> DEFINE g == CHOOSE after : Passes(queue, n, after)
<1>6. Passes(queue, n, g)
    BY <1>5
<1>7. FindMatches(queue, n) = g[m]
    BY Zenon DEF FindMatches, Passes
<1>8. g \in [0..m -> B]
    <2> HIDE DEF g
    <2>1. /\ g = [i \in DOMAIN g |-> g[i]] /\ DOMAIN g = 0..m
          /\ g[0] = <<>> /\ \A i \in 1..m : g[i] = Propose(queue, n, g[i - 1], i)
        <3>1. 0 \in 0..m /\ \A i \in 1..m : i \in 0..m /\ i # 0
            BY <1>1
        <3>2. g = [i \in 0..m |-> IF i = 0 THEN <<>> ELSE Propose(queue, n, g[i - 1], i)]
            BY <1>6 DEF Passes
        <3> HIDE DEF m
        <3> QED BY <3>1, <3>2
    <2> DEFINE T == {i \in 0..m : g[i] \in B}
    <2>2. 0 \in T
        BY <1>1, <1>3, <2>1
    <2>3. ASSUME NEW i \in 0..m, i < m, i \in T PROVE i + 1 \in T
        <3>1. i + 1 \in 1..m /\ i + 1 \in 0..m /\ (i + 1) - 1 = i
            BY <1>1, <2>3
        <3>2. g[i + 1] = Propose(queue, n, g[i], i + 1)
            <4> HIDE DEF m, B
            <4> QED BY <2>1, <3>1
        <3> HIDE DEF B, m
        <3> QED BY <1>2, <2>3, <3>1, <3>2
    <2>4. \A i \in 0..m : g[i] \in B
        <3>1. \A i \in 0..m : i \in T
            <4> HIDE DEF T, m
            <4> QED BY <1>1, <2>2, <2>3, UpTo
        <3> QED BY <3>1
    <2> HIDE DEF B, m
    <2> QED BY <2>1, <2>4
<1> HIDE DEF g
<1> QED BY <1>6, <1>7, <1>8

\* A pass in which every ticket has had its turn
Pass(queue, n, after) == after \in [0..Len(queue) -> Proposals(queue)] /\ Passes(queue, n, after)

\* What the turn of a ticket does to the proposals
Turn(queue, n, after, i) ==
    LET F == Free(queue, n, after[i - 1])
    IN  \/ /\ after[i] = after[i - 1]
           /\ i \notin F \/ Pairings(queue, i, Candidates(queue, i, F, n), n) = {}
        \/ \E p : Taken(queue, n, i, F, p) /\ after[i] = Append(after[i - 1], p)

\* Every turn of a pass is one of these
LEMMA TurnsOfPass ==
    ASSUME NEW Regions, NEW queue \in Seq(Waiting(Regions)), NEW n \in Nat \ {0}, NEW after, Pass(queue, n, after)
    PROVE  /\ Len(queue) \in Nat /\ DOMAIN queue = 1..Len(queue) /\ after[0] = <<>>
           /\ \A i \in 0..Len(queue) : after[i] \in Proposals(queue)
           /\ \A i \in 1..Len(queue) : Turn(queue, n, after, i)
<1> DEFINE m == Len(queue)
<1>1. m \in Nat /\ DOMAIN queue = 1..m
    BY TicketFacts
<1>2. 0 \in 0..m /\ \A i \in 1..m : i \in 0..m /\ i # 0
    BY <1>1
<1>3. after = [i \in 0..m |-> IF i = 0 THEN <<>> ELSE Propose(queue, n, after[i - 1], i)]
    BY DEF Pass, Passes
<1>4. after[0] = <<>> /\ \A i \in 1..m : after[i] = Propose(queue, n, after[i - 1], i)
    <2> HIDE DEF m
    <2> QED BY <1>2, <1>3
<1>5. \A i \in 0..m : after[i] \in Proposals(queue)
    BY DEF Pass
<1>6. ASSUME NEW i \in 1..m PROVE Turn(queue, n, after, i)
    <2>1. i \in DOMAIN queue /\ after[i] = Propose(queue, n, after[i - 1], i)
        BY <1>1, <1>4
    <2> DEFINE s == after[i - 1]
    <2>2. after[i] = Propose(queue, n, s, i)
        BY <2>1
    <2> HIDE DEF s
    <2>3. LET F == Free(queue, n, s)
          IN  \/ /\ Propose(queue, n, s, i) = s
                 /\ i \notin F \/ Pairings(queue, i, Candidates(queue, i, F, n), n) = {}
              \/ \E p : Taken(queue, n, i, F, p) /\ Propose(queue, n, s, i) = Append(s, p)
        BY <2>1, TurnOf
    <2> QED BY <2>2, <2>3 DEF Turn, s
<1> QED BY <1>1, <1>4, <1>5, <1>6

\* One more proposal
LEMMA OneMore ==
    ASSUME NEW queue, NEW s \in Proposals(queue), NEW p
    PROVE  /\ Used(Append(s, p)) = Used(s) \cup Members(p)
           /\ DOMAIN s = 1..Len(s) /\ Len(s) \in Nat
           /\ DOMAIN Append(s, p) = 1..(Len(s) + 1)
           /\ Append(s, p)[Len(s) + 1] = p
           /\ \A k \in DOMAIN s : Append(s, p)[k] = s[k]
<1> DEFINE B == (SUBSET DOMAIN queue) \X (SUBSET DOMAIN queue)
           t == Append(s, p)
<1>1. s \in Seq(B)
    BY DEF Proposals
<1> HIDE DEF B
<1>2. Len(s) \in Nat /\ DOMAIN s = 1..Len(s)
    BY <1>1, LenProperties
<1>3. /\ DOMAIN t = 1..(Len(s) + 1) /\ t[Len(s) + 1] = p
      /\ \A k \in 1..Len(s) : t[k] = s[k]
    BY <1>1, <1>2
<1> HIDE DEF t
<1>4. \A k \in DOMAIN t : k \in DOMAIN s \/ k = Len(s) + 1
    BY <1>2, <1>3
<1>5. \A k \in DOMAIN s : k \in DOMAIN t /\ t[k] = s[k]
    BY <1>2, <1>3
<1>6. Len(s) + 1 \in DOMAIN t
    BY <1>2, <1>3
<1>7. Used(t) = Used(s) \cup Members(p)
    <2>1. Used(t) = UNION {Members(t[k]) : k \in DOMAIN t} /\ Used(s) = UNION {Members(s[k]) : k \in DOMAIN s}
        BY DEF Used
    <2>2. ASSUME NEW x \in Used(t) PROVE x \in Used(s) \cup Members(p)
        <3>1. PICK k \in DOMAIN t : x \in Members(t[k])
            BY <2>1, <2>2
        <3>2. CASE k \in DOMAIN s
            BY <1>5, <2>1, <3>1, <3>2
        <3>3. CASE k = Len(s) + 1
            BY <1>3, <3>1, <3>3
        <3> QED BY <1>4, <3>2, <3>3
    <2>3. ASSUME NEW x \in Used(s) \cup Members(p) PROVE x \in Used(t)
        <3>1. CASE x \in Used(s)
            <4>1. PICK k \in DOMAIN s : x \in Members(s[k])
                BY <2>1, <3>1
            <4> QED BY <1>5, <2>1, <4>1
        <3>2. CASE x \in Members(p)
            BY <1>3, <1>6, <2>1, <3>2
        <3> QED BY <2>3, <3>1, <3>2
    <2> QED BY <2>2, <2>3
<1> QED BY <1>2, <1>3, <1>7 DEF t

\* Who has been proposed stays so
LEMMA UsedGrows ==
    ASSUME NEW Regions, NEW queue \in Seq(Waiting(Regions)), NEW n \in Nat \ {0}, NEW after, Pass(queue, n, after),
           NEW x \in 0..Len(queue), NEW y \in 0..Len(queue), x <= y
    PROVE  Used(after[x]) \subseteq Used(after[y]) /\ Free(queue, n, after[y]) \subseteq Free(queue, n, after[x])
<1> DEFINE m == Len(queue)
           T == {i \in 0..m : x <= i => Used(after[x]) \subseteq Used(after[i])}
<1>1. m \in Nat /\ \A i \in 1..m : Turn(queue, n, after, i)
    BY TurnsOfPass
<1>2. \A i \in 0..m : after[i] \in Proposals(queue)
    BY TurnsOfPass
<1>3. x \in 0..m /\ y \in 0..m
    OBVIOUS
<1> HIDE DEF m
<1>4. 0 \in T
    BY <1>1, <1>3
<1>5. ASSUME NEW i \in 0..m, i < m, i \in T PROVE i + 1 \in T
    <2>1. i + 1 \in 1..m /\ i + 1 \in 0..m /\ (i + 1) - 1 = i /\ after[i] \in Proposals(queue)
        BY <1>1, <1>2, <1>5
    <2>2. Turn(queue, n, after, i + 1)
        BY <1>1, <2>1
    <2>3. after[i + 1] = after[i] \/ \E p : after[i + 1] = Append(after[i], p)
        BY <2>1, <2>2 DEF Turn
    <2>4. ASSUME NEW p, after[i + 1] = Append(after[i], p) PROVE Used(after[i]) \subseteq Used(after[i + 1])
        BY <2>1, <2>4, OneMore
    <2>5. Used(after[i]) \subseteq Used(after[i + 1])
        BY <2>3, <2>4
    <2>6. x <= i + 1 => x <= i \/ x = i + 1
        BY <1>3, <1>5
    <2> QED BY <1>5, <2>1, <2>5, <2>6
<1>6. \A i \in 0..m : i \in T
    <2> HIDE DEF T
    <2> QED BY <1>1, <1>4, <1>5, UpTo
<1>7. Used(after[x]) \subseteq Used(after[y])
    BY <1>3, <1>6
<1> QED BY <1>7 DEF Free

\* The proposals of a pass: nobody is in two of them, and each was the best of the pairings at its anchor's turn
Apart(s) == \A k, l \in DOMAIN s : k # l => Members(s[k]) \cap Members(s[l]) = {}
AllTaken(queue, n, after, s) ==
    \A k \in DOMAIN s : \E i \in 1..Len(queue) : Taken(queue, n, i, Free(queue, n, after[i - 1]), s[k])

\* At the end of a pass both hold
LEMMA PassTakes ==
    ASSUME NEW Regions, NEW queue \in Seq(Waiting(Regions)), NEW n \in Nat \ {0}, NEW after, Pass(queue, n, after)
    PROVE  Apart(after[Len(queue)]) /\ AllTaken(queue, n, after, after[Len(queue)])
<1> DEFINE m == Len(queue)
           T == {i \in 0..m : Apart(after[i]) /\ AllTaken(queue, n, after, after[i])}
<1>1. m \in Nat /\ after[0] = <<>> /\ m \in 0..m /\ \A i \in 1..m : Turn(queue, n, after, i)
    BY TurnsOfPass
<1>2. \A i \in 0..m : after[i] \in Proposals(queue)
    BY TurnsOfPass
<1>3. 0 \in T
    <2>1. DOMAIN after[0] = {}
        BY <1>1
    <2> QED BY <1>1, <2>1 DEF Apart, AllTaken
<1>4. ASSUME NEW i \in 0..m, i < m, i \in T PROVE i + 1 \in T
    <2>1. i + 1 \in 1..m /\ i + 1 \in 0..m /\ (i + 1) - 1 = i /\ after[i] \in Proposals(queue)
        BY <1>1, <1>2, <1>4
    <2>2. Turn(queue, n, after, i + 1)
        BY <1>1, <2>1
    <2>3. \/ after[i + 1] = after[i]
          \/ \E p : Taken(queue, n, i + 1, Free(queue, n, after[i]), p) /\ after[i + 1] = Append(after[i], p)
        BY <2>1, <2>2 DEF Turn
    <2>4. ASSUME NEW p, Taken(queue, n, i + 1, Free(queue, n, after[i]), p), after[i + 1] = Append(after[i], p)
          PROVE  Apart(after[i + 1]) /\ AllTaken(queue, n, after, after[i + 1])
        <3> DEFINE s == after[i]
                   t == after[i + 1]
        <3>1. /\ DOMAIN s = 1..Len(s) /\ Len(s) \in Nat
              /\ DOMAIN t = 1..(Len(s) + 1) /\ t[Len(s) + 1] = p /\ \A k \in DOMAIN s : t[k] = s[k]
            BY <2>1, <2>4, OneMore
        <3>2. Members(p) \cap Used(s) = {}
            <4>1. Members(p) \subseteq Free(queue, n, s)
                BY <2>4 DEF Taken
            <4> QED BY <4>1 DEF Free
        <3>3. \A k \in DOMAIN s : Members(s[k]) \subseteq Used(s)
            BY DEF Used
        <3>4. Apart(s) /\ AllTaken(queue, n, after, s)
            BY <1>4
        <3>5. Taken(queue, n, i + 1, Free(queue, n, after[(i + 1) - 1]), p)
            BY <2>1, <2>4
        <3> HIDE DEF s, t
        <3>6. \A k \in DOMAIN t : k \in DOMAIN s \/ k = Len(s) + 1
            BY <3>1
        <3>7. Apart(t)
            <4> SUFFICES ASSUME NEW k \in DOMAIN t, NEW l \in DOMAIN t, k # l
                         PROVE  Members(t[k]) \cap Members(t[l]) = {}
                BY DEF Apart
            <4>1. CASE k \in DOMAIN s /\ l \in DOMAIN s
                BY <3>1, <3>4, <4>1 DEF Apart
            <4>2. CASE k \in DOMAIN s /\ l = Len(s) + 1
                BY <3>1, <3>2, <3>3, <4>2
            <4>3. CASE k = Len(s) + 1 /\ l \in DOMAIN s
                BY <3>1, <3>2, <3>3, <4>3
            <4> QED BY <3>6, <4>1, <4>2, <4>3
        <3>8. AllTaken(queue, n, after, t)
            <4> SUFFICES ASSUME NEW k \in DOMAIN t
                         PROVE  \E x \in 1..m : Taken(queue, n, x, Free(queue, n, after[x - 1]), t[k])
                BY DEF AllTaken
            <4> HIDE DEF m
            <4>1. CASE k \in DOMAIN s
                <5>1. \E x \in 1..m : Taken(queue, n, x, Free(queue, n, after[x - 1]), s[k])
                    BY <3>4, <4>1 DEF AllTaken, m
                <5> QED BY <3>1, <4>1, <5>1
            <4>2. CASE k = Len(s) + 1
                BY <2>1, <3>1, <3>5, <4>2
            <4> QED BY <3>6, <4>1, <4>2
        <3> QED BY <3>7, <3>8 DEF t
    <2> QED BY <1>4, <2>1, <2>3, <2>4
<1>5. \A i \in 0..m : i \in T
    <2> HIDE DEF T, m
    <2> QED BY <1>1, <1>3, <1>4, UpTo
<1> QED BY <1>1, <1>5

\* Whoever is left was free all along, and at its own turn there was no pairing with the free
LEMMA LeftIsUnpaired ==
    ASSUME NEW Regions, NEW queue \in Seq(Waiting(Regions)), NEW n \in Nat \ {0}, NEW after, Pass(queue, n, after),
           NEW l \in DOMAIN queue \ Used(after[Len(queue)]), queue[l].size <= n
    PROVE  /\ l \in 1..Len(queue)
           /\ \A i \in 1..Len(queue) : l \in Free(queue, n, after[i - 1])
           /\ Pairings(queue, l, Candidates(queue, l, Free(queue, n, after[l - 1]), n), n) = {}
<1> DEFINE m == Len(queue)
<1>1. m \in Nat /\ m \in 0..m /\ l \in 1..m /\ \A i \in 1..m : Turn(queue, n, after, i)
    BY TurnsOfPass
<1>2. \A i \in 0..m : after[i] \in Proposals(queue)
    BY TurnsOfPass
<1>3. ASSUME NEW i \in 0..m PROVE Used(after[i]) \subseteq Used(after[m])
    <2>1. i <= m
        BY <1>1
    <2> QED BY <1>1, <2>1, UsedGrows
<1>4. ASSUME NEW i \in 1..m PROVE l \in Free(queue, n, after[i - 1])
    <2>1. i - 1 \in 0..m
        BY <1>1
    <2>2. l \notin Used(after[i - 1])
        BY <1>3, <2>1
    <2> QED BY <2>2 DEF Free
<1>5. ASSUME NEW p, Taken(queue, n, l, Free(queue, n, after[l - 1]), p), after[l] = Append(after[l - 1], p) PROVE FALSE
    <2>1. l - 1 \in 0..m /\ l \in 0..m
        BY <1>1
    <2>2. after[l - 1] \in Proposals(queue) /\ Used(after[l]) \subseteq Used(after[m])
        BY <1>2, <1>3, <2>1
    <2>3. Members(p) \subseteq Used(after[l])
        BY <1>5, <2>2, OneMore
    <2>4. l \in Members(p)
        BY <1>5 DEF Taken, Members
    <2> QED BY <2>2, <2>3, <2>4
<1>6. Pairings(queue, l, Candidates(queue, l, Free(queue, n, after[l - 1]), n), n) = {}
    <2>1. Turn(queue, n, after, l) /\ l \in Free(queue, n, after[l - 1])
        BY <1>1, <1>4
    <2> QED BY <1>5, <2>1 DEF Turn
<1> QED BY <1>1, <1>4, <1>6

\* No member of a team of so many players brings more
LEMMA MembersFit ==
    ASSUME NEW Regions, NEW queue \in Seq(Waiting(Regions)), NEW team \in SUBSET DOMAIN queue, NEW j \in team
    PROVE  queue[j].size <= Players(queue, team)
<1> DEFINE rest == team \ {j}
<1>1. /\ Players(queue, rest) \in Nat
      /\ Players(queue, rest \cup {j}) = Players(queue, rest) + queue[j].size
    <2>1. rest \in SUBSET DOMAIN queue /\ j \in DOMAIN queue \ rest
        OBVIOUS
    <2> HIDE DEF rest
    <2> QED BY <2>1, Sums
<1>2. rest \cup {j} = team
    OBVIOUS
<1>3. queue[j].size \in Nat
    BY TicketFacts
<1>4. Players(queue, team) = Players(queue, rest) + queue[j].size
    BY <1>1, <1>2
<1> HIDE DEF rest
<1> QED BY <1>1, <1>3, <1>4

\* matchmaker.ts 150-207: a pass over any queue in order keeps its promises
THEOREM PassKeepsPromise ==
    ASSUME NEW Regions, NEW queue \in Seq(Waiting(Regions)), NEW n \in Nat \ {0}, Orderly(queue)
    PROVE  PassComplete(queue, n)
<1>1. PICK after : Pass(queue, n, after) /\ FindMatches(queue, n) = after[Len(queue)]
    BY PassRuns DEF Pass
<1> DEFINE m == Len(queue)
           found == after[m]
           left == DOMAIN queue \ Used(found)
           F(i) == Free(queue, n, after[i - 1])
<1>2. m \in Nat /\ DOMAIN queue = 1..m
    BY TicketFacts
<1>3. \A i \in 1..m : F(i) \in SUBSET DOMAIN queue /\ \A k \in F(i) : queue[k].size <= n
    BY DEF Free
<1>4. Apart(found) /\ AllTaken(queue, n, after, found)
    BY <1>1, PassTakes
<1>5. ASSUME NEW l \in left, queue[l].size <= n
      PROVE  /\ l \in 1..m /\ \A i \in 1..m : l \in F(i)
             /\ Pairings(queue, l, Candidates(queue, l, F(l), n), n) = {}
    BY <1>1, <1>5, LeftIsUnpaired
<1>6. ASSUME NEW x \in 1..m, NEW y \in 1..m, x <= y PROVE F(y) \subseteq F(x)
    <2>1. x - 1 \in 0..m /\ y - 1 \in 0..m /\ x - 1 <= y - 1
        BY <1>2, <1>6
    <2> QED BY <1>1, <2>1, UsedGrows
<1>7. \A k \in DOMAIN found : Members(found[k]) \subseteq Used(found)
    BY DEF Used
<1> HIDE DEF found, F
<1>8. ASSUME NEW k \in DOMAIN found
      PROVE  \E i \in found[k][1] :
                /\ IsMatch(queue, n, i, found[k])
                /\ \A j \in Members(found[k]), l \in left : Older(queue, l, j) => i = j /\ Crowded(queue, n)
    <2> DEFINE p == found[k]
    <2>1. PICK i \in 1..m : Taken(queue, n, i, F(i), p)
        BY <1>4 DEF AllTaken, F
    <2>2. Members(p) \subseteq Used(found)
        BY <1>7
    <2> HIDE DEF p
    <2> DEFINE A == p[1]
               B == p[2]
               P == Pairings(queue, i, Candidates(queue, i, F(i), n), n)
    <2>3. i \in DOMAIN queue /\ F(i) \in SUBSET DOMAIN queue /\ \A x \in F(i) : queue[x].size <= n
        BY <1>2, <1>3
    <2>4. p \in P /\ (\A q \in P : ~Better(queue, q, p)) /\ Members(p) \subseteq F(i) /\ i \in A
        BY <2>1 DEF Taken
    <2>5. IsMatch(queue, n, i, p) /\ p = <<A, B>>
        <3>1. IsMatch(queue, n, i, p) /\ p = <<p[1], p[2]>>
            BY <2>3, <2>4, PairingIsMatch
        <3> QED BY <3>1
    <2>6. Members(p) = A \cup B
        BY DEF Members
    <2>7. ASSUME NEW j \in Members(p), NEW l \in left, Older(queue, l, j) PROVE i = j /\ Crowded(queue, n)
        <3>1. j \in F(i) /\ j \in DOMAIN queue /\ l \in DOMAIN queue /\ l \notin Members(p)
            BY <2>2, <2>3, <2>4
        <3>2. queue[l].size = queue[j].size /\ l < j
            BY <2>7, <3>1, OlderFacts
        <3>3. queue[l].size <= n
            BY <2>3, <3>1, <3>2
        <3>4. /\ l \in 1..m /\ l \in F(i) /\ l \in F(l)
              /\ Pairings(queue, l, Candidates(queue, l, F(l), n), n) = {}
            BY <1>5, <3>3
        <3>5. i = j
            <4>1. SUFFICES ASSUME i # j PROVE FALSE
                OBVIOUS
            <4>2. j \in Members(p) \ {i} /\ l \in F(i) \ Members(p)
                BY <3>1, <3>4, <4>1
            <4> HIDE DEF left, m, A, B
            <4> QED BY <2>3, <2>4, <2>7, <4>2, OlderIsTaken
        <3>6. Crowded(queue, n)
            <4>1. SUFFICES ASSUME ~Crowded(queue, n) PROVE FALSE
                OBVIOUS
            <4> DEFINE q == Exchanged(p, i, l)
                       C == q[1]
                       D == q[2]
            <4>2. IsMatch(queue, n, l, q)
                <5>1. A \in SUBSET DOMAIN queue /\ B \in SUBSET DOMAIN queue /\ l \in DOMAIN queue \ (A \cup B)
                    BY <2>3, <2>4, <2>6, <3>1
                <5>2. IsMatch(queue, n, i, <<A, B>>) /\ Older(queue, l, i)
                    BY <2>5, <2>7, <3>5
                <5> HIDE DEF A, B, q
                <5>3. IsMatch(queue, n, l, Exchanged(<<A, B>>, i, l))
                    BY <2>3, <5>1, <5>2, OlderMayAnchor
                <5> QED BY <2>5, <5>3 DEF q
            <4>3. F(i) \subseteq F(l)
                BY <1>2, <1>6, <3>2, <3>4, <3>5
            <4>4. C \subseteq F(l) /\ D \subseteq F(l) /\ q = <<C, D>>
                BY <2>4, <2>6, <3>4, <4>3 DEF Exchanged, Swap
            <4>5. l \in DOMAIN queue /\ F(l) \in SUBSET DOMAIN queue /\ \A x \in F(l) : queue[x].size <= n
                BY <1>3, <3>1, <3>4
            <4> HIDE DEF q, C, D
            <4>6. Pairings(queue, l, Candidates(queue, l, F(l), n), n) # {}
                BY <4>1, <4>2, <4>4, <4>5, MatchIsPaired
            <4> QED BY <3>4, <4>6
        <3> QED BY <3>5, <3>6
    <2>8. i \in p[1] /\ IsMatch(queue, n, i, p)
        BY <2>4, <2>5
    <2> QED BY <2>7, <2>8 DEF p
<1>9. ASSUME ~Crowded(queue, n), NEW A \in SUBSET left, NEW i \in A, NEW B \in SUBSET (left \ A),
             IsMatch(queue, n, i, <<A, B>>)
      PROVE  FALSE
    <2>1. Players(queue, A) = n /\ Players(queue, B) = n
        BY <1>9 DEF IsMatch
    <2>2. A \in SUBSET DOMAIN queue /\ B \in SUBSET DOMAIN queue /\ i \in left
        OBVIOUS
    <2>3. ASSUME NEW x \in A \cup B PROVE x \in left /\ queue[x].size <= n
        <3>1. CASE x \in A
            BY <2>1, <2>2, <3>1, MembersFit
        <3>2. CASE x \in B
            BY <2>1, <2>2, <3>2, MembersFit
        <3> QED BY <3>1, <3>2
    <2>4. /\ i \in 1..m /\ A \subseteq F(i) /\ B \subseteq F(i)
          /\ Pairings(queue, i, Candidates(queue, i, F(i), n), n) = {}
        <3>1. i \in 1..m /\ Pairings(queue, i, Candidates(queue, i, F(i), n), n) = {}
            BY <1>5, <2>3
        <3>2. \A x \in A \cup B : x \in F(i)
            BY <1>5, <2>3, <3>1
        <3> QED BY <3>1, <3>2
    <2>5. F(i) \in SUBSET DOMAIN queue /\ \A x \in F(i) : queue[x].size <= n
        BY <1>3, <2>4
    <2> HIDE DEF left, m
    <2>6. Pairings(queue, i, Candidates(queue, i, F(i), n), n) # {}
        BY <1>2, <1>9, <2>4, <2>5, MatchIsPaired
    <2> QED BY <2>4, <2>6
<1>10. found = FindMatches(queue, n)
    BY <1>1 DEF found
<1>11. \A k, l \in DOMAIN found : k # l => Members(found[k]) \cap Members(found[l]) = {}
    BY <1>4 DEF Apart
<1>12. ~Crowded(queue, n) =>
          \A A \in SUBSET left : \A i \in A, B \in SUBSET (left \ A) : ~IsMatch(queue, n, i, <<A, B>>)
    BY <1>9
<1>13. \A k \in DOMAIN found : \E i \in found[k][1] :
            /\ IsMatch(queue, n, i, found[k])
            /\ \A j \in Members(found[k]), l \in left : Older(queue, l, j) => i = j /\ Crowded(queue, n)
    BY <1>8
<1> QED BY <1>10, <1>11, <1>12, <1>13 DEF PassComplete

-----------------------------------------------------------------------------
(***************************************************************************)
(* Lists by place, and what is left of a list                              *)
(***************************************************************************)

\* f lists the first of some places up to m, the entries there are s
Lists(seq, places, m, n, f, s) ==
    /\ n \in Nat /\ f \in [1..n -> 1..m]
    /\ \A k \in 1..n : f[k] \in places
    /\ \A k, l \in 1..n : k < l => f[k] < f[l]
    /\ \A i \in 1..m : i \in places => \E k \in 1..n : f[k] = i
    /\ s = [k \in 1..n |-> seq[f[k]]]

\* What has been picked of a sequence, f[i] of the first i entries
Picked(S, seq, places, f) ==
    /\ f \in [0..Len(seq) -> Seq(S)] /\ f[0] = <<>> /\ AtPlaces(seq, places) = f[Len(seq)]
    /\ \A i \in 1..Len(seq) : f[i] = IF i \in places THEN Append(f[i - 1], seq[i]) ELSE f[i - 1]

\* Picking entries is a loop over the places
LEMMA AtPlacesRuns ==
    ASSUME NEW S, NEW seq \in Seq(S), NEW places
    PROVE  \E f : Picked(S, seq, places, f)
<1> DEFINE n == Len(seq)
           B == Seq(S)
           Then(i, s) == IF i \in places THEN Append(s, seq[i]) ELSE s
           step == [i \in 1..n |-> [s \in B |-> Then(i, s)]]
           Runs(f) == f = [i \in 0..n |-> IF i = 0 THEN <<>>
                                          ELSE IF i \in places THEN Append(f[i - 1], seq[i])
                                          ELSE f[i - 1]]
<1>1. n \in Nat /\ \A i \in 1..n : \A s \in B : Then(i, s) \in B
    <2>1. n \in Nat /\ \A i \in 1..n : seq[i] \in S
        BY LenProperties, ElementOfSeq
    <2>2. \A x \in S : \A s \in Seq(S) : Append(s, x) \in Seq(S)
        BY AppendProperties
    <2> HIDE DEF n
    <2> QED BY <2>1, <2>2
<1>2. \E f : f \in [0..n -> B] /\ Runs(f)
    <2>1. <<>> \in B /\ step \in [1..n -> [B -> B]]
        <3>1. <<>> \in B
            BY EmptySeq
        <3> HIDE DEF n, Then, B
        <3> QED BY <1>1, <3>1
    <2>2. PICK f \in [0..n -> B] : LoopOf(f, n, <<>>, step)
        <3> HIDE DEF step, n, B
        <3> QED BY <1>1, <2>1, LoopSteps
    <2>3. ASSUME NEW i \in 0..n, i # 0
          PROVE  step[i][f[i - 1]] = Then(i, f[i - 1])
        <3>1. i \in 1..n /\ i - 1 \in 0..n
            BY <2>3, <1>1
        <3>2. f[i - 1] \in B
            BY <2>2, <3>1
        <3> HIDE DEF n, Then, B
        <3> QED BY <3>1, <3>2
    <2>4. Runs(f)
        <3>1. f = [i \in 0..n |-> IF i = 0 THEN <<>> ELSE Then(i, f[i - 1])]
            <4> HIDE DEF n, Then, step, B
            <4> QED BY <2>2, <2>3 DEF LoopOf
        <3> QED BY <3>1
    <2> HIDE DEF n, B
    <2> QED BY <2>2, <2>4
<1>3. \E f : Runs(f) /\ AtPlaces(seq, places) = f[n]
    <2> DEFINE g == CHOOSE f : Runs(f)
    <2>1. Runs(g)
        <3> HIDE DEF Runs
        <3> QED BY <1>2
    <2>2. AtPlaces(seq, places) = g[n]
        BY Zenon DEF AtPlaces
    <2> HIDE DEF Runs, g
    <2> QED BY <2>1, <2>2
<1>4. PICK f : Runs(f) /\ AtPlaces(seq, places) = f[n]
    BY <1>3
<1>5. f[0] = <<>> /\ \A i \in 1..n : f[i] = Then(i, f[i - 1])
    <2>1. 0 \in 0..n /\ \A i \in 1..n : i \in 0..n /\ i # 0
        BY <1>1
    <2> HIDE DEF n
    <2> QED BY <1>4, <2>1
<1>6. f \in [0..n -> B]
    <2> DEFINE T == {i \in 0..n : f[i] \in B}
    <2>1. 0 \in T
        <3>1. f[0] \in B /\ 0 \in 0..n
            <4>1. <<>> \in B
                BY EmptySeq
            <4> HIDE DEF B, n
            <4> QED BY <1>1, <1>5, <4>1
        <3> HIDE DEF B, n
        <3> QED BY <3>1
    <2>2. ASSUME NEW i \in 0..n, i < n, i \in T PROVE i + 1 \in T
        <3>1. i + 1 \in 1..n /\ i + 1 \in 0..n /\ (i + 1) - 1 = i
            BY <1>1, <2>2
        <3>2. f[i + 1] = Then(i + 1, f[i]) /\ f[i] \in B
            <4> HIDE DEF n, Then, B
            <4> QED BY <1>5, <3>1, <2>2
        <3> HIDE DEF n, Then, B
        <3> QED BY <1>1, <3>1, <3>2
    <2>3. \A i \in 0..n : f[i] \in B
        <3>1. \A i \in 0..n : i \in T
            <4> HIDE DEF T, n
            <4> QED BY <1>1, <2>1, <2>2, UpTo
        <3> QED BY <3>1
    <2>4. DOMAIN f = 0..n /\ f = [i \in DOMAIN f |-> f[i]]
        BY <1>4
    <2> HIDE DEF n, Runs, B
    <2> QED BY <2>3, <2>4
<1>7. \A i \in 1..n : f[i] = IF i \in places THEN Append(f[i - 1], seq[i]) ELSE f[i - 1]
    BY <1>5
<1> HIDE DEF Runs, Then
<1> QED BY <1>4, <1>5, <1>6, <1>7, Zenon DEF Picked

\* The entries at some places are listed by a growing enumeration of these places
LEMMA PlacesAreListed ==
    ASSUME NEW S, NEW seq \in Seq(S), NEW places
    PROVE  \E n, f : Lists(seq, places, Len(seq), n, f, AtPlaces(seq, places))
<1> DEFINE m == Len(seq)
<1>0. PICK g : Picked(S, seq, places, g)
    BY AtPlacesRuns
<1>1. /\ g \in [0..m -> Seq(S)] /\ g[0] = <<>> /\ AtPlaces(seq, places) = g[m]
      /\ \A i \in 1..m : g[i] = IF i \in places THEN Append(g[i - 1], seq[i]) ELSE g[i - 1]
    BY <1>0 DEF Picked
<1>2. m \in Nat
    BY LenProperties
<1> HIDE DEF m
<1> DEFINE T == {i \in 0..m : \E n, f : Lists(seq, places, i, n, f, g[i])}
<1>3. 0 \in T
    <2> DEFINE none == [k \in 1..0 |-> 0]
    <2>1. g[0] = [k \in 1..0 |-> seq[none[k]]] /\ none \in [1..0 -> 1..0]
        BY <1>1
    <2>2. Lists(seq, places, 0, 0, none, g[0])
        <3> HIDE DEF none
        <3> QED BY <2>1 DEF Lists
    <2> QED BY <1>2, <2>2
<1>4. ASSUME NEW i \in 0..m, i < m, i \in T
      PROVE  i + 1 \in T
    <2>1. PICK n, f : Lists(seq, places, i, n, f, g[i])
        BY <1>4
    <2>2. /\ n \in Nat /\ f \in [1..n -> 1..i]
          /\ \A k \in 1..n : f[k] \in places
          /\ \A k, l \in 1..n : k < l => f[k] < f[l]
          /\ \A j \in 1..i : j \in places => \E k \in 1..n : f[k] = j
          /\ g[i] = [k \in 1..n |-> seq[f[k]]]
        BY <2>1 DEF Lists
    <2>3. /\ i + 1 \in 1..m /\ i + 1 \in 0..m /\ (i + 1) - 1 = i
          /\ \A j \in 1..(i + 1) : j \in 1..i \/ j = i + 1
          /\ \A j \in 1..i : j \in 1..(i + 1) /\ j < i + 1
        BY <1>2, <1>4
    <2>4. CASE i + 1 \notin places
        <3>1. g[i + 1] = g[i]
            BY <1>1, <2>3, <2>4
        <3>2. f \in [1..n -> 1..(i + 1)]
            BY <2>2, <2>3
        <3>3. \A j \in 1..(i + 1) : j \in places => \E k \in 1..n : f[k] = j
            BY <2>2, <2>3, <2>4
        <3>4. Lists(seq, places, i + 1, n, f, g[i + 1])
            BY <2>2, <3>1, <3>2, <3>3 DEF Lists
        <3> QED BY <2>3, <3>4
    <2>5. CASE i + 1 \in places
        <3> DEFINE h == [k \in 1..(n + 1) |-> IF k = n + 1 THEN i + 1 ELSE f[k]]
        <3>1. g[i + 1] = Append(g[i], seq[i + 1])
            BY <1>1, <2>3, <2>5
        <3>2. n + 1 \in Nat /\ (\A k \in 1..(n + 1) : k = n + 1 \/ (k \in 1..n /\ k < n + 1)) /\ n + 1 \in 1..(n + 1)
              /\ \A k \in 1..n : k \in 1..(n + 1) /\ k # n + 1
            BY <2>2
        <3>3. h[n + 1] = i + 1 /\ \A k \in 1..n : h[k] = f[k]
            BY <3>2
        <3>4. h \in [1..(n + 1) -> 1..(i + 1)]
            BY <2>2, <2>3, <3>2
        <3>5. DOMAIN h = 1..(n + 1)
            OBVIOUS
        <3> HIDE DEF h
        <3>6. \A k \in 1..(n + 1) : h[k] \in places
            BY <2>2, <2>5, <3>2, <3>3
        <3>7. \A k, l \in 1..(n + 1) : k < l => h[k] < h[l]
            <4> SUFFICES ASSUME NEW k \in 1..(n + 1), NEW l \in 1..(n + 1), k < l PROVE h[k] < h[l]
                OBVIOUS
            <4>1. k \in 1..n
                BY <2>2, <3>2
            <4>2. CASE l \in 1..n
                BY <2>2, <3>3, <4>1, <4>2
            <4>3. CASE l = n + 1
                <5>1. f[k] \in 1..i
                    BY <2>2, <4>1
                <5> QED BY <2>3, <3>3, <4>1, <4>3, <5>1
            <4> QED BY <3>2, <4>2, <4>3
        <3>8. \A j \in 1..(i + 1) : j \in places => \E k \in 1..(n + 1) : h[k] = j
            BY <2>2, <2>3, <3>2, <3>3
        <3>9. g[i + 1] = [k \in 1..(n + 1) |-> seq[h[k]]]
            <4> DEFINE was == [k \in 1..n |-> seq[f[k]]]
            <4>1. was \in Seq(S) /\ Len(was) = n /\ seq[i + 1] \in S
                <5>1. g[i] \in Seq(S) /\ \A j \in 1..m : seq[j] \in S
                    BY <1>1, ElementOfSeq DEF m
                <5>2. DOMAIN was = 1..n
                    OBVIOUS
                <5>3. was = g[i]
                    BY <2>2
                <5> HIDE DEF was
                <5> QED BY <2>2, <2>3, <5>1, <5>2, <5>3, LenProperties
            <4>2. /\ Len(Append(was, seq[i + 1])) = n + 1
                  /\ \A k \in 1..n : Append(was, seq[i + 1])[k] = was[k]
                  /\ Append(was, seq[i + 1])[n + 1] = seq[i + 1]
                  /\ Append(was, seq[i + 1]) \in Seq(S)
                <5> HIDE DEF was
                <5> QED BY <4>1, AppendProperties
            <4>3. \A k \in 1..n : was[k] = seq[h[k]]
                BY <3>3
            <4> DEFINE a == Append(was, seq[i + 1])
            <4>4. g[i + 1] = a
                BY <2>2, <3>1
            <4>5. a = [k \in 1..(n + 1) |-> a[k]]
                <5>1. a \in Seq(S) /\ Len(a) = n + 1
                    BY <4>2
                <5> HIDE DEF a
                <5> QED BY <3>2, <5>1, LenProperties
            <4>6. \A k \in 1..(n + 1) : a[k] = seq[h[k]]
                <5> HIDE DEF was
                <5> QED BY <3>2, <3>3, <4>2, <4>3
            <4> HIDE DEF a, was
            <4> QED BY <4>4, <4>5, <4>6
        <3>10. Lists(seq, places, i + 1, n + 1, h, g[i + 1])
            BY <3>2, <3>4, <3>6, <3>7, <3>8, <3>9 DEF Lists
        <3> QED BY <2>3, <3>10
    <2> QED BY <2>4, <2>5
<1>5. m \in T
    <2>1. \A i \in 0..m : i \in T
        <3> HIDE DEF T
        <3> QED BY <1>2, <1>3, <1>4, UpTo
    <2> QED BY <1>2, <2>1
<1>6. \E n, f : Lists(seq, places, m, n, f, g[m])
    BY <1>5
<1> QED BY <1>1, <1>6 DEF m

\* No item of the sequence is there twice.
NoRepeat(s) == \A k, l \in DOMAIN s : s[k] = s[l] => k = l

\* What has been picked are the entries at the places, none twice
LEMMA AtPlacesFacts ==
    ASSUME NEW S, NEW seq \in Seq(S), NEW places
    PROVE  /\ AtPlaces(seq, places) \in Seq(S)
           /\ Items(AtPlaces(seq, places)) = {seq[i] : i \in DOMAIN seq \cap places}
           /\ NoRepeat(seq) => NoRepeat(AtPlaces(seq, places))
<1> DEFINE m == Len(seq)
           r == AtPlaces(seq, places)
<1>1. PICK n, f : Lists(seq, places, m, n, f, r)
    BY PlacesAreListed
<1>2. /\ n \in Nat /\ f \in [1..n -> 1..m]
      /\ \A k \in 1..n : f[k] \in places
      /\ \A k, l \in 1..n : k < l => f[k] < f[l]
      /\ \A i \in 1..m : i \in places => \E k \in 1..n : f[k] = i
      /\ r = [k \in 1..n |-> seq[f[k]]]
    BY <1>1 DEF Lists
<1>3. m \in Nat /\ DOMAIN seq = 1..m /\ \A i \in 1..m : seq[i] \in S
    BY LenProperties, ElementOfSeq
<1> HIDE DEF m, r
<1>4. DOMAIN r = 1..n /\ \A k \in 1..n : r[k] = seq[f[k]] /\ f[k] \in 1..m
    BY <1>2
<1>5. r \in Seq(S)
    <2>1. r \in [1..n -> S]
        BY <1>2, <1>3, <1>4
    <2> QED BY <1>2, <2>1, SeqDef
<1>6. Items(r) = {seq[i] : i \in DOMAIN seq \cap places}
    <2>1. ASSUME NEW x \in Items(r) PROVE x \in {seq[i] : i \in DOMAIN seq \cap places}
        <3>1. PICK k \in 1..n : x = seq[f[k]]
            BY <1>4 DEF Items
        <3> QED BY <1>2, <1>3, <1>4, <3>1
    <2>2. ASSUME NEW i \in DOMAIN seq \cap places PROVE seq[i] \in Items(r)
        <3>1. PICK k \in 1..n : f[k] = i
            BY <1>2, <1>3
        <3> QED BY <1>4, <3>1 DEF Items
    <2> QED BY <2>1, <2>2
<1>7. ASSUME NoRepeat(seq) PROVE NoRepeat(r)
    <2> SUFFICES ASSUME NEW k \in 1..n, NEW l \in 1..n, r[k] = r[l] PROVE k = l
        BY <1>4 DEF NoRepeat
    <2>1. f[k] = f[l]
        BY <1>3, <1>4, <1>7 DEF NoRepeat
    <2>2. f[k] \in Int /\ f[l] \in Int /\ k \in Int /\ l \in Int
        BY <1>3, <1>4
    <2>3. ~(f[k] < f[l]) /\ ~(f[l] < f[k])
        BY <2>1, <2>2
    <2>4. ~(k < l) /\ ~(l < k)
        BY <1>2, <2>3
    <2> QED BY <2>2, <2>4
<1> QED BY <1>5, <1>6, <1>7 DEF r

\* Nothing is picked of no places
LEMMA AtNone ==
    ASSUME NEW S, NEW seq \in Seq(S), NEW places, places \cap DOMAIN seq = {}
    PROVE  AtPlaces(seq, places) = <<>>
<1> DEFINE r == AtPlaces(seq, places)
<1>1. r \in Seq(S) /\ Items(r) = {}
    BY AtPlacesFacts
<1> HIDE DEF r
<1>2. Len(r) \in Nat /\ DOMAIN r = 1..Len(r)
    BY <1>1, LenProperties
<1>3. Len(r) = 0
    <2>1. 1 \notin DOMAIN r
        BY <1>1 DEF Items
    <2> QED BY <1>2, <2>1
<1>4. r = <<>>
    BY <1>1, <1>3, EmptySeq
<1> QED BY <1>4 DEF r

\* One place, one entry
LEMMA AtOne ==
    ASSUME NEW S, NEW seq \in Seq(S), NEW places, NEW a, places \cap DOMAIN seq = {a}
    PROVE  AtPlaces(seq, places) = <<seq[a]>>
<1> DEFINE m == Len(seq)
           r == AtPlaces(seq, places)
<1>1. PICK n, f : Lists(seq, places, m, n, f, r)
    BY PlacesAreListed
<1>3. m \in Nat /\ DOMAIN seq = 1..m
    BY LenProperties
<1>2. /\ n \in Nat /\ f \in [1..n -> 1..m]
      /\ \A k \in 1..n : f[k] = a
      /\ \A k, l \in 1..n : k < l => f[k] < f[l]
      /\ \E k \in 1..n : f[k] = a
      /\ r = [k \in 1..n |-> seq[f[k]]]
      /\ a \in Nat
    <2> HIDE DEF m, r
    <2> QED BY <1>1, <1>3 DEF Lists
<1> HIDE DEF m, r
<1>4. n = 1
    <2>1. n >= 1
        BY <1>2
    <2>2. ~(n >= 2)
        <3> SUFFICES ASSUME n >= 2 PROVE FALSE
            OBVIOUS
        <3>1. 1 \in 1..n /\ 2 \in 1..n
            BY <1>2
        <3> QED BY <1>2, <3>1
    <2> QED BY <1>2, <2>1, <2>2
<1>5. r = [k \in 1..1 |-> seq[a]]
    BY <1>2, <1>4
<1>6. r = <<seq[a]>>
    <2>1. DOMAIN <<seq[a]>> = 1..1 /\ <<seq[a]>>[1] = seq[a]
        OBVIOUS
    <2>2. \A k \in 1..1 : k = 1
        OBVIOUS
    <2> QED BY <1>5, <2>1, <2>2
<1> QED BY <1>6 DEF r

\* Two places, two entries in order
LEMMA AtTwo ==
    ASSUME NEW S, NEW seq \in Seq(S), NEW places, NEW a \in DOMAIN seq, NEW b \in DOMAIN seq, a < b,
           \A i \in DOMAIN seq : i \in places <=> i = a \/ i = b
    PROVE  AtPlaces(seq, places) = <<seq[a], seq[b]>>
<1> DEFINE m == Len(seq)
           r == AtPlaces(seq, places)
<1>0. places \cap DOMAIN seq = {a, b} /\ a \in Nat /\ b \in Nat
    BY LenProperties
<1>1. PICK n, f : Lists(seq, places, m, n, f, r)
    BY PlacesAreListed
<1>3. m \in Nat /\ DOMAIN seq = 1..m
    BY LenProperties
<1>2. /\ n \in Nat /\ f \in [1..n -> 1..m]
      /\ \A k \in 1..n : f[k] = a \/ f[k] = b
      /\ \A k, l \in 1..n : k < l => f[k] < f[l]
      /\ \E k \in 1..n : f[k] = a
      /\ \E k \in 1..n : f[k] = b
      /\ r = [k \in 1..n |-> seq[f[k]]]
    <2> HIDE DEF m, r
    <2> QED BY <1>1, <1>3 DEF Lists
<1> HIDE DEF m, r
<1>4. PICK k \in 1..n, l \in 1..n : f[k] = a /\ f[l] = b
    BY <1>2
<1>5. k < l
    <2>1. ~(l < k) /\ k # l
        BY <1>2, <1>4
    <2> QED BY <1>2, <2>1
<1>6. \A j \in 1..n : j = k \/ j = l
    <2> SUFFICES ASSUME NEW j \in 1..n, j # k, j # l PROVE FALSE
        OBVIOUS
    <2>1. j < k \/ k < j
        BY <1>2
    <2>2. j < l \/ l < j
        BY <1>2
    <2>3. f[j] # a /\ f[j] # b
        <3>1. f[j] < f[k] \/ f[k] < f[j]
            BY <1>2, <2>1
        <3>2. f[j] < f[l] \/ f[l] < f[j]
            BY <1>2, <2>2
        <3> QED BY <1>4, <3>1, <3>2
    <2> QED BY <1>2, <2>3
<1>7. n = 2 /\ k = 1 /\ l = 2
    <2>1. 1 \in 1..n /\ n \in 1..n
        BY <1>2, <1>4
    <2>2. k = 1
        BY <1>2, <1>5, <1>6, <2>1
    <2>3. l = n
        <3>1. n = k \/ n = l
            BY <1>6, <2>1
        <3>2. n # k
            BY <1>2, <1>5
        <3> QED BY <3>1, <3>2
    <2>4. l - 1 \in 1..n /\ l - 1 # l
        BY <1>2, <1>5
    <2>5. l - 1 = k
        BY <1>6, <2>4
    <2> QED BY <2>2, <2>3, <2>5
<1>8. DOMAIN r = 1..2 /\ r[1] = seq[a] /\ r[2] = seq[b] /\ r = [j \in 1..2 |-> r[j]]
    BY <1>2, <1>4, <1>7
<1>9. r = <<seq[a], seq[b]>>
    <2> DEFINE t == <<seq[a], seq[b]>>
    <2>1. t = [j \in 1..2 |-> t[j]] /\ t[1] = seq[a] /\ t[2] = seq[b]
        OBVIOUS
    <2>2. \A j \in 1..2 : j = 1 \/ j = 2
        OBVIOUS
    <2>3. \A j \in 1..2 : t[j] = r[j]
        <3> HIDE DEF t
        <3> QED BY <1>8, <2>1, <2>2
    <2> HIDE DEF t
    <2>4. t = r
        BY <1>8, <2>1, <2>3
    <2> QED BY <2>4 DEF t
<1> QED BY <1>9 DEF r

\* A sequence without repetition is as long as it has items
LEMMA AsManyItems ==
    ASSUME NEW S, NEW seq \in Seq(S), NoRepeat(seq)
    PROVE  IsFiniteSet(Items(seq)) /\ Cardinality(Items(seq)) = Len(seq)
<1> DEFINE n == Len(seq)
           I == Items(seq)
<1>1. n \in Nat /\ DOMAIN seq = 1..n /\ seq = [i \in 1..n |-> seq[i]]
    BY LenProperties
<1>2. seq \in [1..n -> I] /\ \A x \in I : \E i \in 1..n : seq[i] = x
    <2>1. \A i \in 1..n : seq[i] \in I
        BY <1>1 DEF Items
    <2>2. \A x \in I : \E i \in 1..n : seq[i] = x
        BY <1>1 DEF Items
    <2> HIDE DEF n, I
    <2> QED BY <1>1, <2>1, <2>2
<1>3. seq \in Bijection(1..n, I)
    <2>1. \A k, l \in 1..n : seq[k] = seq[l] => k = l
        BY <1>1 DEF NoRepeat
    <2> HIDE DEF n, I
    <2> QED BY <1>2, <2>1 DEF Bijection, Injection, Surjection, IsInjective
<1>4. IsFiniteSet(1..n) /\ Cardinality(1..n) = n
    <2>1. 1 \in Int /\ n \in Int /\ (1 > n => n = 0)
        <3> HIDE DEF n
        <3> QED BY <1>1
    <2> HIDE DEF n
    <2>2. IsFiniteSet(1..n) /\ Cardinality(1..n) = IF 1 > n THEN 0 ELSE n - 1 + 1
        BY <2>1, FS_Interval
    <2> QED BY <1>1, <2>1, <2>2
<1>5. ExistsBijection(1..n, I)
    BY <1>3 DEF ExistsBijection
<1> HIDE DEF n, I
<1>6. IsFiniteSet(I) /\ Cardinality(I) = n
    BY <1>4, <1>5, FS_Bijection
<1> QED BY <1>6 DEF n, I

\* A filter keeps the items of the set
LEMMA ThoseFacts ==
    ASSUME NEW S, NEW seq \in Seq(S), NEW set
    PROVE  /\ Those(seq, set) \in Seq(S)
           /\ Items(Those(seq, set)) = Items(seq) \cap set
           /\ NoRepeat(seq) => NoRepeat(Those(seq, set))
<1> DEFINE P == {i \in DOMAIN seq : seq[i] \in set}
<1>1. Those(seq, set) = AtPlaces(seq, P)
    BY DEF Those
<1>2. {seq[i] : i \in DOMAIN seq \cap P} = Items(seq) \cap set
    BY DEF Items
<1> HIDE DEF P
<1> QED BY <1>1, <1>2, AtPlacesFacts

\* To filter one item out makes a sequence without repetition one shorter
LEMMA OneLess ==
    ASSUME NEW S, NEW seq \in Seq(S), NoRepeat(seq), NEW x \in Items(seq)
    PROVE  Len(Those(seq, Items(seq) \ {x})) = Len(seq) - 1
<1> DEFINE r == Those(seq, Items(seq) \ {x})
<1>1. r \in Seq(S) /\ Items(r) = Items(seq) \ {x} /\ NoRepeat(r)
    <2>1. Items(seq) \cap (Items(seq) \ {x}) = Items(seq) \ {x}
        OBVIOUS
    <2> QED BY <2>1, ThoseFacts
<1> HIDE DEF r
<1>2. IsFiniteSet(Items(seq)) /\ Cardinality(Items(seq)) = Len(seq)
    BY AsManyItems
<1>3. Cardinality(Items(r)) = Len(r)
    BY <1>1, AsManyItems
<1>4. Cardinality(Items(seq) \ {x}) = Cardinality(Items(seq)) - 1
    BY <1>2, FS_RemoveElement
<1> QED BY <1>1, <1>2, <1>3, <1>4 DEF r

-----------------------------------------------------------------------------
(***************************************************************************)
(* One step of a veto                                                      *)
(***************************************************************************)

\* What a step of a veto can be, the lists of steps, the votes of the
\* voters V on rooms R, the entries of a history, and the states of a veto.
Acts == {"ban", "pick", "side"}
Steps == Seq([action : Acts, team : {1, 2}, phase : Nat])
Ballots(V, R) == UNION {[D -> R] : D \in SUBSET V}
Entries(V, R) == [step : Nat, action : Acts, team : {1, 2}, mapId : R, votes : Ballots(V, R)]
VetoStates(phases, V, R) ==
    [teams : [{1, 2} -> SUBSET V], steps : Steps, phases : {phases}, stepIndex : Nat, available : Seq(R),
     votes : Ballots(V, R), history : Seq(Entries(V, R)), done : BOOLEAN, maps : Seq(R)]

\* What the entries of the history name.
Drawn(s) == {s.history[i].mapId : i \in DOMAIN s.history}

\* Who voted for m.
VotedFor(votes, m) == {p \in DOMAIN votes : votes[p] = m}

\* Entry i is what step i asked for: of its team, its phase and what was left, and by its votes
EntryFits(s, pool, i) ==
    LET h == s.history[i]
    IN  /\ h.step = i /\ h.action = s.steps[i].action /\ h.team = s.steps[i].team
        /\ h.mapId \in Items(pool)
        /\ s.steps[i].phase # 0 => h.mapId \in Items(s.phases[s.steps[i].phase].pool)
        /\ DOMAIN h.votes \subseteq s.teams[h.team]
        /\ \A p \in DOMAIN h.votes :
               Cardinality(VotedFor(h.votes, h.mapId)) >= Cardinality(VotedFor(h.votes, h.votes[p]))
        /\ \A j \in 1..(i - 1) : h.mapId # s.history[j].mapId /\ \A p \in DOMAIN h.votes : h.votes[p] # s.history[j].mapId

\* Between two steps of a veto over a pool
VetoInv(s, pool, V, R) ==
    /\ s \in VetoStates(s.phases, V, R)
    /\ Len(s.history) = s.stepIndex /\ s.stepIndex <= Len(s.steps) /\ (s.done <=> s.stepIndex >= Len(s.steps))
    /\ \A i \in 1..s.stepIndex : EntryFits(s, pool, i)
    /\ NoRepeat(s.available) /\ Items(s.available) = Items(pool) \ Drawn(s)
    /\ Len(s.available) = Len(pool) - s.stepIndex
    /\ ~s.done => /\ DOMAIN s.votes \subseteq ActingTeam(s)
                  /\ \A p \in DOMAIN s.votes : s.votes[p] \in Items(StepAvailable(s))
    /\ s.done => s.maps = MapsOf(s.history, "pick") \o s.available

\* Two states of the same veto: their teams, steps and phases.
Alike(s, t) == t.teams = s.teams /\ t.steps = s.steps /\ t.phases = s.phases

\* The rooms that the step can take are left, and of its phase
LEMMA StepTakes ==
    ASSUME NEW R, NEW s, s.available \in Seq(R), CurrentStep(s).phase \in Nat
    PROVE  /\ Items(StepAvailable(s)) \subseteq Items(s.available)
           /\ Items(s.available) \subseteq R
           /\ CurrentStep(s).phase # 0 => Items(StepAvailable(s)) \subseteq Items(s.phases[CurrentStep(s).phase].pool)
<1> DEFINE k == CurrentStep(s).phase
           P == Items(s.phases[k].pool)
<1>1. Items(Those(s.available, P)) = Items(s.available) \cap P
    <2> HIDE DEF P
    <2> QED BY ThoseFacts
<1>2. StepAvailable(s) = IF k = 0 THEN s.available ELSE Those(s.available, P)
    BY DEF StepAvailable
<1>3. Items(s.available) \subseteq R
    BY LenProperties, ElementOfSeq DEF Items
<1> HIDE DEF P
<1>4. k # 0 => Items(StepAvailable(s)) \subseteq P
    BY <1>1, <1>2
<1> QED BY <1>1, <1>2, <1>3, <1>4 DEF P

\* What a vote leaves behind
LEMMA VoteCast ==
    ASSUME NEW V, NEW R, NEW pool, NEW s, VetoInv(s, pool, V, R), NEW p \in V, NEW m \in R, MayVote(s, p, m)
    PROVE  VetoInv(CastVote(s, p, m), pool, V, R) /\ Alike(s, CastVote(s, p, m)) /\ ~CastVote(s, p, m).done
<1> DEFINE t == CastVote(s, p, m)
           ballot == [q \in DOMAIN s.votes \cup {p} |-> IF q = p THEN m ELSE s.votes[q]]
<1>1. s \in VetoStates(s.phases, V, R)
    BY DEF VetoInv
<1>2. ballot \in Ballots(V, R)
    <2>1. PICK D \in SUBSET V : s.votes \in [D -> R]
        BY <1>1 DEF VetoStates, Ballots
    <2>2. ballot \in [D \cup {p} -> R] /\ D \cup {p} \in SUBSET V
        BY <2>1
    <2> HIDE DEF ballot
    <2> QED BY <2>2 DEF Ballots
<1>3. t = [s EXCEPT !.votes = ballot]
    BY DEF CastVote
<1> HIDE DEF ballot
<1>4. /\ t \in VetoStates(s.phases, V, R)
      /\ t.teams = s.teams /\ t.steps = s.steps /\ t.phases = s.phases /\ t.stepIndex = s.stepIndex
      /\ t.available = s.available /\ t.votes = ballot /\ t.history = s.history /\ t.done = s.done /\ t.maps = s.maps
    BY <1>1, <1>2, <1>3 DEF VetoStates
<1> HIDE DEF t
<1>5. \A i \in 1..s.stepIndex : EntryFits(t, pool, i)
    <2> SUFFICES ASSUME NEW i \in 1..s.stepIndex PROVE EntryFits(t, pool, i)
        OBVIOUS
    <2>1. EntryFits(s, pool, i)
        BY DEF VetoInv
    <2> QED BY <1>4, <2>1 DEF EntryFits
<1>6. /\ ActingTeam(t) = ActingTeam(s) /\ StepAvailable(t) = StepAvailable(s) /\ Drawn(t) = Drawn(s)
    BY <1>4 DEF ActingTeam, StepAvailable, CurrentStep, Drawn
<1>7. /\ DOMAIN t.votes \subseteq ActingTeam(t)
      /\ \A q \in DOMAIN t.votes : t.votes[q] \in Items(StepAvailable(t))
    <2>1. ~s.done /\ p \in ActingTeam(s) /\ m \in Items(StepAvailable(s))
        BY DEF MayVote
    <2>2. DOMAIN s.votes \subseteq ActingTeam(s) /\ \A q \in DOMAIN s.votes : s.votes[q] \in Items(StepAvailable(s))
        BY <2>1 DEF VetoInv
    <2>3. DOMAIN ballot = DOMAIN s.votes \cup {p} /\ \A q \in DOMAIN ballot : ballot[q] = IF q = p THEN m ELSE s.votes[q]
        BY DEF ballot
    <2> QED BY <1>4, <1>6, <2>1, <2>2, <2>3
<1>8. ~t.done
    BY <1>4 DEF MayVote
<1>9. /\ Len(s.history) = s.stepIndex /\ s.stepIndex <= Len(s.steps) /\ (s.done <=> s.stepIndex >= Len(s.steps))
      /\ NoRepeat(s.available) /\ Items(s.available) = Items(pool) \ Drawn(s)
      /\ Len(s.available) = Len(pool) - s.stepIndex
    BY DEF VetoInv
<1>10. VetoInv(t, pool, V, R)
    BY <1>4, <1>5, <1>6, <1>7, <1>8, <1>9 DEF VetoInv
<1> QED BY <1>4, <1>8, <1>10 DEF t, Alike

\* What the end of a step leaves behind
LEMMA StepEnds ==
    ASSUME NEW V, NEW R, NEW pool \in Seq(R), NEW s, VetoInv(s, pool, V, R), ~s.done, NEW m \in Leaders(s)
    PROVE  VetoInv(ResolveStep(s, m), pool, V, R) /\ Alike(s, ResolveStep(s, m))
<1> DEFINE t == ResolveStep(s, m)
           n == s.stepIndex
           e == Entry(s, m)
           history == Append(s.history, e)
           available == Those(s.available, Items(s.available) \ {m})
           done == n + 1 >= Len(s.steps)
           maps == IF done THEN MapsOf(history, "pick") \o available ELSE <<>>
<1>1. /\ s \in VetoStates(s.phases, V, R) /\ n \in Nat /\ s.steps \in Steps /\ s.history \in Seq(Entries(V, R))
      /\ s.available \in Seq(R) /\ s.votes \in Ballots(V, R) /\ s.teams \in [{1, 2} -> SUBSET V]
    BY DEF VetoInv, VetoStates
<1>2. /\ Len(s.history) = n /\ n < Len(s.steps) /\ Len(s.steps) \in Nat
      /\ NoRepeat(s.available) /\ Items(s.available) = Items(pool) \ Drawn(s)
      /\ Len(s.available) = Len(pool) - n
      /\ DOMAIN s.votes \subseteq ActingTeam(s) /\ \A p \in DOMAIN s.votes : s.votes[p] \in Items(StepAvailable(s))
    <2>1. Len(s.steps) \in Nat
        BY <1>1, LenProperties DEF Steps
    <2>2. /\ Len(s.history) = n /\ n <= Len(s.steps) /\ (s.done <=> n >= Len(s.steps))
          /\ NoRepeat(s.available) /\ Items(s.available) = Items(pool) \ Drawn(s)
          /\ Len(s.available) = Len(pool) - n
        BY DEF VetoInv
    <2>3. DOMAIN s.votes \subseteq ActingTeam(s) /\ \A p \in DOMAIN s.votes : s.votes[p] \in Items(StepAvailable(s))
        BY DEF VetoInv
    <2>4. ~(n >= Len(s.steps))
        BY <2>2
    <2>5. n < Len(s.steps)
        <3> DEFINE L == Len(s.steps)
        <3> HIDE DEF L, n
        <3> QED BY <1>1, <2>1, <2>2, <2>4 DEF L
    <2> QED BY <2>1, <2>2, <2>3, <2>5
<1>3. /\ s.steps[n + 1] \in [action : Acts, team : {1, 2}, phase : Nat] /\ CurrentStep(s) = s.steps[n + 1]
    <2>1. n + 1 \in 1..Len(s.steps)
        BY <1>1, <1>2
    <2> QED BY <1>1, <2>1, ElementOfSeq DEF Steps, CurrentStep
<1>4. /\ m \in Items(StepAvailable(s)) /\ \A o \in Items(StepAvailable(s)) : VotesFor(s, m) >= VotesFor(s, o)
    BY DEF Leaders
<1>5. /\ Items(StepAvailable(s)) \subseteq Items(s.available) /\ Items(s.available) \subseteq R
      /\ s.steps[n + 1].phase # 0 => Items(StepAvailable(s)) \subseteq Items(s.phases[s.steps[n + 1].phase].pool)
    <2>1. CurrentStep(s).phase \in Nat
        BY <1>3
    <2> QED BY <1>1, <1>3, <2>1, StepTakes
<1>6. /\ e = [step |-> n + 1, action |-> s.steps[n + 1].action, team |-> s.steps[n + 1].team, mapId |-> m, votes |-> s.votes]
      /\ e \in Entries(V, R)
    <2>1. e = [step |-> n + 1, action |-> s.steps[n + 1].action, team |-> s.steps[n + 1].team, mapId |-> m, votes |-> s.votes]
        BY <1>3 DEF Entry
    <2>2. m \in R /\ n + 1 \in Nat
        BY <1>1, <1>4, <1>5
    <2> HIDE DEF e, n
    <2> QED BY <1>1, <1>3, <2>1, <2>2 DEF Entries
<1>7. /\ history \in Seq(Entries(V, R)) /\ Len(history) = n + 1 /\ history[n + 1] = e
      /\ \A i \in 1..n : history[i] = s.history[i]
      /\ DOMAIN history = 1..(n + 1) /\ DOMAIN s.history = 1..n
    <2>1. /\ history \in Seq(Entries(V, R)) /\ Len(history) = Len(s.history) + 1
          /\ history[Len(s.history) + 1] = e /\ \A i \in 1..Len(s.history) : history[i] = s.history[i]
        <3> HIDE DEF e
        <3> QED BY <1>1, <1>6, AppendProperties
    <2>2. DOMAIN s.history = 1..Len(s.history)
        BY <1>1, LenProperties
    <2> HIDE DEF history
    <2>3. DOMAIN history = 1..Len(history)
        BY <2>1, LenProperties
    <2> QED BY <1>2, <2>1, <2>2, <2>3
<1>8. /\ available \in Seq(R) /\ NoRepeat(available) /\ Items(available) = Items(s.available) \ {m}
      /\ Len(available) = Len(s.available) - 1
    <2>1. Items(s.available) \cap (Items(s.available) \ {m}) = Items(s.available) \ {m}
        OBVIOUS
    <2>2. m \in Items(s.available)
        BY <1>4, <1>5
    <2> DEFINE a == s.available
               rest == Items(a) \ {m}
    <2>3. a \in Seq(R) /\ NoRepeat(a) /\ m \in Items(a) /\ available = Those(a, Items(a) \ {m})
        BY <1>1, <1>2, <2>2
    <2> HIDE DEF a, available
    <2>4. Len(available) = Len(a) - 1
        BY <2>3, OneLess
    <2> HIDE DEF rest
    <2>5. available = Those(a, rest)
        BY <2>3 DEF rest
    <2>6. available \in Seq(R) /\ Items(available) = Items(a) \cap rest /\ NoRepeat(available)
        <3>1. Those(a, rest) \in Seq(R) /\ Items(Those(a, rest)) = Items(a) \cap rest /\ NoRepeat(Those(a, rest))
            BY <2>3, ThoseFacts
        <3> QED BY <2>5, <3>1
    <2> QED BY <2>4, <2>6 DEF rest, a
<1>9. maps \in Seq(R)
    <2>1. MapsOf(history, "pick") \in Seq(R)
        <3> DEFINE P == {i \in DOMAIN history : history[i].action = "pick"}
                   r == AtPlaces(history, P)
        <3>1. r \in Seq(Entries(V, R))
            <4> HIDE DEF P, history
            <4> QED BY <1>7, AtPlacesFacts
        <3>2. MapsOf(history, "pick") = [i \in DOMAIN r |-> r[i].mapId]
            BY DEF MapsOf
        <3> HIDE DEF r
        <3>3. DOMAIN r = 1..Len(r) /\ Len(r) \in Nat /\ \A i \in 1..Len(r) : r[i] \in Entries(V, R)
            BY <3>1, LenProperties, ElementOfSeq
        <3>4. \A i \in 1..Len(r) : r[i].mapId \in R
            BY <3>3 DEF Entries
        <3>5. [i \in DOMAIN r |-> r[i].mapId] \in [1..Len(r) -> R]
            BY <3>3, <3>4
        <3> QED BY <3>2, <3>3, <3>5, SeqDef
    <2>2. <<>> \in Seq(R)
        BY EmptySeq
    <2>3. MapsOf(history, "pick") \o available \in Seq(R)
        <3> HIDE DEF history, available
        <3> QED BY <1>8, <2>1, ConcatProperties
    <2> HIDE DEF history, available, done
    <2> QED BY <2>2, <2>3
<1>10. t = [s EXCEPT !.available = available, !.history = history, !.stepIndex = n + 1, !.votes = <<>>,
                     !.done = done, !.maps = maps]
    BY DEF ResolveStep
<1>11. <<>> \in Ballots(V, R)
    <2>1. <<>> \in [{} -> R] /\ {} \in SUBSET V
        OBVIOUS
    <2> QED BY <2>1 DEF Ballots
<1>12. /\ t \in VetoStates(s.phases, V, R)
       /\ t.teams = s.teams /\ t.steps = s.steps /\ t.phases = s.phases /\ t.stepIndex = n + 1
       /\ t.available = available /\ t.votes = <<>> /\ t.history = history /\ t.done = done /\ t.maps = maps
    <2>1. n + 1 \in Nat /\ done \in BOOLEAN
        BY <1>1, <1>2
    <2> HIDE DEF t, n, history, available, done, maps
    <2> QED BY <1>1, <1>7, <1>8, <1>9, <1>10, <1>11, <2>1 DEF VetoStates
<1>13. n + 1 <= Len(s.steps)
    BY <1>1, <1>2
<1>14. Items(available) = Items(pool) \ Drawn(t) /\ Len(available) = Len(pool) - (n + 1)
    <2>1. Drawn(t) = Drawn(s) \cup {m}
        <3>1. Drawn(t) = {history[i].mapId : i \in 1..(n + 1)} /\ Drawn(s) = {s.history[i].mapId : i \in 1..n}
            <4> HIDE DEF t, history, n
            <4> QED BY <1>7, <1>12 DEF Drawn
        <3>2. e.mapId = m
            BY <1>6
        <3>3. /\ \A i \in 1..(n + 1) : i = n + 1 \/ i \in 1..n
              /\ n + 1 \in 1..(n + 1) /\ \A i \in 1..n : i \in 1..(n + 1)
            BY <1>1
        <3> HIDE DEF t, history, n, e
        <3> QED BY <1>7, <3>1, <3>2, <3>3
    <2>2. Len(pool) - (n + 1) = Len(s.available) - 1
        <3>1. Len(s.available) \in Nat
            BY <1>1, LenProperties
        <3>2. Len(pool) - n = Len(s.available)
            BY <1>2
        <3> DEFINE L == Len(pool)
        <3>3. L \in Int
            BY LenProperties
        <3> QED BY <1>1, <3>1, <3>2, <3>3
    <2> HIDE DEF t, available, n
    <2> QED BY <1>2, <1>8, <2>1, <2>2
<1> HIDE DEF t, e, history, available, maps
<1>15. \A i \in 1..(n + 1) : EntryFits(t, pool, i)
    <2>1. ASSUME NEW i \in 1..n PROVE EntryFits(t, pool, i)
        <3>1. EntryFits(s, pool, i) /\ t.history[i] = s.history[i] /\ \A j \in 1..(i - 1) : t.history[j] = s.history[j]
            <4>1. \A j \in 1..(i - 1) : j \in 1..n
                BY <1>1
            <4> QED BY <1>7, <1>12, <4>1 DEF VetoInv
        <3> QED BY <1>12, <3>1 DEF EntryFits
    <2>2. EntryFits(t, pool, n + 1)
        <3>1. /\ e.step = n + 1 /\ e.action = s.steps[n + 1].action /\ e.team = s.steps[n + 1].team
              /\ e.mapId = m /\ e.votes = s.votes /\ t.history[n + 1] = e
            BY <1>6, <1>7, <1>12
        <3>2. m \in Items(pool) /\ m \notin Drawn(s)
            BY <1>2, <1>4, <1>5
        <3>3. s.steps[n + 1].phase # 0 => m \in Items(s.phases[s.steps[n + 1].phase].pool)
            BY <1>4, <1>5
        <3>4. DOMAIN e.votes \subseteq s.teams[e.team]
            BY <1>2, <1>3, <3>1 DEF ActingTeam
        <3>5. \A p \in DOMAIN e.votes : Cardinality(VotedFor(e.votes, m)) >= Cardinality(VotedFor(e.votes, e.votes[p]))
            <4>1. \A o : VotesFor(s, o) = Cardinality(VotedFor(e.votes, o))
                BY <3>1 DEF VotesFor, VotedFor
            <4> QED BY <1>2, <1>4, <3>1, <4>1
        <3>6. \A j \in 1..n : t.history[j].mapId \in Drawn(s)
            BY <1>7, <1>12 DEF Drawn
        <3>7. \A p \in DOMAIN e.votes : e.votes[p] \notin Drawn(s)
            BY <1>2, <1>5, <3>1
        <3>8. \A j \in 1..((n + 1) - 1) : j \in 1..n
            BY <1>1
        <3>9. /\ t.history[n + 1].step = n + 1 /\ t.history[n + 1].action = t.steps[n + 1].action
              /\ t.history[n + 1].team = t.steps[n + 1].team /\ t.history[n + 1].mapId \in Items(pool)
              /\ t.steps[n + 1].phase # 0 => t.history[n + 1].mapId \in Items(t.phases[t.steps[n + 1].phase].pool)
              /\ DOMAIN t.history[n + 1].votes \subseteq t.teams[t.history[n + 1].team]
            BY <1>12, <3>1, <3>2, <3>3, <3>4
        <3>10. \A j \in 1..((n + 1) - 1) : e.mapId # t.history[j].mapId /\ \A p \in DOMAIN e.votes : e.votes[p] # t.history[j].mapId
            BY <3>1, <3>2, <3>6, <3>7, <3>8
        <3>11. \A p \in DOMAIN e.votes : Cardinality(VotedFor(e.votes, e.mapId)) >= Cardinality(VotedFor(e.votes, e.votes[p]))
            BY <3>1, <3>5
        <3> HIDE DEF n
        <3> QED BY <3>1, <3>9, <3>10, <3>11 DEF EntryFits
    <2>3. \A i \in 1..(n + 1) : i \in 1..n \/ i = n + 1
        BY <1>1
    <2> QED BY <2>1, <2>2, <2>3
<1>16. ~t.done => DOMAIN t.votes \subseteq ActingTeam(t) /\ \A p \in DOMAIN t.votes : t.votes[p] \in Items(StepAvailable(t))
    BY <1>12
<1>17. t.done => t.maps = MapsOf(t.history, "pick") \o t.available
    BY <1>12 DEF maps
<1>18. VetoInv(t, pool, V, R)
    BY <1>7, <1>8, <1>12, <1>13, <1>14, <1>15, <1>16, <1>17 DEF VetoInv
<1> QED BY <1>12, <1>18 DEF t, Alike

\* What a vote leads to
LEMMA VoteKeeps ==
    ASSUME NEW V, NEW R, NEW pool \in Seq(R), NEW s, VetoInv(s, pool, V, R), NEW p \in V, NEW m \in R, MayVote(s, p, m),
           NEW t \in AfterVote(s, p, m)
    PROVE  VetoInv(t, pool, V, R) /\ Alike(s, t)
<1> DEFINE cast == CastVote(s, p, m)
<1>1. VetoInv(cast, pool, V, R) /\ Alike(s, cast) /\ ~cast.done
    BY VoteCast
<1>2. t = cast \/ \E o \in Leaders(cast) : t = ResolveStep(cast, o)
    BY DEF AfterVote
<1> HIDE DEF cast
<1>3. ASSUME NEW o \in Leaders(cast), t = ResolveStep(cast, o) PROVE VetoInv(t, pool, V, R) /\ Alike(cast, t)
    BY <1>1, <1>3, StepEnds
<1> QED BY <1>1, <1>2, <1>3 DEF Alike

\* A veto begins by the rules
LEMMA VetoBegins ==
    ASSUME NEW V, NEW pool, pool \in Seq(Items(pool)), NoRepeat(pool), NEW teams \in [{1, 2} -> SUBSET V],
           NEW steps \in Steps, steps # <<>>, NEW phases
    PROVE  VetoInv(CreateVeto(pool, teams, steps, phases), pool, V, Items(pool))
<1> DEFINE s == CreateVeto(pool, teams, steps, phases)
           R == Items(pool)
<1> DEFINE nil == <<>>
<1>1. s = [teams |-> teams, steps |-> steps, phases |-> phases, stepIndex |-> 0, available |-> pool,
           votes |-> nil, history |-> nil, done |-> FALSE, maps |-> nil]
    BY DEF CreateVeto
<1>2. nil \in Ballots(V, R)
    <2>1. nil \in [{} -> R] /\ {} \in SUBSET V
        OBVIOUS
    <2> HIDE DEF nil
    <2> QED BY <2>1 DEF Ballots
<1>3. nil \in Seq(Entries(V, R)) /\ nil \in Seq(R) /\ Len(nil) = 0 /\ DOMAIN nil = {}
    <2>1. nil \in Seq(Entries(V, R)) /\ nil \in Seq(R) /\ Len(nil) = 0
        <3> HIDE DEF R
        <3> QED BY EmptySeq
    <2>2. DOMAIN nil = 1..0
        BY <2>1, LenProperties
    <2> QED BY <2>1, <2>2
<1>4. pool \in Seq(R) /\ Len(pool) \in Nat /\ Len(steps) \in Nat /\ Len(steps) # 0
    <2>1. Len(steps) \in Nat /\ Len(steps) # 0
        BY LenProperties, EmptySeq DEF Steps
    <2> QED BY <2>1, LenProperties
<1> HIDE DEF s, R, nil
<1>5. /\ s.teams = teams /\ s.steps = steps /\ s.phases = phases /\ s.stepIndex = 0 /\ s.available = pool
      /\ s.votes = nil /\ s.history = nil /\ s.done = FALSE /\ s.maps = nil
    BY <1>1
<1>6. s \in VetoStates(phases, V, R)
    BY <1>1, <1>2, <1>3, <1>4 DEF VetoStates
<1>7. Drawn(s) = {}
    BY <1>3, <1>5 DEF Drawn
<1>8. /\ Len(s.history) = s.stepIndex /\ s.stepIndex <= Len(s.steps) /\ (s.done <=> s.stepIndex >= Len(s.steps))
      /\ Len(s.available) = Len(pool) - s.stepIndex /\ 1..s.stepIndex = {}
      /\ DOMAIN s.votes = {} /\ NoRepeat(s.available) /\ Items(s.available) = Items(pool) \ Drawn(s)
    <2>1. ~(0 >= Len(steps)) /\ 0 <= Len(steps)
        BY <1>4
    <2>3. Len(pool) = Len(pool) - 0
        BY <1>4
    <2>4. 1..0 = {}
        OBVIOUS
    <2>2. NoRepeat(s.available) /\ Items(s.available) = Items(pool) \ Drawn(s)
        BY <1>5, <1>7
    <2>5. (s.done <=> s.stepIndex >= Len(s.steps))
        BY <1>5, <2>1
    <2> QED BY <1>3, <1>5, <2>1, <2>2, <2>3, <2>4, <2>5
<1>9. VetoInv(s, pool, V, R)
    BY <1>5, <1>6, <1>8 DEF VetoInv
<1> QED BY <1>9 DEF s, R

-----------------------------------------------------------------------------
(***************************************************************************)
(* Pools and steps of the formats                                          *)
(***************************************************************************)

\* A function on 1..n is a sequence of length n.
LEMMA IsSeq ==
    ASSUME NEW S, NEW n \in Nat, NEW f \in [1..n -> S]
    PROVE  f \in Seq(S) /\ Len(f) = n
BY SeqDef, LenProperties

\* A sequence is one of its own items.
LEMMA OwnItems ==
    ASSUME NEW S, NEW seq \in Seq(S)
    PROVE  seq \in Seq(Items(seq)) /\ Items(seq) \subseteq S /\ Len(seq) \in Nat
<1>1. Len(seq) \in Nat /\ DOMAIN seq = 1..Len(seq) /\ seq = [i \in 1..Len(seq) |-> seq[i]]
    BY LenProperties
<1>2. \A i \in 1..Len(seq) : seq[i] \in Items(seq) /\ seq[i] \in S
    BY <1>1, ElementOfSeq DEF Items
<1>3. seq \in [1..Len(seq) -> Items(seq)]
    <2> DEFINE I == Items(seq)
    <2> HIDE DEF I
    <2> QED BY <1>1, <1>2 DEF I
<1>4. seq \in Seq(Items(seq))
    BY <1>1, <1>3, SeqDef
<1> QED BY <1>1, <1>2, <1>4 DEF Items

\* Two sequences with no items in common, one after the other
LEMMA Joined ==
    ASSUME NEW S, NEW a \in Seq(S), NEW b \in Seq(S), NoRepeat(a), NoRepeat(b), Items(a) \cap Items(b) = {}
    PROVE  /\ a \o b \in Seq(S) /\ Len(a \o b) = Len(a) + Len(b) /\ NoRepeat(a \o b)
           /\ Items(a \o b) = Items(a) \cup Items(b)
<1> DEFINE c == a \o b
           k == Len(a)
           l == Len(b)
<1>1. /\ c \in Seq(S) /\ Len(c) = k + l
      /\ \A i \in 1..(k + l) : c[i] = IF i <= k THEN a[i] ELSE b[i - k]
    BY ConcatProperties
<1>2. k \in Nat /\ l \in Nat /\ DOMAIN a = 1..k /\ DOMAIN b = 1..l
    BY LenProperties
<1> HIDE DEF c
<1>3. DOMAIN c = 1..(k + l)
    BY <1>1, LenProperties
<1> HIDE DEF k, l
<1>4. \A i \in 1..(k + l) : (i <= k /\ i \in 1..k /\ c[i] = a[i]) \/ (~(i <= k) /\ i - k \in 1..l /\ c[i] = b[i - k])
    BY <1>1, <1>2
<1>5. \A i \in 1..k : i \in 1..(k + l) /\ i <= k
    BY <1>2
<1>6. \A i \in 1..l : i + k \in 1..(k + l) /\ ~(i + k <= k) /\ (i + k) - k = i
    BY <1>2
<1>7. \A i \in 1..k : a[i] \in Items(a)
    BY <1>2 DEF Items
<1>8. \A i \in 1..l : b[i] \in Items(b)
    BY <1>2 DEF Items
<1>9. \A x \in Items(c) : x \in Items(a) \cup Items(b)
    <2> SUFFICES ASSUME NEW i \in 1..(k + l) PROVE c[i] \in Items(a) \cup Items(b)
        BY <1>3 DEF Items
    <2> QED BY <1>4, <1>7, <1>8
<1>10. \A x \in Items(a) : x \in Items(c)
    <2> SUFFICES ASSUME NEW i \in 1..k PROVE a[i] \in Items(c)
        BY <1>2 DEF Items
    <2>1. c[i] = a[i] /\ i \in DOMAIN c
        BY <1>1, <1>3, <1>5
    <2> QED BY <2>1 DEF Items
<1>11. \A x \in Items(b) : x \in Items(c)
    <2> SUFFICES ASSUME NEW i \in 1..l PROVE b[i] \in Items(c)
        BY <1>2 DEF Items
    <2>1. c[i + k] = b[i] /\ i + k \in DOMAIN c
        BY <1>1, <1>3, <1>6
    <2> QED BY <2>1 DEF Items
<1>12. NoRepeat(c)
    <2> SUFFICES ASSUME NEW i \in 1..(k + l), NEW j \in 1..(k + l), c[i] = c[j] PROVE i = j
        BY <1>3 DEF NoRepeat
    <2>1. CASE i <= k /\ j <= k
        BY <1>2, <1>4, <2>1 DEF NoRepeat
    <2>2. CASE ~(i <= k) /\ ~(j <= k)
        <3>1. b[i - k] = b[j - k] /\ i - k \in 1..l /\ j - k \in 1..l
            BY <1>4, <2>2
        <3>2. i - k = j - k
            <4> DEFINE x == i - k
                       y == j - k
            <4>1. b[x] = b[y] /\ x \in 1..l /\ y \in 1..l
                BY <3>1
            <4> HIDE DEF x, y
            <4>2. x = y
                BY <1>2, <4>1 DEF NoRepeat
            <4> QED BY <4>2 DEF x, y
        <3> QED BY <1>2, <3>2
    <2>3. CASE i <= k /\ ~(j <= k)
        BY <1>4, <1>7, <1>8, <2>3
    <2>4. CASE ~(i <= k) /\ j <= k
        BY <1>4, <1>7, <1>8, <2>4
    <2> QED BY <2>1, <2>2, <2>3, <2>4
<1>13. Items(c) = Items(a) \cup Items(b)
    BY <1>9, <1>10, <1>11
<1> QED BY <1>1, <1>12, <1>13 DEF c, k, l

\* The length of two sequences joined.
LEMMA LenOfJoined == ASSUME NEW S, NEW a \in Seq(S), NEW b \in Seq(S) PROVE Len(a \o b) = Len(a) + Len(b)
BY ConcatProperties

\* What is at each place of two sequences joined.
LEMMA AtJoined ==
    ASSUME NEW S, NEW a \in Seq(S), NEW b \in Seq(S)
    PROVE  a \o b \in Seq(S) /\ \A i \in 1..(Len(a) + Len(b)) : (a \o b)[i] = IF i <= Len(a) THEN a[i] ELSE b[i - Len(a)]
BY ConcatProperties

-----------------------------------------------------------------------------
(* Pools *)

\* The n maps of a veto are n different ones.
LEMMA MapsArePool ==
    ASSUME NEW n \in Nat
    PROVE  Maps(n) \in Seq(Items(Maps(n))) /\ NoRepeat(Maps(n)) /\ Len(Maps(n)) = n
<1> DEFINE S == {<<"map", i>> : i \in 1..n}
<1>1. \A i \in 1..n : <<"map", i>> \in S
    OBVIOUS
<1> HIDE DEF S
<1>2. Maps(n) \in [1..n -> S]
    BY <1>1 DEF Maps
<1>3. Maps(n) \in Seq(S) /\ Len(Maps(n)) = n
    BY <1>2, IsSeq
<1>4. NoRepeat(Maps(n))
    BY DEF Maps, NoRepeat
<1> QED BY <1>3, <1>4, OwnItems

\* Every kind of room
Rooms == {<<"mid", i>> : i \in 1..12} \cup {<<"start", i>> : i \in 1..4}
         \cup {SideKey(map, side) : map \in {1, 3}, side \in {"ct", "t"}}

\* The mid rooms are twelve different ones.
LEMMA MidRooms ==
    /\ MidPool \in Seq(Rooms) /\ NoRepeat(MidPool) /\ Len(MidPool) = 12 /\ Items(MidPool) = {<<"mid", i>> : i \in 1..12}
<1>1. DOMAIN MidPool = 1..12 /\ \A i \in 1..12 : MidPool[i] = <<"mid", i>> /\ MidPool[i] \in Rooms
    BY DEF MidPool, Rooms
<1>2. MidPool \in [1..12 -> Rooms]
    BY <1>1 DEF MidPool
<1>3. MidPool \in Seq(Rooms) /\ Len(MidPool) = 12
    BY <1>2, IsSeq
<1>4. NoRepeat(MidPool)
    BY <1>1 DEF NoRepeat
<1>5. Items(MidPool) = {<<"mid", i>> : i \in 1..12}
    BY <1>1 DEF Items
<1> QED BY <1>3, <1>4, <1>5

\* The start rooms are four different ones.
LEMMA StartRooms ==
    /\ StartPool \in Seq(Rooms) /\ NoRepeat(StartPool) /\ Len(StartPool) = 4
    /\ Items(StartPool) = {<<"start", i>> : i \in 1..4}
<1>1. DOMAIN StartPool = 1..4 /\ \A i \in 1..4 : StartPool[i] = <<"start", i>> /\ StartPool[i] \in Rooms
    BY DEF StartPool, Rooms
<1>2. StartPool \in [1..4 -> Rooms]
    BY <1>1 DEF StartPool
<1>3. StartPool \in Seq(Rooms) /\ Len(StartPool) = 4
    BY <1>2, IsSeq
<1>4. NoRepeat(StartPool)
    BY <1>1 DEF NoRepeat
<1>5. Items(StartPool) = {<<"start", i>> : i \in 1..4}
    BY <1>1 DEF Items
<1> QED BY <1>3, <1>4, <1>5

\* The two keys of the side veto of a map are different.
LEMMA SideKeys ==
    ASSUME NEW map \in {1, 3}
    PROVE  /\ PhasePool(map, "side") \in Seq(Rooms) /\ NoRepeat(PhasePool(map, "side")) /\ Len(PhasePool(map, "side")) = 2
           /\ Items(PhasePool(map, "side")) = {SideKey(map, "ct"), SideKey(map, "t")}
<1> DEFINE p == PhasePool(map, "side")
           x == SideKey(map, "ct")
           y == SideKey(map, "t")
<1>1. x \in Rooms /\ y \in Rooms /\ x # y
    BY DEF Rooms, SideKey
<1>2. p = <<x, y>>
    BY DEF PhasePool
<1> HIDE DEF p, x, y
<1>3. Len(p) = 2 /\ DOMAIN p = 1..2 /\ p[1] = x /\ p[2] = y /\ p = [i \in 1..2 |-> p[i]]
    BY <1>2
<1>4. \A i \in 1..2 : i = 1 \/ i = 2
    OBVIOUS
<1>5. p \in [1..2 -> Rooms]
    BY <1>1, <1>3, <1>4
<1>6. p \in Seq(Rooms)
    BY <1>5, IsSeq
<1>7. NoRepeat(p)
    BY <1>1, <1>3, <1>4 DEF NoRepeat
<1>8. Items(p) = {x, y}
    BY <1>3, <1>4 DEF Items
<1> QED BY <1>3, <1>6, <1>7, <1>8 DEF p, x, y

\* The kinds of rooms have nothing in common
LEMMA KindsOfRooms ==
    /\ Items(MidPool) \cap Items(StartPool) = {}
    /\ \A map \in {1, 3} : /\ Items(PhasePool(map, "side")) \cap Items(MidPool) = {}
                           /\ Items(PhasePool(map, "side")) \cap Items(StartPool) = {}
    /\ Items(PhasePool(1, "side")) \cap Items(PhasePool(3, "side")) = {}
<1>1. \A i, j : <<"mid", i>> # <<"start", j>>
    OBVIOUS
<1>2. \A i, j, k : <<"side", i, j>> # <<"mid", k>> /\ <<"side", i, j>> # <<"start", k>>
    OBVIOUS
<1>3. \A i, j : <<"side", 1, i>> # <<"side", 3, j>>
    OBVIOUS
<1>4. Items(MidPool) \cap Items(StartPool) = {}
    BY <1>1, MidRooms, StartRooms
<1>5. ASSUME NEW map \in {1, 3}
      PROVE  /\ Items(PhasePool(map, "side")) \cap Items(MidPool) = {}
             /\ Items(PhasePool(map, "side")) \cap Items(StartPool) = {}
    BY <1>2, MidRooms, StartRooms, SideKeys DEF SideKey
<1>6. Items(PhasePool(1, "side")) \cap Items(PhasePool(3, "side")) = {}
    <2>1. /\ Items(PhasePool(1, "side")) = {SideKey(1, "ct"), SideKey(1, "t")}
          /\ Items(PhasePool(3, "side")) = {SideKey(3, "ct"), SideKey(3, "t")}
        BY SideKeys
    <2>2. \A i, j : SideKey(1, i) # SideKey(3, j)
        BY <1>3 DEF SideKey
    <2>3. {SideKey(1, "ct"), SideKey(1, "t")} \cap {SideKey(3, "ct"), SideKey(3, "t")} = {}
        BY <2>2
    <2> QED BY <2>1, <2>3, Zenon
<1> QED BY <1>4, <1>5, <1>6

\* The pool of a veto of rooms: the mid and the start rooms, none twice.
LEMMA RoomPool ==
    LET pool == MidPool \o StartPool
    IN  /\ pool \in Seq(Items(pool)) /\ NoRepeat(pool) /\ Len(pool) = 16
        /\ Items(pool) = Items(MidPool) \cup Items(StartPool)
<1> DEFINE pool == MidPool \o StartPool
<1>1. /\ pool \in Seq(Rooms) /\ Len(pool) = 12 + 4 /\ NoRepeat(pool)
      /\ Items(pool) = Items(MidPool) \cup Items(StartPool)
    <2>1. Items(MidPool) \cap Items(StartPool) = {}
        BY KindsOfRooms
    <2>2. Len(pool) = Len(MidPool) + Len(StartPool)
        BY <2>1, MidRooms, StartRooms, LenOfJoined
    <2>3. pool \in Seq(Rooms) /\ NoRepeat(pool) /\ Items(pool) = Items(MidPool) \cup Items(StartPool)
        BY <2>1, MidRooms, StartRooms, Joined
    <2> QED BY <2>2, <2>3, MidRooms, StartRooms
<1> HIDE DEF pool
<1>2. pool \in Seq(Items(pool))
    BY <1>1, OwnItems
<1> QED BY <1>1, <1>2 DEF pool

\* The pool of a veto of a series: the side keys of maps 1 and 3 and the
\* rooms, none twice.
LEMMA SeriesPool ==
    LET pool == PhasePool(1, "side") \o MidPool \o StartPool \o PhasePool(3, "side")
    IN  /\ pool \in Seq(Items(pool)) /\ NoRepeat(pool) /\ Len(pool) = 20
        /\ Items(pool) = Items(MidPool) \cup Items(StartPool) \cup Items(PhasePool(1, "side")) \cup Items(PhasePool(3, "side"))
<1> DEFINE a == PhasePool(1, "side")
           d == PhasePool(3, "side")
           ab == a \o MidPool
           abc == ab \o StartPool
           pool == abc \o d
<1>1. /\ a \in Seq(Rooms) /\ NoRepeat(a) /\ Len(a) = 2 /\ d \in Seq(Rooms) /\ NoRepeat(d) /\ Len(d) = 2
      /\ Items(a) \cap Items(MidPool) = {} /\ Items(a) \cap Items(StartPool) = {} /\ Items(a) \cap Items(d) = {}
      /\ Items(d) \cap Items(MidPool) = {} /\ Items(d) \cap Items(StartPool) = {}
    BY SideKeys, KindsOfRooms
<1> HIDE DEF a, d
<1>2. ab \in Seq(Rooms) /\ Len(ab) = 14 /\ NoRepeat(ab) /\ Items(ab) = Items(a) \cup Items(MidPool)
    <2>2. Len(ab) = Len(a) + Len(MidPool)
        BY <1>1, MidRooms, LenOfJoined
    <2>3. ab \in Seq(Rooms) /\ NoRepeat(ab) /\ Items(ab) = Items(a) \cup Items(MidPool)
        BY <1>1, MidRooms, Joined
    <2> HIDE DEF ab
    <2> QED BY <1>1, <2>2, <2>3, MidRooms
<1> HIDE DEF ab
<1>3. abc \in Seq(Rooms) /\ Len(abc) = 18 /\ NoRepeat(abc) /\ Items(abc) = Items(a) \cup Items(MidPool) \cup Items(StartPool)
    <2>1. Items(ab) \cap Items(StartPool) = {}
        BY <1>1, <1>2, KindsOfRooms
    <2>2. Len(abc) = Len(ab) + Len(StartPool)
        BY <1>2, <2>1, StartRooms, LenOfJoined
    <2>3. abc \in Seq(Rooms) /\ NoRepeat(abc) /\ Items(abc) = Items(ab) \cup Items(StartPool)
        BY <1>2, <2>1, StartRooms, Joined
    <2> HIDE DEF abc
    <2> QED BY <1>2, <2>2, <2>3, StartRooms
<1> HIDE DEF abc
<1>4. pool \in Seq(Rooms) /\ Len(pool) = 20 /\ NoRepeat(pool) /\ Items(pool) = Items(abc) \cup Items(d)
    <2>1. Items(abc) \cap Items(d) = {}
        BY <1>1, <1>3
    <2>2. Len(pool) = Len(abc) + Len(d)
        BY <1>1, <1>3, <2>1, LenOfJoined
    <2>3. pool \in Seq(Rooms) /\ NoRepeat(pool) /\ Items(pool) = Items(abc) \cup Items(d)
        BY <1>1, <1>3, <2>1, Joined
    <2> HIDE DEF pool
    <2> QED BY <1>1, <1>3, <2>2, <2>3
<1> HIDE DEF pool
<1>5. pool \in Seq(Items(pool))
    BY <1>4, OwnItems
<1>6. Items(pool) = Items(MidPool) \cup Items(StartPool) \cup Items(a) \cup Items(d)
    BY <1>3, <1>4
<1> QED BY <1>4, <1>5, <1>6 DEF pool, abc, ab, a, d

\* Whose turn the i-th step is when the teams alternate.
InTurn(i, first) == IF i % 2 = 1 THEN first ELSE OtherSide(first)

\* The steps Alternate builds: the actions in their order, the teams in turn.
LEMMA TurnsAlternate ==
    ASSUME NEW actions \in Seq(Acts), NEW first \in {1, 2}, NEW phase \in Nat
    PROVE  /\ Alternate(actions, first, phase) \in Steps /\ Len(Alternate(actions, first, phase)) = Len(actions)
           /\ \A i \in 1..Len(actions) :
                  Alternate(actions, first, phase)[i] = VetoStep(actions[i], InTurn(i, first), phase)
<1> DEFINE A == Alternate(actions, first, phase)
           n == Len(actions)
           T == [action : Acts, team : {1, 2}, phase : Nat]
<1>1. n \in Nat /\ DOMAIN actions = 1..n /\ \A i \in 1..n : actions[i] \in Acts
    BY LenProperties, ElementOfSeq
<1>2. A = [i \in 1..n |-> VetoStep(actions[i], InTurn(i, first), phase)]
    BY <1>1 DEF Alternate, InTurn
<1>3. \A i \in 1..n : VetoStep(actions[i], InTurn(i, first), phase) \in T
    <2>1. \A i \in 1..n : InTurn(i, first) \in {1, 2}
        BY DEF InTurn, OtherSide
    <2> QED BY <1>1, <2>1 DEF VetoStep
<1> HIDE DEF n, A, T
<1>4. A \in [1..n -> T]
    BY <1>2, <1>3
<1>5. A \in Seq(T) /\ Len(A) = n
    BY <1>1, <1>4, IsSeq
<1> QED BY <1>2, <1>5 DEF A, n, T, Steps

\* Bans in turn
LEMMA Bo1Begins ==
    ASSUME NEW n \in Nat, n > 1, NEW first \in {1, 2}
    PROVE  /\ BanToNSteps(n, 1, first) \in Steps /\ Len(BanToNSteps(n, 1, first)) = n - 1
           /\ \A i \in 1..(n - 1) : BanToNSteps(n, 1, first)[i] = VetoStep("ban", InTurn(i, first), 0)
<1> DEFINE bans == [i \in 1..(n - 1) |-> "ban"]
<1>1. n - 1 \in Nat
    OBVIOUS
<1>2. bans \in [1..(n - 1) -> Acts]
    BY DEF Acts
<1>3. bans \in Seq(Acts) /\ Len(bans) = n - 1
    <2> HIDE DEF bans
    <2> QED BY <1>1, <1>2, IsSeq
<1>4. BanToNSteps(n, 1, first) = Alternate(bans, first, 0)
    BY DEF BanToNSteps
<1>5. \A i \in 1..(n - 1) : bans[i] = "ban"
    OBVIOUS
<1> HIDE DEF bans
<1> QED BY <1>3, <1>4, <1>5, TurnsAlternate

\* Two bans, two picks and as many of two more bans as leave a map
LEMMA Bo3Begins ==
    ASSUME NEW n \in Nat, n >= 5, NEW first \in {1, 2}
    PROVE  /\ Bo3Steps(n, first) \in Steps /\ Len(Bo3Steps(n, first)) = IF n <= 7 THEN n - 1 ELSE 6
           /\ \A i \in 1..Len(Bo3Steps(n, first)) :
                  Bo3Steps(n, first)[i] = VetoStep(IF i \in {3, 4} THEN "pick" ELSE "ban", InTurn(i, first), 0)
<1> DEFINE count == IF n - 1 < 6 THEN n - 1 ELSE 6
           sub == SubSeq(PickBanActions, 1, count)
<1>1. Len(PickBanActions) = 6 /\ \A i \in 1..6 : PickBanActions[i] = IF i \in {3, 4} THEN "pick" ELSE "ban"
    BY DEF PickBanActions
<1>2. count \in Nat /\ count <= 6 /\ count = IF n <= 7 THEN n - 1 ELSE 6
    OBVIOUS
<1>3. Bo3Steps(n, first) = Alternate(sub, first, 0)
    BY <1>1 DEF Bo3Steps
<1>4. sub = [i \in 1..count |-> PickBanActions[i]]
    <2> HIDE DEF count
    <2>1. \A i \in 1..count : i \in 1..6
        BY <1>2
    <2>2. \A i \in 1..count : PickBanActions[i] \in Acts
        BY <1>1, <2>1 DEF Acts
    <2>3. /\ sub \in Seq(Acts) /\ Len(sub) = IF 1 <= count THEN count - 1 + 1 ELSE 0
          /\ \A i \in 1..(count - 1 + 1) : sub[i] = PickBanActions[1 + i - 1]
        BY <1>2, <2>2, SubSeqProperties
    <2>4. count - 1 + 1 = count /\ \A i \in 1..count : 1 + i - 1 = i
        BY <1>2
    <2>5. Len(sub) = count
        BY <1>2, <2>3
    <2> HIDE DEF sub
    <2>6. sub = [i \in 1..count |-> sub[i]]
        BY <2>3, <2>5, LenProperties
    <2>7. \A i \in 1..count : sub[i] = PickBanActions[i]
        BY <2>3, <2>4
    <2> QED BY <2>6, <2>7
<1> HIDE DEF sub, count
<1>5. \A i \in 1..count : sub[i] = IF i \in {3, 4} THEN "pick" ELSE "ban"
    BY <1>1, <1>2, <1>4
<1>6. sub \in [1..count -> Acts]
    BY <1>4, <1>5 DEF Acts
<1>7. sub \in Seq(Acts) /\ Len(sub) = count
    BY <1>2, <1>6, IsSeq
<1> QED BY <1>2, <1>3, <1>5, <1>7, TurnsAlternate

\* Eight bans and picks of mid rooms, three bans of start rooms
LEMMA RoomsBegin ==
    ASSUME NEW first \in {1, 2}
    PROVE  /\ RoomVetoSteps(first) \in Steps /\ Len(RoomVetoSteps(first)) = 11
           /\ \A i \in 1..11 :
                  RoomVetoSteps(first)[i]
                      = VetoStep(IF i \in {3, 4, 7, 8} THEN "pick" ELSE "ban", InTurn(i, first), IF i <= 8 THEN 1 ELSE 2)
<1> DEFINE mid == PhaseActions(RoomFormat[1])
           starts == PhaseActions(RoomFormat[2])
           actions == mid \o starts
           eight == <<"ban", "ban", "pick", "pick", "ban", "ban", "pick", "pick">>
           none == [i \in 1..0 |-> "ban"]
           three == [i \in 1..3 |-> "ban"]
<1>1. mid = eight \o none
    BY DEF PhaseActions, RoomFormat
<1>2. starts = <<>> \o three
    <2>1. Len(StartPool) - 1 - 0 = 3
        BY StartRooms
    <2>2. Len(<<>>) = 0
        OBVIOUS
    <2> QED BY <2>1, <2>2 DEF PhaseActions, RoomFormat
<1>3. none = <<>> /\ none \in Seq(Acts)
    <2>1. none \in [1..0 -> Acts] /\ 0 \in Nat
        OBVIOUS
    <2> HIDE DEF none
    <2>2. none \in Seq(Acts) /\ Len(none) = 0
        BY <2>1, IsSeq
    <2> QED BY <2>2, EmptySeq
<1>4. three \in Seq(Acts) /\ Len(three) = 3
    <2>1. three \in [1..3 -> Acts] /\ 3 \in Nat
        BY DEF Acts
    <2> HIDE DEF three
    <2> QED BY <2>1, IsSeq
<1>5. /\ eight \in Seq(Acts) /\ Len(eight) = 8
      /\ \A i \in 1..8 : eight[i] = IF i \in {3, 4, 7, 8} THEN "pick" ELSE "ban"
    <2>1. /\ Len(eight) = 8 /\ DOMAIN eight = 1..8 /\ eight = [i \in 1..8 |-> eight[i]]
          /\ eight[1] = "ban" /\ eight[2] = "ban" /\ eight[3] = "pick" /\ eight[4] = "pick"
          /\ eight[5] = "ban" /\ eight[6] = "ban" /\ eight[7] = "pick" /\ eight[8] = "pick"
        OBVIOUS
    <2> HIDE DEF eight
    <2>2. \A i \in 1..8 : i = 1 \/ i = 2 \/ i = 3 \/ i = 4 \/ i = 5 \/ i = 6 \/ i = 7 \/ i = 8
        OBVIOUS
    <2>3. \A i \in 1..8 : eight[i] = IF i \in {3, 4, 7, 8} THEN "pick" ELSE "ban"
        BY <2>1, <2>2
    <2>4. eight \in [1..8 -> Acts]
        BY <2>1, <2>3 DEF Acts
    <2> QED BY <2>1, <2>3, <2>4, IsSeq
<1>6. \A i \in 1..3 : three[i] = "ban"
    OBVIOUS
<1> HIDE DEF eight, none, three, mid, starts
<1>7. mid = eight
    BY <1>1, <1>3, <1>5, ConcatEmptySeq
<1>8. starts = three
    BY <1>2, <1>4, ConcatEmptySeq
<1>9. /\ actions \in Seq(Acts) /\ Len(actions) = 8 + 3
      /\ \A i \in 1..(8 + 3) : actions[i] = IF i <= 8 THEN eight[i] ELSE three[i - 8]
    <2>1. Len(eight \o three) = Len(eight) + Len(three)
        BY <1>4, <1>5, LenOfJoined
    <2>2. /\ eight \o three \in Seq(Acts)
          /\ \A i \in 1..(Len(eight) + Len(three)) : (eight \o three)[i] = IF i <= Len(eight) THEN eight[i] ELSE three[i - Len(eight)]
        BY <1>4, <1>5, AtJoined
    <2> QED BY <1>4, <1>5, <1>7, <1>8, <2>1, <2>2
<1> HIDE DEF actions
<1>10. Len(actions) = 11 /\ DOMAIN actions = 1..11 /\ \A i \in 1..11 : actions[i] = IF i \in {3, 4, 7, 8} THEN "pick" ELSE "ban"
    <2>1. DOMAIN actions = 1..Len(actions)
        BY <1>9, LenProperties
    <2>2. \A i \in 1..11 : (i <= 8 /\ i \in 1..8) \/ (~(i <= 8) /\ i - 8 \in 1..3 /\ i \notin {3, 4, 7, 8})
        OBVIOUS
    <2> QED BY <1>5, <1>6, <1>9, <2>1, <2>2
<1> DEFINE steps == [i \in 1..11 |-> VetoStep(actions[i], InTurn(i, first), IF i <= 8 THEN 1 ELSE 2)]
           A == Alternate(actions, first, 1)
           T == [action : Acts, team : {1, 2}, phase : Nat]
<1>11. \A i \in 1..11 : A[i] = VetoStep(actions[i], InTurn(i, first), 1) /\ A[i] \in T
    <2>1. /\ A \in Steps /\ Len(A) = 11
          /\ \A i \in 1..11 : A[i] = VetoStep(actions[i], InTurn(i, first), 1)
        <3> DEFINE p == 1
                   k == Len(actions)
        <3>1. p \in Nat /\ k = 11 /\ actions \in Seq(Acts)
            BY <1>9, <1>10
        <3> HIDE DEF p
        <3>2. /\ Alternate(actions, first, p) \in Steps /\ Len(Alternate(actions, first, p)) = k
              /\ \A i \in 1..k : Alternate(actions, first, p)[i] = VetoStep(actions[i], InTurn(i, first), p)
            BY <3>1, TurnsAlternate
        <3> HIDE DEF k
        <3> QED BY <3>1, <3>2 DEF p
    <2> HIDE DEF A
    <2> QED BY <2>1, ElementOfSeq DEF Steps
<1>12. RoomVetoSteps(first) = steps
    <2>1. RoomVetoSteps(first) = [i \in 1..11 |-> [A[i] EXCEPT !.phase = IF i <= 8 THEN 1 ELSE 2]]
        BY <1>5, <1>7, <1>10 DEF RoomVetoSteps, mid, starts, actions
    <2>2. \A i \in 1..11 : [A[i] EXCEPT !.phase = IF i <= 8 THEN 1 ELSE 2]
                               = VetoStep(actions[i], InTurn(i, first), IF i <= 8 THEN 1 ELSE 2)
        <3> HIDE DEF A
        <3> QED BY <1>11 DEF VetoStep
    <2> HIDE DEF A
    <2> QED BY <2>1, <2>2
<1>13. \A i \in 1..11 : steps[i] \in T
    <2>1. \A i \in 1..11 : actions[i] \in Acts /\ InTurn(i, first) \in {1, 2}
        BY <1>10 DEF InTurn, OtherSide, Acts
    <2> QED BY <2>1 DEF VetoStep
<1>14. steps \in Seq(T) /\ Len(steps) = 11
    <2>1. steps \in [1..11 -> T]
        <3> HIDE DEF T
        <3> QED BY <1>13
    <2> DEFINE k == 11
    <2>2. k \in Nat /\ steps \in [1..k -> T]
        BY <2>1
    <2> HIDE DEF steps, T, k
    <2>3. steps \in Seq(T) /\ Len(steps) = k
        BY <2>2, IsSeq
    <2> QED BY <2>3 DEF k
<1> HIDE DEF A
<1> QED BY <1>10, <1>12, <1>14 DEF Steps

\* The eight phases of a series, one by one.
LEMMA PhasesAre ==
    /\ DOMAIN SeriesPhases = 1..8
    /\ SeriesPhases[1] = <<1, "side">>
    /\ SeriesPhases[2] = <<1, "mid">>
    /\ SeriesPhases[3] = <<1, "start">>
    /\ SeriesPhases[4] = <<2, "mid">>
    /\ SeriesPhases[5] = <<2, "start">>
    /\ SeriesPhases[6] = <<3, "side">>
    /\ SeriesPhases[7] = <<3, "mid">>
    /\ SeriesPhases[8] = <<3, "start">>
BY DEF SeriesPhases

\* Each phase is of one map and kind
LEMMA PhaseIs ==
    /\ PhaseAt(1, "side") = {1}
    /\ PhaseAt(1, "mid") = {2}
    /\ PhaseAt(1, "start") = {3}
    /\ PhaseAt(2, "mid") = {4}
    /\ PhaseAt(2, "start") = {5}
    /\ PhaseAt(3, "side") = {6}
    /\ PhaseAt(3, "mid") = {7}
    /\ PhaseAt(3, "start") = {8}
    /\ PhaseAt(2, "side") = {}
<1> DEFINE P(f, m, k) == SeriesPhases[f] = <<m, k>>
<1>1. \A m, k : PhaseAt(m, k) = {f \in 1..8 : P(f, m, k)}
    BY PhasesAre DEF PhaseAt
<1>2. \A f \in 1..8 : f = 1 \/ f = 2 \/ f = 3 \/ f = 4 \/ f = 5 \/ f = 6 \/ f = 7 \/ f = 8
    OBVIOUS
<1>3. \A f \in 1..8 : P(f, 1, "side") <=> f = 1
    BY <1>2, PhasesAre
<1>4. \A f \in 1..8 : P(f, 1, "mid") <=> f = 2
    BY <1>2, PhasesAre
<1>5. \A f \in 1..8 : P(f, 1, "start") <=> f = 3
    BY <1>2, PhasesAre
<1>6. \A f \in 1..8 : P(f, 2, "mid") <=> f = 4
    BY <1>2, PhasesAre
<1>7. \A f \in 1..8 : P(f, 2, "start") <=> f = 5
    BY <1>2, PhasesAre
<1>8. \A f \in 1..8 : P(f, 3, "side") <=> f = 6
    BY <1>2, PhasesAre
<1>9. \A f \in 1..8 : P(f, 3, "mid") <=> f = 7
    BY <1>2, PhasesAre
<1>10. \A f \in 1..8 : P(f, 3, "start") <=> f = 8
    BY <1>2, PhasesAre
<1>11. \A f \in 1..8 : ~P(f, 2, "side")
    BY <1>2, PhasesAre
<1> HIDE DEF P
<1>12. PhaseAt(1, "side") = {1}
    BY <1>1, <1>3
<1>13. PhaseAt(1, "mid") = {2}
    BY <1>1, <1>4
<1>14. PhaseAt(1, "start") = {3}
    BY <1>1, <1>5
<1>15. PhaseAt(2, "mid") = {4}
    BY <1>1, <1>6
<1>16. PhaseAt(2, "start") = {5}
    BY <1>1, <1>7
<1>17. PhaseAt(3, "side") = {6}
    BY <1>1, <1>8
<1>18. PhaseAt(3, "mid") = {7}
    BY <1>1, <1>9
<1>19. PhaseAt(3, "start") = {8}
    BY <1>1, <1>10
<1>20. PhaseAt(2, "side") = {}
    BY <1>1, <1>11
<1> QED BY <1>12, <1>13, <1>14, <1>15, <1>16, <1>17, <1>18, <1>19, <1>20

\* The fifteen steps of a series, one by one.
LEMMA RolesAre ==
    /\ DOMAIN SeriesSteps = 1..15
    /\ SeriesSteps[1] = <<1, "side", "second">>
    /\ SeriesSteps[2] = <<1, "mid", "first">>
    /\ SeriesSteps[3] = <<1, "mid", "second">>
    /\ SeriesSteps[4] = <<1, "mid", "first">>
    /\ SeriesSteps[5] = <<1, "mid", "second">>
    /\ SeriesSteps[6] = <<1, "start", "second">>
    /\ SeriesSteps[7] = <<2, "mid", "second">>
    /\ SeriesSteps[8] = <<2, "mid", "first">>
    /\ SeriesSteps[9] = <<2, "mid", "second">>
    /\ SeriesSteps[10] = <<2, "mid", "first">>
    /\ SeriesSteps[11] = <<2, "start", "first">>
    /\ SeriesSteps[12] = <<3, "side", "flipWinner">>
    /\ SeriesSteps[13] = <<3, "mid", "flipLoser">>
    /\ SeriesSteps[14] = <<3, "mid", "flipLoser">>
    /\ SeriesSteps[15] = <<3, "start", "flipWinner">>
BY DEF SeriesSteps

\* The steps of a series
StepsOfSeries(steps, first, flip) ==
    /\ DOMAIN steps = 1..15
    /\ steps[1] = VetoStep("side", OtherSide(first), 1)
    /\ steps[2] = VetoStep("pick", first, 2)
    /\ steps[3] = VetoStep("pick", OtherSide(first), 2)
    /\ steps[4] = VetoStep("pick", first, 2)
    /\ steps[5] = VetoStep("pick", OtherSide(first), 2)
    /\ steps[6] = VetoStep("pick", OtherSide(first), 3)
    /\ steps[7] = VetoStep("pick", OtherSide(first), 4)
    /\ steps[8] = VetoStep("pick", first, 4)
    /\ steps[9] = VetoStep("pick", OtherSide(first), 4)
    /\ steps[10] = VetoStep("pick", first, 4)
    /\ steps[11] = VetoStep("pick", first, 5)
    /\ steps[12] = VetoStep("side", flip, 6)
    /\ steps[13] = VetoStep("pick", OtherSide(flip), 7)
    /\ steps[14] = VetoStep("pick", OtherSide(flip), 7)
    /\ steps[15] = VetoStep("pick", flip, 8)

\* The steps of the series that `first` begins and `flip` won the toss of.
SeriesStepsFor(first, flip) == CreateSeriesRoomVeto(VetoTeams(1), first, flip).steps

\* A series has fifteen steps, each of the team its role stands for.
LEMMA SeriesBegins ==
    ASSUME NEW first \in {1, 2}, NEW flip \in {1, 2}
    PROVE  /\ SeriesStepsFor(first, flip) \in Steps /\ Len(SeriesStepsFor(first, flip)) = 15
           /\ StepsOfSeries(SeriesStepsFor(first, flip), first, flip)
<1> DEFINE steps == SeriesStepsFor(first, flip)
           A(k) == IF k = "side" THEN "side" ELSE "pick"
           R(r) == RoleTeam(r, first, flip)
           F(m, k) == CHOOSE f \in PhaseAt(m, k) : TRUE
           T == [action : Acts, team : {1, 2}, phase : Nat]
<1>1. steps = [i \in 1..15 |-> VetoStep(A(SeriesSteps[i][2]), R(SeriesSteps[i][3]), F(SeriesSteps[i][1], SeriesSteps[i][2]))]
    BY RolesAre DEF SeriesStepsFor, CreateSeriesRoomVeto, CreateVeto
<1>2. /\ A("side") = "side" /\ A("mid") = "pick" /\ A("start") = "pick"
      /\ R("first") = first /\ R("second") = OtherSide(first) /\ R("flipWinner") = flip /\ R("flipLoser") = OtherSide(flip)
    BY DEF RoleTeam
<1>3. \A x : (CHOOSE f \in {x} : TRUE) = x
    OBVIOUS
<1>4. /\ F(1, "side") = 1
      /\ F(1, "mid") = 2
      /\ F(1, "start") = 3
      /\ F(2, "mid") = 4
      /\ F(2, "start") = 5
      /\ F(3, "side") = 6
      /\ F(3, "mid") = 7
      /\ F(3, "start") = 8
    BY <1>3, PhaseIs
<1> HIDE DEF steps, A, R, F
<1>5. steps[1] = VetoStep("side", OtherSide(first), 1) /\ steps[1] \in T
    <2>1. SeriesSteps[1][1] = 1 /\ SeriesSteps[1][2] = "side" /\ SeriesSteps[1][3] = "second" /\ 1 \in 1..15
        BY RolesAre
    <2> QED BY <1>1, <1>2, <1>4, <2>1 DEF VetoStep, OtherSide, Acts
<1>6. steps[2] = VetoStep("pick", first, 2) /\ steps[2] \in T
    <2>1. SeriesSteps[2][1] = 1 /\ SeriesSteps[2][2] = "mid" /\ SeriesSteps[2][3] = "first" /\ 2 \in 1..15
        BY RolesAre
    <2> QED BY <1>1, <1>2, <1>4, <2>1 DEF VetoStep, OtherSide, Acts
<1>7. steps[3] = VetoStep("pick", OtherSide(first), 2) /\ steps[3] \in T
    <2>1. SeriesSteps[3][1] = 1 /\ SeriesSteps[3][2] = "mid" /\ SeriesSteps[3][3] = "second" /\ 3 \in 1..15
        BY RolesAre
    <2> QED BY <1>1, <1>2, <1>4, <2>1 DEF VetoStep, OtherSide, Acts
<1>8. steps[4] = VetoStep("pick", first, 2) /\ steps[4] \in T
    <2>1. SeriesSteps[4][1] = 1 /\ SeriesSteps[4][2] = "mid" /\ SeriesSteps[4][3] = "first" /\ 4 \in 1..15
        BY RolesAre
    <2> QED BY <1>1, <1>2, <1>4, <2>1 DEF VetoStep, OtherSide, Acts
<1>9. steps[5] = VetoStep("pick", OtherSide(first), 2) /\ steps[5] \in T
    <2>1. SeriesSteps[5][1] = 1 /\ SeriesSteps[5][2] = "mid" /\ SeriesSteps[5][3] = "second" /\ 5 \in 1..15
        BY RolesAre
    <2> QED BY <1>1, <1>2, <1>4, <2>1 DEF VetoStep, OtherSide, Acts
<1>10. steps[6] = VetoStep("pick", OtherSide(first), 3) /\ steps[6] \in T
    <2>1. SeriesSteps[6][1] = 1 /\ SeriesSteps[6][2] = "start" /\ SeriesSteps[6][3] = "second" /\ 6 \in 1..15
        BY RolesAre
    <2> QED BY <1>1, <1>2, <1>4, <2>1 DEF VetoStep, OtherSide, Acts
<1>11. steps[7] = VetoStep("pick", OtherSide(first), 4) /\ steps[7] \in T
    <2>1. SeriesSteps[7][1] = 2 /\ SeriesSteps[7][2] = "mid" /\ SeriesSteps[7][3] = "second" /\ 7 \in 1..15
        BY RolesAre
    <2> QED BY <1>1, <1>2, <1>4, <2>1 DEF VetoStep, OtherSide, Acts
<1>12. steps[8] = VetoStep("pick", first, 4) /\ steps[8] \in T
    <2>1. SeriesSteps[8][1] = 2 /\ SeriesSteps[8][2] = "mid" /\ SeriesSteps[8][3] = "first" /\ 8 \in 1..15
        BY RolesAre
    <2> QED BY <1>1, <1>2, <1>4, <2>1 DEF VetoStep, OtherSide, Acts
<1>13. steps[9] = VetoStep("pick", OtherSide(first), 4) /\ steps[9] \in T
    <2>1. SeriesSteps[9][1] = 2 /\ SeriesSteps[9][2] = "mid" /\ SeriesSteps[9][3] = "second" /\ 9 \in 1..15
        BY RolesAre
    <2> QED BY <1>1, <1>2, <1>4, <2>1 DEF VetoStep, OtherSide, Acts
<1>14. steps[10] = VetoStep("pick", first, 4) /\ steps[10] \in T
    <2>1. SeriesSteps[10][1] = 2 /\ SeriesSteps[10][2] = "mid" /\ SeriesSteps[10][3] = "first" /\ 10 \in 1..15
        BY RolesAre
    <2> QED BY <1>1, <1>2, <1>4, <2>1 DEF VetoStep, OtherSide, Acts
<1>15. steps[11] = VetoStep("pick", first, 5) /\ steps[11] \in T
    <2>1. SeriesSteps[11][1] = 2 /\ SeriesSteps[11][2] = "start" /\ SeriesSteps[11][3] = "first" /\ 11 \in 1..15
        BY RolesAre
    <2> QED BY <1>1, <1>2, <1>4, <2>1 DEF VetoStep, OtherSide, Acts
<1>16. steps[12] = VetoStep("side", flip, 6) /\ steps[12] \in T
    <2>1. SeriesSteps[12][1] = 3 /\ SeriesSteps[12][2] = "side" /\ SeriesSteps[12][3] = "flipWinner" /\ 12 \in 1..15
        BY RolesAre
    <2> QED BY <1>1, <1>2, <1>4, <2>1 DEF VetoStep, OtherSide, Acts
<1>17. steps[13] = VetoStep("pick", OtherSide(flip), 7) /\ steps[13] \in T
    <2>1. SeriesSteps[13][1] = 3 /\ SeriesSteps[13][2] = "mid" /\ SeriesSteps[13][3] = "flipLoser" /\ 13 \in 1..15
        BY RolesAre
    <2> QED BY <1>1, <1>2, <1>4, <2>1 DEF VetoStep, OtherSide, Acts
<1>18. steps[14] = VetoStep("pick", OtherSide(flip), 7) /\ steps[14] \in T
    <2>1. SeriesSteps[14][1] = 3 /\ SeriesSteps[14][2] = "mid" /\ SeriesSteps[14][3] = "flipLoser" /\ 14 \in 1..15
        BY RolesAre
    <2> QED BY <1>1, <1>2, <1>4, <2>1 DEF VetoStep, OtherSide, Acts
<1>19. steps[15] = VetoStep("pick", flip, 8) /\ steps[15] \in T
    <2>1. SeriesSteps[15][1] = 3 /\ SeriesSteps[15][2] = "start" /\ SeriesSteps[15][3] = "flipWinner" /\ 15 \in 1..15
        BY RolesAre
    <2> QED BY <1>1, <1>2, <1>4, <2>1 DEF VetoStep, OtherSide, Acts
<1>20. DOMAIN steps = 1..15
    BY <1>1
<1>21. \A i \in 1..15 : i = 1 \/ i = 2 \/ i = 3 \/ i = 4 \/ i = 5 \/ i = 6 \/ i = 7 \/ i = 8 \/ i = 9 \/ i = 10 \/ i = 11 \/ i = 12 \/ i = 13 \/ i = 14 \/ i = 15
    OBVIOUS
<1>22. \A i \in 1..15 : steps[i] \in T
    <2> HIDE DEF T
    <2> QED BY <1>5, <1>6, <1>7, <1>8, <1>9, <1>10, <1>11, <1>12, <1>13, <1>14, <1>15, <1>16, <1>17, <1>18, <1>19, <1>20, <1>21
<1>23. steps \in Seq(T) /\ Len(steps) = 15
    <2> DEFINE k == 15
    <2>1. k \in Nat /\ steps \in [1..k -> T]
        <3>1. steps = [i \in 1..15 |-> steps[i]]
            BY <1>1
        <3> HIDE DEF T
        <3> QED BY <1>22, <3>1
    <2> HIDE DEF T, k
    <2>2. steps \in Seq(T) /\ Len(steps) = k
        BY <2>1, IsSeq
    <2> QED BY <2>2 DEF k
<1> HIDE DEF T
<1> QED BY <1>5, <1>6, <1>7, <1>8, <1>9, <1>10, <1>11, <1>12, <1>13, <1>14, <1>15, <1>16, <1>17, <1>18, <1>19, <1>20, <1>21, <1>23 DEF StepsOfSeries, Steps, T, steps

\* What each phase of a series draws from.
LEMMA PhasePools ==
    LET phases == [f \in DOMAIN SeriesPhases |-> [pool |-> PhasePool(SeriesPhases[f][1], SeriesPhases[f][2])]]
    IN  /\ phases[1].pool = PhasePool(1, "side") /\ phases[6].pool = PhasePool(3, "side")
        /\ \A f \in {2, 4, 7} : phases[f].pool = MidPool
        /\ \A f \in {3, 5, 8} : phases[f].pool = StartPool
<1>1. \A m : PhasePool(m, "mid") = MidPool /\ PhasePool(m, "start") = StartPool
    BY DEF PhasePool
<1> DEFINE P(m, k) == PhasePool(m, k)
           phases == [f \in 1..8 |-> [pool |-> P(SeriesPhases[f][1], SeriesPhases[f][2])]]
<1>2. \A f \in 1..8 : phases[f].pool = P(SeriesPhases[f][1], SeriesPhases[f][2])
    OBVIOUS
<1> HIDE DEF P, phases
<1>3. /\ SeriesPhases[1][1] = 1 /\ SeriesPhases[1][2] = "side" /\ 1 \in 1..8
      /\ SeriesPhases[2][1] = 1 /\ SeriesPhases[2][2] = "mid" /\ 2 \in 1..8
      /\ SeriesPhases[3][1] = 1 /\ SeriesPhases[3][2] = "start" /\ 3 \in 1..8
      /\ SeriesPhases[4][1] = 2 /\ SeriesPhases[4][2] = "mid" /\ 4 \in 1..8
      /\ SeriesPhases[5][1] = 2 /\ SeriesPhases[5][2] = "start" /\ 5 \in 1..8
      /\ SeriesPhases[6][1] = 3 /\ SeriesPhases[6][2] = "side" /\ 6 \in 1..8
      /\ SeriesPhases[7][1] = 3 /\ SeriesPhases[7][2] = "mid" /\ 7 \in 1..8
      /\ SeriesPhases[8][1] = 3 /\ SeriesPhases[8][2] = "start" /\ 8 \in 1..8
    BY PhasesAre
<1>4. /\ phases[1].pool = P(1, "side")
      /\ phases[2].pool = P(1, "mid")
      /\ phases[3].pool = P(1, "start")
      /\ phases[4].pool = P(2, "mid")
      /\ phases[5].pool = P(2, "start")
      /\ phases[6].pool = P(3, "side")
      /\ phases[7].pool = P(3, "mid")
      /\ phases[8].pool = P(3, "start")
    BY <1>2, <1>3
<1>5. phases = [f \in DOMAIN SeriesPhases |-> [pool |-> PhasePool(SeriesPhases[f][1], SeriesPhases[f][2])]]
    BY PhasesAre DEF phases, P
<1>6. /\ phases[1].pool = PhasePool(1, "side") /\ phases[6].pool = PhasePool(3, "side")
      /\ \A f \in {2, 4, 7} : phases[f].pool = MidPool
      /\ \A f \in {3, 5, 8} : phases[f].pool = StartPool
    BY <1>1, <1>4 DEF P
<1> QED BY <1>5, <1>6

-----------------------------------------------------------------------------
(***************************************************************************)
(* A veto of maps that is done                                             *)
(***************************************************************************)

\* A veto that is done has an entry for each step, of maps that differ, and what is left is no one's
DoneFacts(s, pool, V, R) ==
    /\ s.history \in Seq(Entries(V, R)) /\ s.available \in Seq(R) /\ s.maps = MapsOf(s.history, "pick") \o s.available
    /\ s.stepIndex = Len(s.steps) /\ Len(s.history) = Len(s.steps) /\ Len(s.steps) \in Nat
    /\ DOMAIN s.history = 1..Len(s.steps)
    /\ \A i \in 1..Len(s.steps) :
           /\ s.history[i].step = i /\ s.history[i].action = s.steps[i].action /\ s.history[i].team = s.steps[i].team
           /\ s.history[i].mapId \in Items(pool) /\ s.history[i].mapId \notin Items(s.available)
           /\ s.steps[i].phase # 0 => s.history[i].mapId \in Items(s.phases[s.steps[i].phase].pool)
    /\ \A i, j \in 1..Len(s.steps) : i # j => s.history[i].mapId # s.history[j].mapId
    /\ NoRepeat(s.available) /\ Len(s.available) = Len(pool) - Len(s.steps)
    /\ \A m \in Items(pool) : m \in Items(s.available) \/ \E i \in 1..Len(s.steps) : m = s.history[i].mapId
    /\ Items(s.available) \subseteq Items(pool)

\* What the invariant of a veto says of one that is done.
LEMMA DoneVeto ==
    ASSUME NEW V, NEW R, NEW pool \in Seq(R), NEW s, VetoInv(s, pool, V, R), s.done
    PROVE  DoneFacts(s, pool, V, R)
<1> DEFINE n == Len(s.steps)
<1>1. /\ s.steps \in Steps /\ s.history \in Seq(Entries(V, R)) /\ s.available \in Seq(R) /\ s.stepIndex \in Nat
    BY DEF VetoInv, VetoStates
<1>2. n \in Nat
    BY <1>1, LenProperties DEF Steps
<1>3. /\ Len(s.history) = s.stepIndex /\ s.stepIndex <= n /\ s.stepIndex >= n
      /\ \A i \in 1..s.stepIndex : EntryFits(s, pool, i)
      /\ NoRepeat(s.available) /\ Items(s.available) = Items(pool) \ Drawn(s)
      /\ Len(s.available) = Len(pool) - s.stepIndex
      /\ s.maps = MapsOf(s.history, "pick") \o s.available
    BY DEF VetoInv
<1> HIDE DEF n
<1>4. s.stepIndex = n
    BY <1>1, <1>2, <1>3
<1>5. DOMAIN s.history = 1..n
    BY <1>1, <1>3, <1>4, LenProperties
<1>6. Drawn(s) = {s.history[i].mapId : i \in 1..n}
    BY <1>5 DEF Drawn
<1>7. ASSUME NEW i \in 1..n
      PROVE  /\ s.history[i].step = i /\ s.history[i].action = s.steps[i].action /\ s.history[i].team = s.steps[i].team
             /\ s.history[i].mapId \in Items(pool) /\ s.history[i].mapId \notin Items(s.available)
             /\ s.steps[i].phase # 0 => s.history[i].mapId \in Items(s.phases[s.steps[i].phase].pool)
             /\ \A j \in 1..(i - 1) : s.history[i].mapId # s.history[j].mapId
    <2>1. EntryFits(s, pool, i)
        BY <1>3, <1>4
    <2>2. s.history[i].mapId \notin Items(s.available)
        BY <1>3, <1>6
    <2> QED BY <2>1, <2>2 DEF EntryFits
<1>8. ASSUME NEW i \in 1..n, NEW j \in 1..n, i # j PROVE s.history[i].mapId # s.history[j].mapId
    <2>1. CASE i < j
        <3>1. i \in 1..(j - 1)
            BY <2>1
        <3> QED BY <1>7, <3>1
    <2>2. CASE j < i
        <3>1. j \in 1..(i - 1)
            BY <2>2
        <3> QED BY <1>7, <3>1
    <2> QED BY <1>8, <2>1, <2>2
<1>9. \A m \in Items(pool) : m \in Items(s.available) \/ \E i \in 1..n : m = s.history[i].mapId
    BY <1>3, <1>6
<1>10. Items(s.available) \subseteq Items(pool)
    BY <1>3
<1> QED BY <1>1, <1>2, <1>3, <1>4, <1>5, <1>7, <1>8, <1>9, <1>10 DEF n, DoneFacts

\* The maps of none, of one and of two entries
LEMMA MapsOfEntries ==
    ASSUME NEW x, NEW y
    PROVE  /\ [i \in DOMAIN <<>> |-> <<>>[i].mapId] = <<>>
           /\ [i \in DOMAIN <<x>> |-> <<x>>[i].mapId] = <<x.mapId>>
           /\ [i \in DOMAIN <<x, y>> |-> <<x, y>>[i].mapId] = <<x.mapId, y.mapId>>
<1>1. [i \in DOMAIN <<>> |-> <<>>[i].mapId] = <<>>
    OBVIOUS
<1>2. [i \in DOMAIN <<x>> |-> <<x>>[i].mapId] = <<x.mapId>>
    <2> DEFINE r == <<x>>
               q == <<x.mapId>>
    <2>1. DOMAIN r = 1..1 /\ r[1] = x /\ DOMAIN q = 1..1 /\ q[1] = x.mapId /\ q = [i \in 1..1 |-> q[i]]
        OBVIOUS
    <2> HIDE DEF r, q
    <2>2. \A i \in 1..1 : r[i].mapId = q[i]
        <3>1. \A i \in 1..1 : i = 1
            OBVIOUS
        <3> QED BY <2>1, <3>1
    <2>3. [i \in DOMAIN r |-> r[i].mapId] = q
        BY <2>1, <2>2
    <2> QED BY <2>3 DEF r, q
<1>3. [i \in DOMAIN <<x, y>> |-> <<x, y>>[i].mapId] = <<x.mapId, y.mapId>>
    <2> DEFINE r == <<x, y>>
               q == <<x.mapId, y.mapId>>
    <2>1. /\ DOMAIN r = 1..2 /\ r[1] = x /\ r[2] = y
          /\ DOMAIN q = 1..2 /\ q[1] = x.mapId /\ q[2] = y.mapId /\ q = [i \in 1..2 |-> q[i]]
        OBVIOUS
    <2> HIDE DEF r, q
    <2>2. \A i \in 1..2 : r[i].mapId = q[i]
        <3>1. \A i \in 1..2 : i = 1 \/ i = 2
            OBVIOUS
        <3> QED BY <2>1, <3>1
    <2>3. [i \in DOMAIN r |-> r[i].mapId] = q
        BY <2>1, <2>2
    <2> QED BY <2>3 DEF r, q
<1> QED BY <1>1, <1>2, <1>3

\* One map is left of bans in turn
LEMMA OneMapLeft ==
    ASSUME NEW V, NEW n \in Nat, n > 1, NEW first \in {1, 2}, NEW s, VetoInv(s, Maps(n), V, Items(Maps(n))),
           s.steps = BanToNSteps(n, 1, first), s.done
    PROVE  Len(s.maps) = 1
<1> DEFINE R == Items(Maps(n))
           h == s.history
           pool == Maps(n)
<1>1. pool \in Seq(R) /\ Len(pool) = n
    BY MapsArePool
<1>2. Len(s.steps) = n - 1 /\ \A i \in 1..(n - 1) : s.steps[i].action = "ban"
    <2>1. \A t : VetoStep("ban", t, 0).action = "ban"
        BY DEF VetoStep
    <2>2. /\ Len(BanToNSteps(n, 1, first)) = n - 1
          /\ \A i \in 1..(n - 1) : BanToNSteps(n, 1, first)[i] = VetoStep("ban", InTurn(i, first), 0)
        BY Bo1Begins
    <2> QED BY <2>1, <2>2
<1> HIDE DEF R, pool
<1>3. VetoInv(s, pool, V, R)
    BY DEF R, pool
<1>4. /\ h \in Seq(Entries(V, R)) /\ s.available \in Seq(R) /\ s.maps = MapsOf(h, "pick") \o s.available
      /\ DOMAIN h = 1..(n - 1) /\ \A i \in 1..(n - 1) : h[i].action = "ban"
      /\ Len(s.available) = n - (n - 1)
    <2>1. /\ h \in Seq(Entries(V, R)) /\ s.available \in Seq(R) /\ s.maps = MapsOf(h, "pick") \o s.available
          /\ DOMAIN h = 1..Len(s.steps) /\ Len(s.available) = Len(pool) - Len(s.steps)
          /\ \A i \in 1..Len(s.steps) : h[i].action = s.steps[i].action
        <3>1. DoneFacts(s, pool, V, R)
            BY <1>1, <1>3, DoneVeto
        <3> QED BY <3>1 DEF DoneFacts
    <2> QED BY <1>1, <1>2, <2>1
<1> HIDE DEF h
<1>5. {i \in DOMAIN h : h[i].action = "pick"} = {}
    BY <1>4
<1>6. MapsOf(h, "pick") = <<>>
    <2>1. AtPlaces(h, {i \in DOMAIN h : h[i].action = "pick"}) = <<>>
        <3> DEFINE P == {i \in DOMAIN h : h[i].action = "pick"}
        <3> HIDE DEF P
        <3>1. P \cap DOMAIN h = {}
            BY <1>5 DEF P
        <3>2. AtPlaces(h, P) = <<>>
            BY <1>4, <3>1, AtNone
        <3> QED BY <3>2 DEF P
    <2> QED BY <2>1, MapsOfEntries DEF MapsOf
<1>7. s.maps = s.available
    BY <1>4, <1>6, ConcatEmptySeq
<1>8. Len(s.available) = 1
    BY <1>4
<1> QED BY <1>7, <1>8

\* Two picks and what is left
LEMMA ThreeMapsLeft ==
    ASSUME NEW V, NEW n \in Nat, n >= 5, NEW first \in {1, 2}, NEW s, VetoInv(s, Maps(n), V, Items(Maps(n))),
           s.steps = Bo3Steps(n, first), s.done
    PROVE  /\ Len(s.maps) >= 3 /\ SubSeq(s.maps, 1, 2) = MapsOf(s.history, "pick")
           /\ Len(s.history) + Len(s.available) <= 7 => Len(s.maps) = 3
           /\ Items(s.maps) \cap Items(MapsOf(s.history, "ban")) = {}
<1> DEFINE R == Items(Maps(n))
           h == s.history
           pool == Maps(n)
           k == IF n <= 7 THEN n - 1 ELSE 6
           A(i) == IF i \in {3, 4} THEN "pick" ELSE "ban"
           P == {i \in DOMAIN h : h[i].action = "pick"}
           B == {i \in DOMAIN h : h[i].action = "ban"}
<1>1. pool \in Seq(R) /\ Len(pool) = n
    BY MapsArePool
<1>2. Len(s.steps) = k /\ \A i \in 1..k : s.steps[i].action = A(i)
    <2>1. \A a, t : VetoStep(a, t, 0).action = a
        BY DEF VetoStep
    <2>2. /\ Len(Bo3Steps(n, first)) = k
          /\ \A i \in 1..k : Bo3Steps(n, first)[i] = VetoStep(A(i), InTurn(i, first), 0)
        <3>1. /\ Len(Bo3Steps(n, first)) = IF n <= 7 THEN n - 1 ELSE 6
              /\ \A i \in 1..Len(Bo3Steps(n, first)) :
                     Bo3Steps(n, first)[i] = VetoStep(IF i \in {3, 4} THEN "pick" ELSE "ban", InTurn(i, first), 0)
            BY Bo3Begins
        <3>2. Len(Bo3Steps(n, first)) = k
            BY <3>1
        <3> HIDE DEF k
        <3> QED BY <3>1, <3>2
    <2> HIDE DEF A, k
    <2> QED BY <2>1, <2>2
<1>3. k \in Nat /\ k >= 4 /\ k <= n - 1 /\ (n <= 7 => k = n - 1)
    OBVIOUS
<1> HIDE DEF R, pool, k, A
<1>4. VetoInv(s, pool, V, R)
    BY DEF R, pool
<1>5. /\ h \in Seq(Entries(V, R)) /\ s.available \in Seq(R) /\ s.maps = MapsOf(h, "pick") \o s.available
      /\ DOMAIN h = 1..k /\ Len(h) = k /\ Len(s.available) = n - k
      /\ \A i \in 1..k : h[i].action = A(i) /\ h[i].mapId \notin Items(s.available)
      /\ \A i, j \in 1..k : i # j => h[i].mapId # h[j].mapId
    <2>1. /\ h \in Seq(Entries(V, R)) /\ s.available \in Seq(R) /\ s.maps = MapsOf(h, "pick") \o s.available
          /\ DOMAIN h = 1..Len(s.steps) /\ Len(h) = Len(s.steps) /\ Len(s.available) = Len(pool) - Len(s.steps)
          /\ \A i \in 1..Len(s.steps) : h[i].action = s.steps[i].action /\ h[i].mapId \notin Items(s.available)
          /\ \A i, j \in 1..Len(s.steps) : i # j => h[i].mapId # h[j].mapId
        <3>1. DoneFacts(s, pool, V, R)
            BY <1>1, <1>4, DoneVeto
        <3> QED BY <3>1 DEF DoneFacts
    <2> QED BY <1>1, <1>2, <2>1
<1>0. h \in Seq(Entries(V, R)) /\ DOMAIN h = 1..k
    BY <1>5
<1> HIDE DEF h
<1>6. P \cap DOMAIN h = {3, 4} /\ 3 \in 1..k /\ 4 \in 1..k
    BY <1>3, <1>5 DEF A
<1>7. B \cap P = {} /\ B \subseteq 1..k /\ P = {3, 4}
    BY <1>5, <1>6
<1> DEFINE x == h[3].mapId
           y == h[4].mapId
<1>8. MapsOf(h, "pick") = <<x, y>>
    <2>1. MapsOf(h, "pick") = [i \in DOMAIN AtPlaces(h, P) |-> AtPlaces(h, P)[i].mapId]
        BY DEF MapsOf
    <2> HIDE DEF P
    <2>2. AtPlaces(h, P) = <<h[3], h[4]>>
        <3> DEFINE a == 3
                   b == 4
        <3>1. a \in DOMAIN h /\ b \in DOMAIN h /\ a < b /\ \A i \in DOMAIN h : i \in P <=> i = a \/ i = b
            BY <1>0, <1>6, <1>7
        <3> HIDE DEF a, b
        <3>2. AtPlaces(h, P) = <<h[a], h[b]>>
            BY <1>0, <3>1, AtTwo
        <3> QED BY <3>2 DEF a, b
    <2> QED BY <2>1, <2>2, MapsOfEntries
<1>9. /\ Items(MapsOf(h, "ban")) = {h[i].mapId : i \in B}
    <2> DEFINE r == AtPlaces(h, B)
    <2>1. MapsOf(h, "ban") = [i \in DOMAIN r |-> r[i].mapId]
        BY DEF MapsOf
    <2>2. Items(r) = {h[i] : i \in DOMAIN h \cap B}
        <3> HIDE DEF B
        <3> QED BY <1>0, AtPlacesFacts
    <2> HIDE DEF r
    <2>3. Items(MapsOf(h, "ban")) = {e.mapId : e \in Items(r)}
        BY <2>1 DEF Items
    <2>4. DOMAIN h \cap B = B
        OBVIOUS
    <2> HIDE DEF B
    <2> QED BY <2>2, <2>3, <2>4
<1> HIDE DEF P, B
<1> DEFINE picks == <<x, y>>
           a == s.available
<1>10. picks \in Seq(R) /\ Len(picks) = 2 /\ picks[1] = x /\ picks[2] = y
    <2>1. x \in R /\ y \in R
        <3>1. h[3] \in Entries(V, R) /\ h[4] \in Entries(V, R)
            BY <1>5, <1>6, ElementOfSeq
        <3> QED BY <3>1 DEF Entries
    <2> HIDE DEF x, y
    <2>2. DOMAIN picks = 1..2 /\ picks[1] = x /\ picks[2] = y /\ picks = [i \in 1..2 |-> picks[i]]
        OBVIOUS
    <2> DEFINE two == 2
    <2>3. picks \in [1..two -> R] /\ two \in Nat
        <3>1. \A i \in 1..2 : i = 1 \/ i = 2
            OBVIOUS
        <3> HIDE DEF picks
        <3> QED BY <2>1, <2>2, <3>1
    <2> HIDE DEF picks, two
    <2>4. picks \in Seq(R) /\ Len(picks) = two
        BY <2>3, IsSeq
    <2> QED BY <2>2, <2>4 DEF two
<1>11. a \in Seq(R) /\ Len(a) = n - k /\ n - k >= 1 /\ n - k \in Nat
    BY <1>3, <1>5
<1>12. s.maps = picks \o a
    BY <1>5, <1>8
<1>13. x \in {h[i].mapId : i \in P} /\ y \in {h[i].mapId : i \in P}
    BY <1>7
<1>14. \A m \in {h[i].mapId : i \in B} : m # x /\ m # y /\ m \notin Items(a)
    <2> SUFFICES ASSUME NEW i \in B PROVE h[i].mapId # x /\ h[i].mapId # y /\ h[i].mapId \notin Items(a)
        OBVIOUS
    <2>1. i \in 1..k /\ i # 3 /\ i # 4
        BY <1>7
    <2> QED BY <1>5, <1>6, <2>1
<1> HIDE DEF picks, a, x, y
<1>15. /\ Len(picks \o a) = 2 + (n - k)
       /\ \A i \in 1..(2 + (n - k)) : (picks \o a)[i] = IF i <= 2 THEN picks[i] ELSE a[i - 2]
       /\ picks \o a \in Seq(R)
    <2>1. Len(picks \o a) = Len(picks) + Len(a)
        <3>1. picks \in Seq(R) /\ a \in Seq(R)
            BY <1>10, <1>11
        <3> QED BY <3>1, LenOfJoined
    <2>2. /\ picks \o a \in Seq(R)
          /\ \A i \in 1..(Len(picks) + Len(a)) : (picks \o a)[i] = IF i <= Len(picks) THEN picks[i] ELSE a[i - Len(picks)]
        BY <1>10, <1>11, AtJoined
    <2> QED BY <1>10, <1>11, <2>1, <2>2
<1> DEFINE maps == picks \o a
           L == n - k
<1> HIDE DEF maps, L
<1>16. /\ Len(maps) = 2 + L /\ L \in Nat /\ L >= 1 /\ DOMAIN maps = 1..(2 + L) /\ DOMAIN a = 1..L /\ s.maps = maps
       /\ \A i \in 1..(2 + L) : maps[i] = IF i <= 2 THEN picks[i] ELSE a[i - 2]
    <2>1. DOMAIN maps = 1..Len(maps) /\ DOMAIN a = 1..Len(a)
        BY <1>11, <1>15, LenProperties DEF maps
    <2> QED BY <1>11, <1>12, <1>15, <2>1 DEF maps, L
<1>17. \A m \in Items(maps) : m = x \/ m = y \/ m \in Items(a)
    <2> SUFFICES ASSUME NEW i \in 1..(2 + L) PROVE maps[i] = x \/ maps[i] = y \/ maps[i] \in Items(a)
        BY <1>16 DEF Items
    <2>1. CASE i <= 2
        <3>1. i = 1 \/ i = 2
            BY <2>1
        <3> QED BY <1>10, <1>16, <2>1, <3>1
    <2>2. CASE ~(i <= 2)
        <3>1. i - 2 \in 1..L /\ maps[i] = a[i - 2]
            BY <1>16, <2>2
        <3> QED BY <1>16, <3>1 DEF Items
    <2> QED BY <2>1, <2>2
<1>18. SubSeq(maps, 1, 2) = <<x, y>>
    <2>1. maps[1] = x /\ maps[2] = y /\ 1 \in 1..(2 + L) /\ 2 \in 1..(2 + L)
        BY <1>10, <1>16
    <2>2. SubSeq(maps, 1, 2) = <<maps[1], maps[2]>>
        <3> DEFINE q == SubSeq(maps, 1, 2)
                   two == 2
                   one == 1
        <3>1. one \in Int /\ two \in Int /\ \A i \in one..two : maps[i] \in {maps[1], maps[2]}
            OBVIOUS
        <3> HIDE DEF two, one
        <3>2. /\ SubSeq(maps, one, two) \in Seq({maps[1], maps[2]})
              /\ Len(SubSeq(maps, one, two)) = IF one <= two THEN two - one + 1 ELSE 0
              /\ \A i \in 1..(two - one + 1) : SubSeq(maps, one, two)[i] = maps[one + i - 1]
            BY <3>1, SubSeqProperties
        <3>3. q \in Seq({maps[1], maps[2]}) /\ Len(q) = 2 /\ q[1] = maps[1] /\ q[2] = maps[2]
            BY <3>2 DEF one, two
        <3> HIDE DEF q
        <3>4. DOMAIN q = 1..2 /\ q = [i \in 1..2 |-> q[i]]
            BY <3>3, LenProperties
        <3> DEFINE r == <<maps[1], maps[2]>>
        <3>5. DOMAIN r = 1..2 /\ r[1] = maps[1] /\ r[2] = maps[2] /\ r = [i \in 1..2 |-> r[i]]
            OBVIOUS
        <3> HIDE DEF r
        <3>6. \A i \in 1..2 : q[i] = r[i]
            <4>1. \A i \in 1..2 : i = 1 \/ i = 2
                OBVIOUS
            <4> QED BY <3>3, <3>5, <4>1
        <3>7. q = r
            BY <3>4, <3>5, <3>6
        <3> QED BY <3>7 DEF q, r
    <2> QED BY <2>1, <2>2
<1>19. Items(s.maps) \cap Items(MapsOf(s.history, "ban")) = {}
    BY <1>9, <1>14, <1>16, <1>17 DEF h
<1>20. SubSeq(s.maps, 1, 2) = MapsOf(s.history, "pick")
    BY <1>8, <1>16, <1>18 DEF h
<1>21. Len(s.maps) >= 3 /\ (Len(s.history) + Len(s.available) <= 7 => Len(s.maps) = 3)
    <2>1. Len(s.history) + Len(s.available) = n
        BY <1>3, <1>5 DEF h
    <2>2. n <= 7 => L = 1
        BY <1>3 DEF L
    <2>3. Len(s.maps) = 2 + L /\ L \in Nat /\ L >= 1
        BY <1>16
    <2> DEFINE m == Len(s.maps)
               t == Len(s.history) + Len(s.available)
    <2>4. m = 2 + L /\ t = n
        BY <2>1, <2>3
    <2> HIDE DEF m, t
    <2>5. m >= 3 /\ (t <= 7 => m = 3)
        BY <2>2, <2>3, <2>4
    <2> QED BY <2>5 DEF m, t
<1> QED BY <1>19, <1>20, <1>21

-----------------------------------------------------------------------------
(***************************************************************************)
(* A veto of rooms that is done                                            *)
(***************************************************************************)

\* A start between four mid rooms that differ and the castles is a path for the game server
LEMMA PathIsValid ==
    ASSUME NEW path, path[0] = Castle.t, path[6] = Castle.ct, path[3] \in Items(StartPool),
           \A k \in {1, 2, 4, 5} : path[k] \in Items(MidPool),
           \A k, l \in {1, 2, 4, 5} : path[k] = path[l] => k = l
    PROVE  ValidPath(path)
<1> DEFINE I == {path[slot] : slot \in Slot}
           f == [slot \in Slot |-> path[slot]]
<1>1. \A slot \in Slot : slot = 0 \/ slot = 6 \/ slot = 3 \/ slot \in {1, 2, 4, 5}
    BY DEF Slot
<1>2. /\ path[0] = <<"castle", 1>> /\ path[6] = <<"castle", 2>>
      /\ \E i \in 1..4 : path[3] = <<"start", i>>
      /\ \A k \in {1, 2, 4, 5} : \E i \in 1..12 : path[k] = <<"mid", i>>
    <2>1. Castle.t = <<"castle", 1>> /\ Castle.ct = <<"castle", 2>>
        BY DEF Castle
    <2> QED BY <2>1, MidRooms, StartRooms
<1>3. \A i, j : <<"castle", i>> # <<"start", j>> /\ <<"castle", i>> # <<"mid", j>> /\ <<"start", i>> # <<"mid", j>>
    OBVIOUS
<1>4. <<"castle", 1>> # <<"castle", 2>>
    OBVIOUS
<1>5. /\ path[0] # path[6] /\ path[0] # path[3] /\ path[6] # path[3]
      /\ \A k \in {1, 2, 4, 5} : path[k] # path[0] /\ path[k] # path[6] /\ path[k] # path[3]
    BY <1>2, <1>3, <1>4
<1>6. \A k, l \in Slot : path[k] = path[l] => k = l
    BY <1>1, <1>5
<1>7. f \in Bijection(Slot, I)
    <2>1. f \in [Slot -> I] /\ \A k \in Slot : f[k] = path[k]
        OBVIOUS
    <2>2. \A x \in I : \E k \in Slot : f[k] = x
        OBVIOUS
    <2> HIDE DEF f, I
    <2>3. \A k, l \in Slot : f[k] = f[l] => k = l
        BY <1>6, <2>1
    <2> QED BY <2>1, <2>2, <2>3 DEF Bijection, Injection, Surjection, IsInjective
<1>8. IsFiniteSet(Slot)
    <2> DEFINE a == 0
               b == 6
    <2>1. a \in Int /\ b \in Int /\ Slot = a..b
        BY DEF Slot
    <2> HIDE DEF a, b
    <2>2. IsFiniteSet(a..b)
        BY <2>1, FS_Interval
    <2> QED BY <2>1, <2>2
<1>9. ExistsBijection(Slot, I)
    BY <1>7 DEF ExistsBijection
<1> HIDE DEF I
<1>10. Cardinality(I) = Cardinality(Slot)
    BY <1>8, <1>9, FS_Bijection
<1>11. \A slot \in Slot \ {3, 0, 6} : slot \in {1, 2, 4, 5}
    BY <1>1
<1>12. StartSlot = 3 /\ CastleSlot.t = 0 /\ CastleSlot.ct = 6
    BY DEF StartSlot, CastleSlot
<1> QED BY <1>10, <1>11, <1>12 DEF ValidPath, I

\* Four different things are not three
LEMMA FourAmongThree ==
    ASSUME NEW a, NEW b, NEW c, NEW d, NEW x, NEW y, NEW z, a # b, a # c, a # d, b # c, b # d, c # d,
           a \in {x, y, z}, b \in {x, y, z}, c \in {x, y, z}, d \in {x, y, z}
    PROVE  FALSE
OBVIOUS

\* The steps of a phase in which a team picks
PickPlaces(s, phase, team) ==
    {i \in DOMAIN s.steps : s.steps[i].action = "pick" /\ s.steps[i].team = team /\ s.steps[i].phase = phase}

\* In a veto that is done they are the picks
LEMMA PicksAre ==
    ASSUME NEW V, NEW R, NEW pool \in Seq(R), NEW s, VetoInv(s, pool, V, R), s.done, NEW phase, NEW team
    PROVE  PicksOf(s, phase, team)
               = [i \in DOMAIN AtPlaces(s.history, PickPlaces(s, phase, team)) |->
                     AtPlaces(s.history, PickPlaces(s, phase, team))[i].mapId]
<1> DEFINE h == s.history
           P == {i \in DOMAIN h : h[i].action = "pick" /\ h[i].team = team /\ s.steps[h[i].step].phase = phase}
<1>1. DoneFacts(s, pool, V, R) /\ s.steps \in Steps
    BY DoneVeto DEF VetoInv, VetoStates
<1>2. /\ DOMAIN h = 1..Len(s.steps) /\ DOMAIN s.steps = 1..Len(s.steps)
      /\ \A i \in 1..Len(s.steps) : h[i].step = i /\ h[i].action = s.steps[i].action /\ h[i].team = s.steps[i].team
    <2>1. DOMAIN s.steps = 1..Len(s.steps)
        BY <1>1, LenProperties DEF Steps
    <2> QED BY <1>1, <2>1 DEF DoneFacts
<1> HIDE DEF h
<1>3. P = PickPlaces(s, phase, team)
    BY <1>2 DEF PickPlaces
<1>4. PicksOf(s, phase, team) = [i \in DOMAIN AtPlaces(h, P) |-> AtPlaces(h, P)[i].mapId]
    BY DEF PicksOf, h
<1> HIDE DEF P
<1> QED BY <1>3, <1>4 DEF h

\* They are the places a and b
TwoPlaces(s, phase, team, a, b) == \A i \in DOMAIN s.steps : i \in PickPlaces(s, phase, team) <=> i = a \/ i = b

\* The picks of a team with two pick steps in a phase are what those steps drew.
LEMMA TwoPicks ==
    ASSUME NEW V, NEW R, NEW pool \in Seq(R), NEW s, VetoInv(s, pool, V, R), s.done, NEW phase, NEW team,
           NEW a \in 1..Len(s.steps), NEW b \in 1..Len(s.steps), a < b,
           TwoPlaces(s, phase, team, a, b)
    PROVE  PicksOf(s, phase, team) = <<s.history[a].mapId, s.history[b].mapId>>
<1> DEFINE P == PickPlaces(s, phase, team)
<1>1. DoneFacts(s, pool, V, R) /\ s.steps \in Steps
    BY DoneVeto DEF VetoInv, VetoStates
<1>2. DOMAIN s.history = 1..Len(s.steps) /\ DOMAIN s.steps = 1..Len(s.steps) /\ s.history \in Seq(Entries(V, R))
    BY <1>1, LenProperties DEF DoneFacts, Steps
<1>3. PicksOf(s, phase, team) = [i \in DOMAIN AtPlaces(s.history, P) |-> AtPlaces(s.history, P)[i].mapId]
    BY PicksAre
<1> HIDE DEF P
<1>4. AtPlaces(s.history, P) = <<s.history[a], s.history[b]>>
    <2>1. a \in DOMAIN s.history /\ b \in DOMAIN s.history /\ \A i \in DOMAIN s.history : i \in P <=> i = a \/ i = b
        BY <1>2 DEF P, TwoPlaces
    <2>2. s.history \in Seq(Entries(V, R))
        BY <1>2
    <2> QED BY <2>1, <2>2, AtTwo
<1> QED BY <1>3, <1>4, MapsOfEntries

\* It is the place a, or there is none
OnePlace(s, phase, team, a) == \A i \in DOMAIN s.steps : i \in PickPlaces(s, phase, team) <=> i = a
\* The team has no pick step in the phase.
NoPlace(s, phase, team) == \A i \in DOMAIN s.steps : i \notin PickPlaces(s, phase, team)

\* The pick of a team with one pick step in a phase is what that step drew.
LEMMA OnePick ==
    ASSUME NEW V, NEW R, NEW pool \in Seq(R), NEW s, VetoInv(s, pool, V, R), s.done, NEW phase, NEW team,
           NEW a \in 1..Len(s.steps), OnePlace(s, phase, team, a)
    PROVE  PicksOf(s, phase, team) = <<s.history[a].mapId>>
<1> DEFINE P == PickPlaces(s, phase, team)
<1>1. DoneFacts(s, pool, V, R) /\ s.steps \in Steps
    BY DoneVeto DEF VetoInv, VetoStates
<1>2. DOMAIN s.history = 1..Len(s.steps) /\ DOMAIN s.steps = 1..Len(s.steps) /\ s.history \in Seq(Entries(V, R))
    BY <1>1, LenProperties DEF DoneFacts, Steps
<1>3. PicksOf(s, phase, team) = [i \in DOMAIN AtPlaces(s.history, P) |-> AtPlaces(s.history, P)[i].mapId]
    BY PicksAre
<1> HIDE DEF P
<1>4. AtPlaces(s.history, P) = <<s.history[a]>>
    <2>1. P \cap DOMAIN s.history = {a}
        BY <1>2 DEF P, OnePlace
    <2>2. s.history \in Seq(Entries(V, R))
        BY <1>2
    <2> QED BY <2>1, <2>2, AtOne
<1> QED BY <1>3, <1>4, MapsOfEntries

\* A team with no pick step in a phase has no pick.
LEMMA NoPicks ==
    ASSUME NEW V, NEW R, NEW pool \in Seq(R), NEW s, VetoInv(s, pool, V, R), s.done, NEW phase, NEW team,
           NoPlace(s, phase, team)
    PROVE  PicksOf(s, phase, team) = <<>>
<1> DEFINE P == PickPlaces(s, phase, team)
<1>1. DoneFacts(s, pool, V, R) /\ s.steps \in Steps
    BY DoneVeto DEF VetoInv, VetoStates
<1>2. DOMAIN s.history = 1..Len(s.steps) /\ DOMAIN s.steps = 1..Len(s.steps) /\ s.history \in Seq(Entries(V, R))
    BY <1>1, LenProperties DEF DoneFacts, Steps
<1>3. PicksOf(s, phase, team) = [i \in DOMAIN AtPlaces(s.history, P) |-> AtPlaces(s.history, P)[i].mapId]
    BY PicksAre
<1> HIDE DEF P
<1>4. AtPlaces(s.history, P) = <<>>
    <2>1. P \cap DOMAIN s.history = {}
        BY <1>2 DEF P, NoPlace
    <2>2. s.history \in Seq(Entries(V, R))
        BY <1>2
    <2> QED BY <2>1, <2>2, AtNone
<1> QED BY <1>3, <1>4, MapsOfEntries

\* The rooms that nobody has drawn of one kind
LEMMA LeftOfKind ==
    ASSUME NEW R, NEW kind, NEW s, s.available \in Seq(R), NoRepeat(s.available)
    PROVE  /\ LeftOf(s, kind) \in Seq(R) /\ NoRepeat(LeftOf(s, kind))
           /\ Items(LeftOf(s, kind)) = Items(s.available) \cap Items(kind)
<1> DEFINE I == Items(kind)
<1>1. LeftOf(s, kind) = Those(s.available, I)
    BY DEF LeftOf
<1> HIDE DEF I
<1>2. /\ Those(s.available, I) \in Seq(R) /\ NoRepeat(Those(s.available, I))
      /\ Items(Those(s.available, I)) = Items(s.available) \cap I
    BY ThoseFacts
<1> QED BY <1>1, <1>2 DEF I

\* The steps of the rooms of one map that pick
LEMMA RoomPicks ==
    ASSUME NEW first \in {1, 2}, NEW s, s.steps = RoomVetoSteps(first)
    PROVE  /\ TwoPlaces(s, 1, first, 3, 7) /\ TwoPlaces(s, 1, OtherSide(first), 4, 8)
           /\ \A t, i \in DOMAIN s.steps : i \notin PickPlaces(s, 2, t)
           /\ DOMAIN s.steps = 1..11 /\ Len(s.steps) = 11
           /\ \A i \in 1..8 : s.steps[i].phase = 1
           /\ \A i \in 9..11 : s.steps[i].phase = 2
<1>1. /\ s.steps \in Steps /\ Len(s.steps) = 11
      /\ \A i \in 1..11 : s.steps[i] = VetoStep(IF i \in {3, 4, 7, 8} THEN "pick" ELSE "ban", InTurn(i, first), IF i <= 8 THEN 1 ELSE 2)
    BY RoomsBegin
<1>2. DOMAIN s.steps = 1..11
    BY <1>1, LenProperties DEF Steps
<1>3. \A i \in 1..11 : /\ s.steps[i].action = IF i \in {3, 4, 7, 8} THEN "pick" ELSE "ban"
                       /\ s.steps[i].team = InTurn(i, first)
                       /\ s.steps[i].phase = IF i <= 8 THEN 1 ELSE 2
    BY <1>1 DEF VetoStep
<1>4. /\ InTurn(3, first) = first /\ InTurn(7, first) = first /\ InTurn(4, first) = OtherSide(first) /\ InTurn(8, first) = OtherSide(first)
      /\ OtherSide(first) # first
    BY DEF InTurn, OtherSide
<1>5. \A i \in 1..11 : s.steps[i].action = "pick" <=> i = 3 \/ i = 4 \/ i = 7 \/ i = 8
    BY <1>3
<1>6. /\ 3 \in 1..11 /\ 4 \in 1..11 /\ 7 \in 1..11 /\ 8 \in 1..11
      /\ s.steps[3].team = first /\ s.steps[7].team = first /\ s.steps[4].team = OtherSide(first) /\ s.steps[8].team = OtherSide(first)
      /\ s.steps[3].phase = 1 /\ s.steps[7].phase = 1 /\ s.steps[4].phase = 1 /\ s.steps[8].phase = 1
    BY <1>3, <1>4
<1>7. \A i \in 1..11 : i \in PickPlaces(s, 1, first) <=> i = 3 \/ i = 7
    BY <1>2, <1>4, <1>5, <1>6 DEF PickPlaces
<1>8. \A i \in 1..11 : i \in PickPlaces(s, 1, OtherSide(first)) <=> i = 4 \/ i = 8
    BY <1>2, <1>4, <1>5, <1>6 DEF PickPlaces
<1>9. \A t, i \in 1..11 : i \notin PickPlaces(s, 2, t)
    BY <1>2, <1>5, <1>6 DEF PickPlaces
<1>10. /\ \A i \in 1..8 : s.steps[i].phase = 1
       /\ \A i \in 9..11 : s.steps[i].phase = 2
    BY <1>3
<1> QED BY <1>1, <1>2, <1>7, <1>8, <1>9, <1>10 DEF TwoPlaces

\* Each slot of a map of rooms, but the middle one, has one pick of one team.
LEMMA PicksHaveSlots ==
    ASSUME NEW s, NEW a, NEW b, NEW c, NEW d,
           PicksOf(s, 1, 1) = <<a, b>>, PicksOf(s, 1, 2) = <<c, d>>,
           NEW slot \in {1, 2, 3, 4, 5}
    PROVE  {p \in {1, 2} \X {1, 2} \X {1, 2} : Picks(s, p[1], p[2], p[3], slot)}
               = IF slot = 1 THEN {<<1, 1, 1>>} ELSE IF slot = 2 THEN {<<1, 1, 2>>} ELSE IF slot = 5 THEN {<<1, 2, 1>>}
                 ELSE IF slot = 4 THEN {<<1, 2, 2>>} ELSE {}
<1>1. /\ RoomFormat[1].pickSlots[1] = <<1, 2>> /\ RoomFormat[1].pickSlots[2] = <<5, 4>>
      /\ RoomFormat[2].pickSlots[1] = <<>> /\ RoomFormat[2].pickSlots[2] = <<>>
    BY DEF RoomFormat
<1>2. /\ DOMAIN <<1, 2>> = 1..2 /\ DOMAIN <<5, 4>> = 1..2 /\ DOMAIN <<>> = {} /\ DOMAIN <<a, b>> = 1..2 /\ DOMAIN <<c, d>> = 1..2
      /\ <<1, 2>>[1] = 1 /\ <<1, 2>>[2] = 2 /\ <<5, 4>>[1] = 5 /\ <<5, 4>>[2] = 4
    OBVIOUS
<1>3. \A t \in {1, 2}, k \in {1, 2} : ~Picks(s, 2, t, k, slot)
    BY <1>1, <1>2 DEF Picks
<1>4. /\ Picks(s, 1, 1, 1, slot) <=> slot = 1
      /\ Picks(s, 1, 1, 2, slot) <=> slot = 2
      /\ Picks(s, 1, 2, 1, slot) <=> slot = 5
      /\ Picks(s, 1, 2, 2, slot) <=> slot = 4
    BY <1>1, <1>2 DEF Picks
<1> DEFINE T == {1, 2} \X {1, 2} \X {1, 2}
<1>5. \A p \in T : p = <<p[1], p[2], p[3]>> /\ p[1] \in {1, 2} /\ p[2] \in {1, 2} /\ p[3] \in {1, 2}
    OBVIOUS
<1>6. <<1, 1, 1>> \in T /\ <<1, 1, 2>> \in T /\ <<1, 2, 1>> \in T /\ <<1, 2, 2>> \in T
    OBVIOUS
<1>7. /\ \A i, j, k : <<i, j, k>>[1] = i /\ <<i, j, k>>[2] = j /\ <<i, j, k>>[3] = k
    OBVIOUS
<1> HIDE DEF T
<1> DEFINE Fits(i, j, k) == \/ (slot = 1 /\ i = 1 /\ j = 1 /\ k = 1)
                            \/ (slot = 2 /\ i = 1 /\ j = 1 /\ k = 2)
                            \/ (slot = 5 /\ i = 1 /\ j = 2 /\ k = 1)
                            \/ (slot = 4 /\ i = 1 /\ j = 2 /\ k = 2)
<1>8. \A i, j, k \in {1, 2} : Picks(s, i, j, k, slot) <=> Fits(i, j, k)
    <2> SUFFICES ASSUME NEW i \in {1, 2}, NEW j \in {1, 2}, NEW k \in {1, 2}
                 PROVE  Picks(s, i, j, k, slot) <=> Fits(i, j, k)
        OBVIOUS
    <2>1. CASE i = 2
        BY <1>3, <2>1
    <2>2. CASE i = 1 /\ j = 1 /\ k = 1
        BY <1>4, <2>2
    <2>3. CASE i = 1 /\ j = 1 /\ k = 2
        BY <1>4, <2>3
    <2>4. CASE i = 1 /\ j = 2 /\ k = 1
        BY <1>4, <2>4
    <2>5. CASE i = 1 /\ j = 2 /\ k = 2
        BY <1>4, <2>5
    <2> QED BY <2>1, <2>2, <2>3, <2>4, <2>5
<1>9. {p \in T : Picks(s, p[1], p[2], p[3], slot)} = {p \in T : Fits(p[1], p[2], p[3])}
    <2> HIDE DEF Fits
    <2> QED BY <1>5, <1>8
<1>10. \A p \in T : \A x, y, z : p = <<x, y, z>> <=> p[1] = x /\ p[2] = y /\ p[3] = z
    BY <1>5, <1>7
<1>11. {p \in T : Fits(p[1], p[2], p[3])}
               = IF slot = 1 THEN {<<1, 1, 1>>} ELSE IF slot = 2 THEN {<<1, 1, 2>>} ELSE IF slot = 5 THEN {<<1, 2, 1>>}
                 ELSE IF slot = 4 THEN {<<1, 2, 2>>} ELSE {}
    <2> DEFINE p1 == <<1, 1, 1>>
               p2 == <<1, 1, 2>>
               p5 == <<1, 2, 1>>
               p4 == <<1, 2, 2>>
    <2>1. \A p \in T : Fits(p[1], p[2], p[3]) <=> \/ (slot = 1 /\ p = p1) \/ (slot = 2 /\ p = p2)
                                                 \/ (slot = 5 /\ p = p5) \/ (slot = 4 /\ p = p4)
        BY <1>10
    <2>2. p1 \in T /\ p2 \in T /\ p5 \in T /\ p4 \in T
        BY <1>6
    <2> HIDE DEF Fits, p1, p2, p4, p5
    <2>3. {p \in T : Fits(p[1], p[2], p[3])}
              = IF slot = 1 THEN {p1} ELSE IF slot = 2 THEN {p2} ELSE IF slot = 5 THEN {p5} ELSE IF slot = 4 THEN {p4} ELSE {}
        BY <2>1, <2>2
    <2> QED BY <2>3 DEF p1, p2, p4, p5
<1> QED BY <1>9, <1>11 DEF T

\* The path of a room veto that is done
LEMMA PathOfRooms ==
    ASSUME NEW s, NEW a, NEW b, NEW c, NEW d, s.done,
           PicksOf(s, 1, 1) = <<a, b>>, PicksOf(s, 1, 2) = <<c, d>>, 1 \in DOMAIN LeftOf(s, StartPool)
    PROVE  /\ RoomSlots(s)[0] = Castle.t /\ RoomSlots(s)[6] = Castle.ct
           /\ RoomSlots(s)[1] = a /\ RoomSlots(s)[2] = b /\ RoomSlots(s)[5] = c /\ RoomSlots(s)[4] = d
           /\ RoomSlots(s)[3] = LeftOf(s, StartPool)[1]
<1> DEFINE picked(slot) == {p \in {1, 2} \X {1, 2} \X {1, 2} : Picks(s, p[1], p[2], p[3], slot)}
           left(slot) == {l \in {1, 2} \X {1} : Remains(s, l[1], l[2], slot)}
           Pick(slot) == LET pick == CHOOSE p \in picked(slot) : TRUE IN PicksOf(s, pick[1], pick[2])[pick[3]]
           Last(slot) == LET last == CHOOSE l \in left(slot) : TRUE IN LeftOf(s, RoomFormat[last[1]].pool)[last[2]]
<1>1. RoomSlots(s) = [slot \in Slot |->
          IF slot = CastleSlot.t THEN Castle.t
          ELSE IF slot = CastleSlot.ct THEN Castle.ct
          ELSE IF picked(slot) # {} THEN Pick(slot)
          ELSE IF left(slot) # {} THEN Last(slot)
          ELSE Open]
    BY DEF RoomSlots
<1>2. CastleSlot.t = 0 /\ CastleSlot.ct = 6 /\ Slot = 0..6
    BY DEF CastleSlot, Slot
<1>3. \A x : (CHOOSE p \in {x} : TRUE) = x /\ {x} # {}
    OBVIOUS
<1>4. /\ picked(1) = {<<1, 1, 1>>} /\ picked(2) = {<<1, 1, 2>>} /\ picked(5) = {<<1, 2, 1>>} /\ picked(4) = {<<1, 2, 2>>}
      /\ picked(3) = {}
    BY PicksHaveSlots
<1>5. Pick(1) = a /\ Pick(2) = b /\ Pick(5) = c /\ Pick(4) = d
    <2>1. \A slot, i, j, k : picked(slot) = {<<i, j, k>>} => Pick(slot) = PicksOf(s, i, j)[k]
        <3> SUFFICES ASSUME NEW slot, NEW i, NEW j, NEW k, picked(slot) = {<<i, j, k>>} PROVE Pick(slot) = PicksOf(s, i, j)[k]
            OBVIOUS
        <3>1. (CHOOSE p \in picked(slot) : TRUE) = <<i, j, k>>
            BY <1>3
        <3> HIDE DEF picked
        <3> QED BY <3>1
    <2> HIDE DEF picked, Pick
    <2>2. Pick(1) = PicksOf(s, 1, 1)[1] /\ Pick(2) = PicksOf(s, 1, 1)[2] /\ Pick(5) = PicksOf(s, 1, 2)[1] /\ Pick(4) = PicksOf(s, 1, 2)[2]
        BY <1>4, <2>1
    <2> QED BY <2>2
<1>6. left(3) = {<<2, 1>>} /\ RoomFormat[2].pool = StartPool
    <2>1. /\ RoomFormat[1].leftoverSlots = <<>> /\ RoomFormat[2].leftoverSlots = <<3>> /\ RoomFormat[2].pool = StartPool
        BY DEF RoomFormat, StartSlot
    <2>2. DOMAIN <<>> = {} /\ DOMAIN <<3>> = {1} /\ <<3>>[1] = 3
        OBVIOUS
    <2>3. Remains(s, 2, 1, 3) /\ ~Remains(s, 1, 1, 3)
        BY <2>1, <2>2 DEF Remains, PhaseDone
    <2>4. \A l \in {1, 2} \X {1} : l = <<1, 1>> \/ l = <<2, 1>>
        OBVIOUS
    <2>5. <<1, 1>>[1] = 1 /\ <<2, 1>>[1] = 2 /\ <<1, 1>>[2] = 1 /\ <<2, 1>>[2] = 1 /\ <<2, 1>> \in {1, 2} \X {1} /\ <<1, 1>> # <<2, 1>>
        OBVIOUS
    <2>6. \A l \in {1, 2} \X {1} : Remains(s, l[1], l[2], 3) <=> l = <<2, 1>>
        BY <2>3, <2>4, <2>5
    <2>7. left(3) = {<<2, 1>>}
        BY <2>5, <2>6
    <2> QED BY <2>1, <2>7
<1>7. Last(3) = LeftOf(s, StartPool)[1]
    <2>1. (CHOOSE l \in left(3) : TRUE) = <<2, 1>>
        BY <1>3, <1>6
    <2> HIDE DEF left
    <2> QED BY <1>6, <2>1
<1>8. picked(1) # {} /\ picked(2) # {} /\ picked(4) # {} /\ picked(5) # {} /\ picked(3) = {} /\ left(3) # {}
    BY <1>3, <1>4, <1>6
<1> HIDE DEF picked, left, Pick, Last
<1> QED BY <1>1, <1>2, <1>5, <1>7, <1>8

\* A veto of rooms that is done gives a path
LEMMA RoomsMakePath ==
    ASSUME NEW V, NEW first \in {1, 2}, NEW s, VetoInv(s, MidPool \o StartPool, V, Items(MidPool \o StartPool)),
           s.steps = RoomVetoSteps(first), s.phases = RoomFormat, s.done
    PROVE  ValidPath(RoomSlots(s))
<1> DEFINE pool == MidPool \o StartPool
           R == Items(pool)
           h == s.history
           left == LeftOf(s, StartPool)
<1>1. pool \in Seq(R) /\ R = Items(MidPool) \cup Items(StartPool)
    BY RoomPool
<1>2. VetoInv(s, pool, V, R)
    OBVIOUS
<1> HIDE DEF pool, R
<1>3. DoneFacts(s, pool, V, R) /\ Items(pool) = R
    BY <1>1, <1>2, DoneVeto DEF R
<1>4. RoomFormat[1].pool = MidPool /\ RoomFormat[2].pool = StartPool
    BY DEF RoomFormat
<1>5. /\ TwoPlaces(s, 1, first, 3, 7) /\ TwoPlaces(s, 1, OtherSide(first), 4, 8)
      /\ Len(s.steps) = 11
      /\ \A i \in 1..8 : s.steps[i].phase = 1
      /\ \A i \in 9..11 : s.steps[i].phase = 2
    BY RoomPicks
<1>6. /\ \A i \in 1..8 : h[i].mapId \in Items(MidPool)
      /\ \A i \in 1..11 : h[i].mapId \notin Items(s.available)
      /\ \A i, j \in 1..11 : i # j => h[i].mapId # h[j].mapId
      /\ s.available \in Seq(R) /\ NoRepeat(s.available)
      /\ \A m \in R : m \in Items(s.available) \/ \E i \in 1..11 : m = h[i].mapId
    <2>1. \A i \in 1..8 : i \in 1..Len(s.steps) /\ s.steps[i].phase # 0 /\ s.phases[s.steps[i].phase].pool = MidPool
        BY <1>4, <1>5
    <2>2. \A i \in 1..8 : h[i].mapId \in Items(MidPool)
        BY <1>3, <2>1 DEF DoneFacts
    <2>3. /\ \A i \in 1..Len(s.steps) : h[i].mapId \notin Items(s.available)
          /\ \A i, j \in 1..Len(s.steps) : i # j => h[i].mapId # h[j].mapId
          /\ s.available \in Seq(R) /\ NoRepeat(s.available)
          /\ \A m \in R : m \in Items(s.available) \/ \E i \in 1..Len(s.steps) : m = h[i].mapId
        BY <1>3 DEF DoneFacts
    <2> DEFINE D == 1..Len(s.steps)
    <2>4. D = 1..11
        BY <1>5
    <2>5. /\ \A i \in D : h[i].mapId \notin Items(s.available)
          /\ \A i, j \in D : i # j => h[i].mapId # h[j].mapId
          /\ s.available \in Seq(R) /\ NoRepeat(s.available)
          /\ \A m \in R : m \in Items(s.available) \/ \E i \in D : m = h[i].mapId
        BY <2>3
    <2> HIDE DEF D, h
    <2> QED BY <2>2, <2>4, <2>5
<1>7. PicksOf(s, 1, first) = <<h[3].mapId, h[7].mapId>>
    <2> DEFINE a == 3
               b == 7
               one == 1
               team == first
    <2>1. a \in 1..Len(s.steps) /\ b \in 1..Len(s.steps) /\ a < b
        BY <1>5
    <2>2. TwoPlaces(s, one, team, a, b)
        BY <1>5
    <2> HIDE DEF a, b, one, team
    <2>3. PicksOf(s, one, team) = <<s.history[a].mapId, s.history[b].mapId>>
        BY <1>1, <1>2, <2>1, <2>2, TwoPicks
    <2> QED BY <2>3 DEF a, b, one, team
<1>8. PicksOf(s, 1, OtherSide(first)) = <<h[4].mapId, h[8].mapId>>
    <2> DEFINE a == 4
               b == 8
               one == 1
               team == OtherSide(first)
    <2>1. a \in 1..Len(s.steps) /\ b \in 1..Len(s.steps) /\ a < b
        BY <1>5
    <2>2. TwoPlaces(s, one, team, a, b)
        BY <1>5
    <2> HIDE DEF a, b, one, team
    <2>3. PicksOf(s, one, team) = <<s.history[a].mapId, s.history[b].mapId>>
        BY <1>1, <1>2, <2>1, <2>2, TwoPicks
    <2> QED BY <2>3 DEF a, b, one, team
<1> HIDE DEF h
<1>9. PICK a, b, c, d : /\ PicksOf(s, 1, 1) = <<a, b>> /\ PicksOf(s, 1, 2) = <<c, d>>
                        /\ {a, b, c, d} \subseteq Items(MidPool)
                        /\ a # b /\ a # c /\ a # d /\ b # c /\ b # d /\ c # d
    <2>1. /\ {h[3].mapId, h[4].mapId, h[7].mapId, h[8].mapId} \subseteq Items(MidPool)
          /\ h[3].mapId # h[4].mapId /\ h[3].mapId # h[7].mapId /\ h[3].mapId # h[8].mapId
          /\ h[4].mapId # h[7].mapId /\ h[4].mapId # h[8].mapId /\ h[7].mapId # h[8].mapId
        BY <1>6
    <2>2. CASE first = 1
        <3>1. OtherSide(first) = 2
            BY <2>2 DEF OtherSide
        <3> QED BY <1>7, <1>8, <2>1, <2>2, <3>1
    <2>3. CASE first = 2
        <3>1. OtherSide(first) = 1
            BY <2>3 DEF OtherSide
        <3> QED BY <1>7, <1>8, <2>1, <2>3, <3>1
    <2> QED BY <2>2, <2>3
<1>10. left \in Seq(R) /\ Items(left) = Items(s.available) \cap Items(StartPool)
    BY <1>6, LeftOfKind
<1>11. Items(left) # {}
    <2> SUFFICES ASSUME Items(left) = {} PROVE FALSE
        OBVIOUS
    <2>1. \A m \in Items(StartPool) : m \in {h[9].mapId, h[10].mapId, h[11].mapId}
        <3> SUFFICES ASSUME NEW m \in Items(StartPool) PROVE m \in {h[9].mapId, h[10].mapId, h[11].mapId}
            OBVIOUS
        <3>1. m \notin Items(s.available) /\ m \in R
            BY <1>1, <1>10
        <3>2. PICK i \in 1..11 : m = h[i].mapId
            BY <1>6, <3>1
        <3>3. i \notin 1..8
            BY <1>6, <3>2, KindsOfRooms
        <3>4. i = 9 \/ i = 10 \/ i = 11
            BY <3>3
        <3> QED BY <3>2, <3>4
    <2>2. /\ <<"start", 1>> \in Items(StartPool) /\ <<"start", 2>> \in Items(StartPool)
          /\ <<"start", 3>> \in Items(StartPool) /\ <<"start", 4>> \in Items(StartPool)
        BY StartRooms
    <2>3. \A i, j : <<"start", i>> = <<"start", j>> => i = j
        OBVIOUS
    <2> DEFINE w(i) == <<"start", i>>
    <2>4. w(1) # w(2) /\ w(1) # w(3) /\ w(1) # w(4) /\ w(2) # w(3) /\ w(2) # w(4) /\ w(3) # w(4)
        BY <2>3
    <2>5. /\ w(1) \in Items(StartPool) /\ w(2) \in Items(StartPool) /\ w(3) \in Items(StartPool) /\ w(4) \in Items(StartPool)
        BY <2>2
    <2> HIDE DEF w
    <2> QED BY <2>1, <2>4, <2>5, FourAmongThree
<1>12. 1 \in DOMAIN left /\ left[1] \in Items(StartPool)
    <2>1. DOMAIN left = 1..Len(left) /\ Len(left) \in Nat
        BY <1>10, LenProperties
    <2>2. DOMAIN left # {}
        BY <1>11 DEF Items
    <2> HIDE DEF left
    <2>3. 1 \in DOMAIN left
        BY <2>1, <2>2
    <2>4. left[1] \in Items(left)
        BY <2>3 DEF Items
    <2> QED BY <1>10, <2>3, <2>4
<1> DEFINE path == RoomSlots(s)
<1>13. /\ path[0] = Castle.t /\ path[6] = Castle.ct /\ path[1] = a /\ path[2] = b /\ path[5] = c /\ path[4] = d
       /\ path[3] = left[1]
    BY <1>9, <1>12, PathOfRooms
<1> HIDE DEF path, left
<1>14. /\ \A k \in {1, 2, 4, 5} : path[k] \in Items(MidPool)
       /\ \A k, l \in {1, 2, 4, 5} : path[k] = path[l] => k = l
       /\ path[3] \in Items(StartPool)
    BY <1>9, <1>12, <1>13
<1>15. ValidPath(path)
    BY <1>13, <1>14, PathIsValid
<1> QED BY <1>15 DEF path

-----------------------------------------------------------------------------
(***************************************************************************)
(* A veto of a series that is done                                         *)
(***************************************************************************)

\* The phases of a series as its state holds them, and all it draws from.
SeriesPhaseList == [f \in DOMAIN SeriesPhases |-> [pool |-> PhasePool(SeriesPhases[f][1], SeriesPhases[f][2])]]
RoomsOfSeries == PhasePool(1, "side") \o MidPool \o StartPool \o PhasePool(3, "side")

\* A series veto that is done
SeriesOver(s, V, first, flip) ==
    /\ VetoInv(s, RoomsOfSeries, V, Items(RoomsOfSeries)) /\ s.done
    /\ s.steps = SeriesStepsFor(first, flip) /\ s.phases = SeriesPhaseList

\* The steps of a series that pick
LEMMA SeriesPlaces ==
    ASSUME NEW s, NEW first \in {1, 2}, NEW flip \in {1, 2}, s.steps = SeriesStepsFor(first, flip)
    PROVE  /\ TwoPlaces(s, 2, first, 2, 4) /\ TwoPlaces(s, 2, OtherSide(first), 3, 5)
           /\ NoPlace(s, 3, first) /\ OnePlace(s, 3, OtherSide(first), 6)
           /\ TwoPlaces(s, 4, first, 8, 10) /\ TwoPlaces(s, 4, OtherSide(first), 7, 9)
           /\ OnePlace(s, 5, first, 11) /\ NoPlace(s, 5, OtherSide(first))
           /\ NoPlace(s, 7, flip) /\ TwoPlaces(s, 7, OtherSide(flip), 13, 14)
           /\ OnePlace(s, 8, flip, 15) /\ NoPlace(s, 8, OtherSide(flip))
<1> DEFINE o == OtherSide(first)
           l == OtherSide(flip)
           A(i) == s.steps[i].action
           T(i) == s.steps[i].team
           F(i) == s.steps[i].phase
<1>1. /\ o # first /\ l # flip
    BY DEF OtherSide
<1>2. StepsOfSeries(s.steps, first, flip)
    BY SeriesBegins
<1> HIDE DEF o, l
<1>3. /\ A(1) = "side" /\ T(1) = o /\ F(1) = 1
      /\ A(2) = "pick" /\ T(2) = first /\ F(2) = 2
      /\ A(3) = "pick" /\ T(3) = o /\ F(3) = 2
      /\ A(4) = "pick" /\ T(4) = first /\ F(4) = 2
      /\ A(5) = "pick" /\ T(5) = o /\ F(5) = 2
      /\ A(6) = "pick" /\ T(6) = o /\ F(6) = 3
      /\ A(7) = "pick" /\ T(7) = o /\ F(7) = 4
      /\ A(8) = "pick" /\ T(8) = first /\ F(8) = 4
      /\ A(9) = "pick" /\ T(9) = o /\ F(9) = 4
      /\ A(10) = "pick" /\ T(10) = first /\ F(10) = 4
      /\ A(11) = "pick" /\ T(11) = first /\ F(11) = 5
      /\ A(12) = "side" /\ T(12) = flip /\ F(12) = 6
      /\ A(13) = "pick" /\ T(13) = l /\ F(13) = 7
      /\ A(14) = "pick" /\ T(14) = l /\ F(14) = 7
      /\ A(15) = "pick" /\ T(15) = flip /\ F(15) = 8
    BY <1>2 DEF StepsOfSeries, VetoStep, o, l
<1>4. DOMAIN s.steps = 1..15
    BY <1>2 DEF StepsOfSeries
<1>5. \A i \in 1..15 : i = 1 \/ i = 2 \/ i = 3 \/ i = 4 \/ i = 5 \/ i = 6 \/ i = 7 \/ i = 8 \/ i = 9 \/ i = 10 \/ i = 11 \/ i = 12 \/ i = 13 \/ i = 14 \/ i = 15
    OBVIOUS
<1>6. \A phase, team : \A i \in 1..15 : i \in PickPlaces(s, phase, team) <=> A(i) = "pick" /\ T(i) = team /\ F(i) = phase
    BY <1>4 DEF PickPlaces
<1> HIDE DEF A, T, F
<1>7. \A i \in 1..15 : i \in PickPlaces(s, 2, first) <=> i = 2 \/ i = 4
    BY <1>1, <1>3, <1>5, <1>6
<1>8. \A i \in 1..15 : i \in PickPlaces(s, 2, o) <=> i = 3 \/ i = 5
    BY <1>1, <1>3, <1>5, <1>6
<1>9. \A i \in 1..15 : i \notin PickPlaces(s, 3, first)
    BY <1>1, <1>3, <1>5, <1>6
<1>10. \A i \in 1..15 : i \in PickPlaces(s, 3, o) <=> i = 6
    BY <1>1, <1>3, <1>5, <1>6
<1>11. \A i \in 1..15 : i \in PickPlaces(s, 4, first) <=> i = 8 \/ i = 10
    BY <1>1, <1>3, <1>5, <1>6
<1>12. \A i \in 1..15 : i \in PickPlaces(s, 4, o) <=> i = 7 \/ i = 9
    BY <1>1, <1>3, <1>5, <1>6
<1>13. \A i \in 1..15 : i \in PickPlaces(s, 5, first) <=> i = 11
    BY <1>1, <1>3, <1>5, <1>6
<1>14. \A i \in 1..15 : i \notin PickPlaces(s, 5, o)
    BY <1>1, <1>3, <1>5, <1>6
<1>15. \A i \in 1..15 : i \notin PickPlaces(s, 7, flip)
    BY <1>1, <1>3, <1>5, <1>6
<1>16. \A i \in 1..15 : i \in PickPlaces(s, 7, l) <=> i = 13 \/ i = 14
    BY <1>1, <1>3, <1>5, <1>6
<1>17. \A i \in 1..15 : i \in PickPlaces(s, 8, flip) <=> i = 15
    BY <1>1, <1>3, <1>5, <1>6
<1>18. \A i \in 1..15 : i \notin PickPlaces(s, 8, l)
    BY <1>1, <1>3, <1>5, <1>6
<1> QED BY <1>4, <1>7, <1>8, <1>9, <1>10, <1>11, <1>12, <1>13, <1>14, <1>15, <1>16, <1>17, <1>18 DEF TwoPlaces, OnePlace, NoPlace, o, l

\* What a series veto that is done has drawn
SeriesFacts(s, first, flip) ==
    /\ \A i \in {2, 3, 4, 5, 7, 8, 9, 10, 13, 14} : s.history[i].mapId \in Items(MidPool)
    /\ \A i \in {6, 11, 15} : s.history[i].mapId \in Items(StartPool)
    /\ s.history[1].mapId \notin Items(MidPool) /\ s.history[12].mapId \notin Items(MidPool)
    /\ s.history[1].team = OtherSide(first) /\ s.history[12].team = flip
    /\ DOMAIN s.history = 1..15
    /\ \A i \in 1..15 : s.history[i].step = i /\ s.history[i].mapId \notin Items(s.available)
    /\ \A i, j \in 1..15 : i # j => s.history[i].mapId # s.history[j].mapId
    /\ s.available \in Seq(Items(RoomsOfSeries)) /\ NoRepeat(s.available)
    /\ \A m \in Items(RoomsOfSeries) : m \in Items(s.available) \/ \E i \in 1..15 : m = s.history[i].mapId

\* What a series that is over has drawn, step by step.
LEMMA SeriesDrawn ==
    ASSUME NEW V, NEW s, NEW first \in {1, 2}, NEW flip \in {1, 2}, SeriesOver(s, V, first, flip)
    PROVE  SeriesFacts(s, first, flip)
<1> DEFINE R == Items(RoomsOfSeries)
           h == s.history
<1>1. RoomsOfSeries \in Seq(R) /\ VetoInv(s, RoomsOfSeries, V, R) /\ s.done
    BY SeriesPool DEF SeriesOver, RoomsOfSeries
<1>2. DoneFacts(s, RoomsOfSeries, V, R)
    <2> HIDE DEF R
    <2> QED BY <1>1, DoneVeto
<1>3. StepsOfSeries(s.steps, first, flip) /\ Len(s.steps) = 15 /\ s.phases = SeriesPhaseList
    BY SeriesBegins DEF SeriesOver
<1> DEFINE D == 1..Len(s.steps)
<1>4. D = 1..15
    BY <1>3
<1>5. /\ DOMAIN h = D
      /\ \A i \in D : h[i].step = i /\ h[i].team = s.steps[i].team /\ h[i].mapId \notin Items(s.available)
      /\ \A i, j \in D : i # j => h[i].mapId # h[j].mapId
      /\ s.available \in Seq(R) /\ NoRepeat(s.available)
      /\ \A m \in R : m \in Items(s.available) \/ \E i \in D : m = h[i].mapId
      /\ \A i \in D : s.steps[i].phase # 0 => h[i].mapId \in Items(s.phases[s.steps[i].phase].pool)
    BY <1>2 DEF DoneFacts
<1> HIDE DEF D, h, R
<1>6. /\ \A f \in {2, 4, 7} : s.phases[f].pool = MidPool
      /\ \A f \in {3, 5, 8} : s.phases[f].pool = StartPool
    BY <1>3, PhasePools DEF SeriesPhaseList
<1>7. s.steps[1].team = OtherSide(first) /\ s.steps[12].team = flip
    BY <1>3 DEF StepsOfSeries, VetoStep
<1>8. /\ s.steps[2].phase = 2 /\ 2 \in D
      /\ s.steps[3].phase = 2 /\ 3 \in D
      /\ s.steps[4].phase = 2 /\ 4 \in D
      /\ s.steps[5].phase = 2 /\ 5 \in D
      /\ s.steps[7].phase = 4 /\ 7 \in D
      /\ s.steps[8].phase = 4 /\ 8 \in D
      /\ s.steps[9].phase = 4 /\ 9 \in D
      /\ s.steps[10].phase = 4 /\ 10 \in D
      /\ s.steps[13].phase = 7 /\ 13 \in D
      /\ s.steps[14].phase = 7 /\ 14 \in D
      /\ s.steps[6].phase = 3 /\ 6 \in D
      /\ s.steps[11].phase = 5 /\ 11 \in D
      /\ s.steps[15].phase = 8 /\ 15 \in D
    BY <1>3, <1>4 DEF StepsOfSeries, VetoStep
<1>9. \A i \in {2, 3, 4, 5, 7, 8, 9, 10, 13, 14} : h[i].mapId \in Items(MidPool)
    <2>1. \A i \in {2, 3, 4, 5, 7, 8, 9, 10, 13, 14} : i \in D /\ s.steps[i].phase \in {2, 4, 7}
        BY <1>8
    <2>2. \A i \in {2, 3, 4, 5, 7, 8, 9, 10, 13, 14} : s.steps[i].phase # 0 /\ s.phases[s.steps[i].phase].pool = MidPool
        BY <1>6, <2>1
    <2> QED BY <1>5, <2>1, <2>2
<1>10. \A i \in {6, 11, 15} : h[i].mapId \in Items(StartPool)
    <2>1. \A i \in {6, 11, 15} : i \in D /\ s.steps[i].phase \in {3, 5, 8}
        BY <1>8
    <2>2. \A i \in {6, 11, 15} : s.steps[i].phase # 0 /\ s.phases[s.steps[i].phase].pool = StartPool
        BY <1>6, <2>1
    <2> QED BY <1>5, <2>1, <2>2
<1>11. 1 \in D /\ 12 \in D
    BY <1>4
<1>12. h[1].team = OtherSide(first) /\ h[12].team = flip
    BY <1>5, <1>7, <1>11
<1>13. h[1].mapId \notin Items(MidPool) /\ h[12].mapId \notin Items(MidPool)
    <2>1. s.steps[1].phase = 1 /\ s.steps[12].phase = 6
        BY <1>3 DEF StepsOfSeries, VetoStep
    <2>2. s.phases[1].pool = PhasePool(1, "side") /\ s.phases[6].pool = PhasePool(3, "side")
        BY <1>3, PhasePools DEF SeriesPhaseList
    <2>3. h[1].mapId \in Items(PhasePool(1, "side"))
        BY <1>5, <1>11, <2>1, <2>2
    <2>4. h[12].mapId \in Items(PhasePool(3, "side"))
        BY <1>5, <1>11, <2>1, <2>2
    <2>5. Items(PhasePool(1, "side")) \cap Items(MidPool) = {} /\ Items(PhasePool(3, "side")) \cap Items(MidPool) = {}
        BY KindsOfRooms
    <2> QED BY <2>3, <2>4, <2>5
<1>14. /\ DOMAIN h = 1..15
       /\ \A i \in 1..15 : h[i].step = i /\ h[i].mapId \notin Items(s.available)
       /\ \A i, j \in 1..15 : i # j => h[i].mapId # h[j].mapId
    BY <1>4, <1>5
<1>15. s.available \in Seq(R) /\ NoRepeat(s.available)
    BY <1>5
<1>16. \A m \in R : m \in Items(s.available) \/ \E i \in 1..15 : m = h[i].mapId
    BY <1>4, <1>5
<1> HIDE DEF D
<1> QED BY <1>9, <1>10, <1>12, <1>13, <1>14, <1>15, <1>16 DEF h, R, SeriesFacts

\* To remove a room leaves one less at most
LEMMA OneGone ==
    ASSUME NEW S, NEW x, NEW n \in Nat, IsFiniteSet(S), Cardinality(S) >= n + 1
    PROVE  IsFiniteSet(S \ {x}) /\ Cardinality(S \ {x}) >= n
<1>1. Cardinality(S) \in Nat
    BY FS_CardinalityType
<1> QED BY <1>1, FS_RemoveElement

\* A set without ten things
Without(S, x1, x2, x3, x4, x5, x6, x7, x8, x9, x10) ==
    {y \in S : y # x1 /\ y # x2 /\ y # x3 /\ y # x4 /\ y # x5 /\ y # x6 /\ y # x7 /\ y # x8 /\ y # x9 /\ y # x10}

\* Of twelve, ten taken leave two
LEMMA TwoRemain ==
    ASSUME NEW S, IsFiniteSet(S), Cardinality(S) = 12, NEW x1, NEW x2, NEW x3, NEW x4, NEW x5, NEW x6, NEW x7, NEW x8, NEW x9, NEW x10
    PROVE  LET left == Without(S, x1, x2, x3, x4, x5, x6, x7, x8, x9, x10)
           IN  IsFiniteSet(left) /\ Cardinality(left) >= 2
<1> DEFINE S0 == S
           S1 == S0 \ {x1}
           S2 == S1 \ {x2}
           S3 == S2 \ {x3}
           S4 == S3 \ {x4}
           S5 == S4 \ {x5}
           S6 == S5 \ {x6}
           S7 == S6 \ {x7}
           S8 == S7 \ {x8}
           S9 == S8 \ {x9}
           S10 == S9 \ {x10}
<1>0. IsFiniteSet(S0) /\ Cardinality(S0) >= 11 + 1
    OBVIOUS
<1> HIDE DEF S0
<1>1. IsFiniteSet(S1) /\ Cardinality(S1) >= 10 + 1
    <2> DEFINE n == 11
    <2>1. n \in Nat /\ Cardinality(S0) >= n + 1
        BY <1>0
    <2> HIDE DEF n
    <2>2. IsFiniteSet(S1) /\ Cardinality(S1) >= n
        BY <1>0, <2>1, OneGone
    <2> QED BY <2>2 DEF n
<1> HIDE DEF S1
<1>2. IsFiniteSet(S2) /\ Cardinality(S2) >= 9 + 1
    <2> DEFINE n == 10
    <2>1. n \in Nat /\ Cardinality(S1) >= n + 1
        BY <1>1
    <2> HIDE DEF n
    <2>2. IsFiniteSet(S2) /\ Cardinality(S2) >= n
        BY <1>1, <2>1, OneGone
    <2> QED BY <2>2 DEF n
<1> HIDE DEF S2
<1>3. IsFiniteSet(S3) /\ Cardinality(S3) >= 8 + 1
    <2> DEFINE n == 9
    <2>1. n \in Nat /\ Cardinality(S2) >= n + 1
        BY <1>2
    <2> HIDE DEF n
    <2>2. IsFiniteSet(S3) /\ Cardinality(S3) >= n
        BY <1>2, <2>1, OneGone
    <2> QED BY <2>2 DEF n
<1> HIDE DEF S3
<1>4. IsFiniteSet(S4) /\ Cardinality(S4) >= 7 + 1
    <2> DEFINE n == 8
    <2>1. n \in Nat /\ Cardinality(S3) >= n + 1
        BY <1>3
    <2> HIDE DEF n
    <2>2. IsFiniteSet(S4) /\ Cardinality(S4) >= n
        BY <1>3, <2>1, OneGone
    <2> QED BY <2>2 DEF n
<1> HIDE DEF S4
<1>5. IsFiniteSet(S5) /\ Cardinality(S5) >= 6 + 1
    <2> DEFINE n == 7
    <2>1. n \in Nat /\ Cardinality(S4) >= n + 1
        BY <1>4
    <2> HIDE DEF n
    <2>2. IsFiniteSet(S5) /\ Cardinality(S5) >= n
        BY <1>4, <2>1, OneGone
    <2> QED BY <2>2 DEF n
<1> HIDE DEF S5
<1>6. IsFiniteSet(S6) /\ Cardinality(S6) >= 5 + 1
    <2> DEFINE n == 6
    <2>1. n \in Nat /\ Cardinality(S5) >= n + 1
        BY <1>5
    <2> HIDE DEF n
    <2>2. IsFiniteSet(S6) /\ Cardinality(S6) >= n
        BY <1>5, <2>1, OneGone
    <2> QED BY <2>2 DEF n
<1> HIDE DEF S6
<1>7. IsFiniteSet(S7) /\ Cardinality(S7) >= 4 + 1
    <2> DEFINE n == 5
    <2>1. n \in Nat /\ Cardinality(S6) >= n + 1
        BY <1>6
    <2> HIDE DEF n
    <2>2. IsFiniteSet(S7) /\ Cardinality(S7) >= n
        BY <1>6, <2>1, OneGone
    <2> QED BY <2>2 DEF n
<1> HIDE DEF S7
<1>8. IsFiniteSet(S8) /\ Cardinality(S8) >= 3 + 1
    <2> DEFINE n == 4
    <2>1. n \in Nat /\ Cardinality(S7) >= n + 1
        BY <1>7
    <2> HIDE DEF n
    <2>2. IsFiniteSet(S8) /\ Cardinality(S8) >= n
        BY <1>7, <2>1, OneGone
    <2> QED BY <2>2 DEF n
<1> HIDE DEF S8
<1>9. IsFiniteSet(S9) /\ Cardinality(S9) >= 2 + 1
    <2> DEFINE n == 3
    <2>1. n \in Nat /\ Cardinality(S8) >= n + 1
        BY <1>8
    <2> HIDE DEF n
    <2>2. IsFiniteSet(S9) /\ Cardinality(S9) >= n
        BY <1>8, <2>1, OneGone
    <2> QED BY <2>2 DEF n
<1> HIDE DEF S9
<1>10. IsFiniteSet(S10) /\ Cardinality(S10) >= 1 + 1
    <2> DEFINE n == 2
    <2>1. n \in Nat /\ Cardinality(S9) >= n + 1
        BY <1>9
    <2> HIDE DEF n
    <2>2. IsFiniteSet(S10) /\ Cardinality(S10) >= n
        BY <1>9, <2>1, OneGone
    <2> QED BY <2>2 DEF n
<1> HIDE DEF S10
<1>11. Without(S, x1, x2, x3, x4, x5, x6, x7, x8, x9, x10) = S10
    BY DEF Without, S0, S1, S2, S3, S4, S5, S6, S7, S8, S9, S10
<1> QED BY <1>10, <1>11

\* Which side veto each map of a series goes by.
LEMMA LastSidedIs == LastSided(1) = 1 /\ LastSided(2) = 1 /\ LastSided(3) = 3
<1> DEFINE sided(map) == {m \in 1..map : PhaseAt(m, "side") # {}}
<1>1. PhaseAt(1, "side") # {} /\ PhaseAt(2, "side") = {} /\ PhaseAt(3, "side") # {}
    BY PhaseIs
<1>2. sided(1) = {1} /\ sided(2) = {1} /\ sided(3) = {1, 3}
    <2>1. \A m \in 1..1 : m = 1
        OBVIOUS
    <2>2. \A m \in 1..2 : m = 1 \/ m = 2
        OBVIOUS
    <2>3. \A m \in 1..3 : m = 1 \/ m = 2 \/ m = 3
        OBVIOUS
    <2>4. 1 \in 1..1 /\ 1 \in 1..2 /\ 1 \in 1..3 /\ 3 \in 1..3
        OBVIOUS
    <2> QED BY <1>1, <2>1, <2>2, <2>3, <2>4
<1>3. \A map : LastSided(map) = CHOOSE m \in sided(map) : \A n \in sided(map) : n <= m
    BY DEF LastSided
<1> HIDE DEF sided
<1>4. (CHOOSE m \in {1} : \A n \in {1} : n <= m) = 1
    OBVIOUS
<1>5. (CHOOSE m \in {1, 3} : \A n \in {1, 3} : n <= m) = 3
    OBVIOUS
<1> QED BY <1>2, <1>3, <1>4, <1>5

\* The sides of a series that is done: chosen on the maps 1 and 3, and swapped on map 2
LEMMA SidesAre ==
    ASSUME NEW V, NEW s, NEW first \in {1, 2}, NEW flip \in {1, 2}, SeriesOver(s, V, first, flip)
    PROVE  /\ CtTeam(s, 1) \in {1, 2} /\ CtTeam(s, 2) = OtherSide(CtTeam(s, 1)) /\ CtTeam(s, 3) \in {1, 2}
<1> DEFINE h == s.history
           o == OtherSide(first)
<1>1. /\ h[1].team = o /\ h[12].team = flip /\ DOMAIN h = 1..15 /\ \A i \in 1..15 : h[i].step = i
    <2>1. SeriesFacts(s, first, flip)
        BY SeriesDrawn
    <2> QED BY <2>1 DEF SeriesFacts
<1>2. StepsOfSeries(s.steps, first, flip)
    BY SeriesBegins DEF SeriesOver
<1>3. \A i \in 1..15 : (s.steps[i].phase = 1 <=> i = 1) /\ (s.steps[i].phase = 6 <=> i = 12)
    <2>1. \A i \in 1..15 : i = 1 \/ i = 2 \/ i = 3 \/ i = 4 \/ i = 5 \/ i = 6 \/ i = 7 \/ i = 8 \/ i = 9 \/ i = 10 \/ i = 11
                           \/ i = 12 \/ i = 13 \/ i = 14 \/ i = 15
        OBVIOUS
    <2>2. \A a, t, p : VetoStep(a, t, p).phase = p
        BY DEF VetoStep
    <2> QED BY <1>2, <2>1, <2>2 DEF StepsOfSeries
<1> HIDE DEF h
<1>4. Sided(s, 1) = {1} /\ Sided(s, 3) = {12}
    <2>1. PhaseAt(1, "side") = {1} /\ PhaseAt(3, "side") = {6}
        BY PhaseIs
    <2>2. Sided(s, 1) = {i \in 1..15 : s.steps[i].phase = 1} /\ Sided(s, 3) = {i \in 1..15 : s.steps[i].phase = 6}
        BY <1>1, <2>1 DEF Sided, h
    <2>3. 1 \in 1..15 /\ 12 \in 1..15
        OBVIOUS
    <2> QED BY <1>3, <2>2, <2>3
<1>5. \A x : (CHOOSE i \in {x} : TRUE) = x /\ {x} # {}
    OBVIOUS
<1>6. ASSUME NEW last, NEW map, NEW x, last = LastSided(map), Sided(s, last) = {x}
      PROVE  CtTeam(s, map) = IF (h[x].mapId = SideKey(last, "ct")) = ((map - last) % 2 = 0) THEN h[x].team
                              ELSE OtherSide(h[x].team)
    <2>1. (CHOOSE i \in Sided(s, last) : TRUE) = x /\ Sided(s, last) # {}
        BY <1>5, <1>6
    <2> QED BY <1>6, <2>1 DEF CtTeam, h
<1> DEFINE chosen(m, x) == h[x].mapId = SideKey(m, "ct")
<1> HIDE DEF o
<1>7. /\ CtTeam(s, 1) = IF chosen(1, 1) = ((1 - 1) % 2 = 0) THEN o ELSE OtherSide(o)
      /\ CtTeam(s, 2) = IF chosen(1, 1) = ((2 - 1) % 2 = 0) THEN o ELSE OtherSide(o)
      /\ CtTeam(s, 3) = IF chosen(3, 12) = ((3 - 3) % 2 = 0) THEN flip ELSE OtherSide(flip)
    BY <1>1, <1>4, <1>6, LastSidedIs
<1>8. ((1 - 1) % 2 = 0) /\ ~((2 - 1) % 2 = 0) /\ ((3 - 3) % 2 = 0)
    OBVIOUS
<1>9. chosen(1, 1) \in BOOLEAN /\ chosen(3, 12) \in BOOLEAN
    OBVIOUS
<1> HIDE DEF chosen
<1>10. /\ CtTeam(s, 1) = IF chosen(1, 1) THEN o ELSE OtherSide(o)
       /\ CtTeam(s, 2) = IF chosen(1, 1) THEN OtherSide(o) ELSE o
       /\ CtTeam(s, 3) = IF chosen(3, 12) THEN flip ELSE OtherSide(flip)
    BY <1>7, <1>8, <1>9
<1>11. o \in {1, 2} /\ OtherSide(o) \in {1, 2} /\ OtherSide(OtherSide(o)) = o /\ OtherSide(flip) \in {1, 2}
    BY DEF o, OtherSide
<1> QED BY <1>10, <1>11

\* The picks of the phases of a map
LEMMA PicksOfMap ==
    ASSUME NEW s, NEW team
    PROVE  /\ SeriesPicks(s, 1, "mid", team) = PicksOf(s, 2, team) /\ SeriesPicks(s, 1, "start", team) = PicksOf(s, 3, team)
           /\ SeriesPicks(s, 2, "mid", team) = PicksOf(s, 4, team) /\ SeriesPicks(s, 2, "start", team) = PicksOf(s, 5, team)
           /\ SeriesPicks(s, 3, "mid", team) = PicksOf(s, 7, team) /\ SeriesPicks(s, 3, "start", team) = PicksOf(s, 8, team)
<1>1. \A x : (CHOOSE f \in {x} : TRUE) = x
    OBVIOUS
<1> QED BY <1>1, PhaseIs DEF SeriesPicks

\* The picks of a series that is done
LEMMA PicksOfSeries ==
    ASSUME NEW V, NEW s, NEW first \in {1, 2}, NEW flip \in {1, 2}, SeriesOver(s, V, first, flip)
    PROVE  LET r(i) == s.history[i].mapId
               o == OtherSide(first)
               l == OtherSide(flip)
           IN  /\ SeriesPicks(s, 1, "mid", first) = <<r(2), r(4)>> /\ SeriesPicks(s, 1, "mid", o) = <<r(3), r(5)>>
               /\ SeriesPicks(s, 1, "start", first) = <<>> /\ SeriesPicks(s, 1, "start", o) = <<r(6)>>
               /\ SeriesPicks(s, 2, "mid", first) = <<r(8), r(10)>> /\ SeriesPicks(s, 2, "mid", o) = <<r(7), r(9)>>
               /\ SeriesPicks(s, 2, "start", first) = <<r(11)>> /\ SeriesPicks(s, 2, "start", o) = <<>>
               /\ SeriesPicks(s, 3, "mid", l) = <<r(13), r(14)>> /\ SeriesPicks(s, 3, "mid", flip) = <<>>
               /\ SeriesPicks(s, 3, "start", flip) = <<r(15)>> /\ SeriesPicks(s, 3, "start", l) = <<>>
<1> DEFINE R == Items(RoomsOfSeries)
           r(i) == s.history[i].mapId
           o == OtherSide(first)
           l == OtherSide(flip)
           pool == RoomsOfSeries
<1>1. pool \in Seq(R) /\ VetoInv(s, pool, V, R) /\ s.done
    BY SeriesPool DEF SeriesOver, RoomsOfSeries
<1>2. s.steps = SeriesStepsFor(first, flip) /\ Len(s.steps) = 15
    BY SeriesBegins DEF SeriesOver
<1>3. /\ TwoPlaces(s, 2, first, 2, 4) /\ TwoPlaces(s, 2, o, 3, 5) /\ NoPlace(s, 3, first) /\ OnePlace(s, 3, o, 6)
      /\ TwoPlaces(s, 4, first, 8, 10) /\ TwoPlaces(s, 4, o, 7, 9) /\ OnePlace(s, 5, first, 11) /\ NoPlace(s, 5, o)
      /\ NoPlace(s, 7, flip) /\ TwoPlaces(s, 7, l, 13, 14) /\ OnePlace(s, 8, flip, 15) /\ NoPlace(s, 8, l)
    BY <1>2, SeriesPlaces
<1> HIDE DEF R, pool
<1>4. ASSUME NEW f, NEW team, NEW a \in 1..15, NEW b \in 1..15, a < b, TwoPlaces(s, f, team, a, b)
      PROVE  PicksOf(s, f, team) = <<r(a), r(b)>>
    <2>1. a \in 1..Len(s.steps) /\ b \in 1..Len(s.steps)
        BY <1>2
    <2> QED BY <1>1, <1>4, <2>1, TwoPicks
<1>5. ASSUME NEW f, NEW team, NEW a \in 1..15, OnePlace(s, f, team, a)
      PROVE  PicksOf(s, f, team) = <<r(a)>>
    <2>1. a \in 1..Len(s.steps)
        BY <1>2
    <2> QED BY <1>1, <1>5, <2>1, OnePick
<1>6. ASSUME NEW f, NEW team, NoPlace(s, f, team)
      PROVE  PicksOf(s, f, team) = <<>>
    BY <1>1, <1>6, NoPicks
<1> HIDE DEF r, o, l
<1>7. /\ PicksOf(s, 2, first) = <<r(2), r(4)>> /\ PicksOf(s, 2, o) = <<r(3), r(5)>>
      /\ PicksOf(s, 4, first) = <<r(8), r(10)>> /\ PicksOf(s, 4, o) = <<r(7), r(9)>>
      /\ PicksOf(s, 7, l) = <<r(13), r(14)>>
    BY <1>3, <1>4
<1>8. PicksOf(s, 3, o) = <<r(6)>> /\ PicksOf(s, 5, first) = <<r(11)>> /\ PicksOf(s, 8, flip) = <<r(15)>>
    BY <1>3, <1>5
<1>9. PicksOf(s, 3, first) = <<>> /\ PicksOf(s, 5, o) = <<>> /\ PicksOf(s, 7, flip) = <<>> /\ PicksOf(s, 8, l) = <<>>
    BY <1>3, <1>6
<1> QED BY <1>7, <1>8, <1>9, PicksOfMap DEF r, o, l

\* The slots of a map of a series, in terms of the mid slots that each team has taken
TakenBy(s, map, team) ==
    {OwnSlots[SideOf(team, CtTeam(s, map))][k] : k \in DOMAIN SeriesPicks(s, map, "mid", team) \cap {1, 2}}
\* The slots no pick took, the start picks of a map, and the room that is in
\* a slot by the pick of a team.
OpenOf(s, map) == Those(OwnSlots.t \o OwnSlots.ct, Slot \ (TakenBy(s, map, 1) \cup TakenBy(s, map, 2)))
StartOf(s, map) == SeriesPicks(s, map, "start", 1) \o SeriesPicks(s, map, "start", 2)
PickFor(s, map, team, slot) ==
    LET own == OwnSlots[SideOf(team, CtTeam(s, map))]
    IN  SeriesPicks(s, map, "mid", team)[CHOOSE k \in {1, 2} : own[k] = slot]

\* What is in each slot of a map of a series, kind of slot by kind.
LEMMA SlotsUnfold ==
    ASSUME NEW s, NEW map
    PROVE  /\ SeriesSlots(s, map)[0] = Castle.t /\ SeriesSlots(s, map)[6] = Castle.ct
           /\ SeriesSlots(s, map)[3] = IF StartOf(s, map) = <<>> THEN Open ELSE StartOf(s, map)[1]
           /\ CtTeam(s, map) # 0 =>
                  \A slot \in {1, 2, 4, 5} :
                      /\ slot \in TakenBy(s, map, 1) \cup TakenBy(s, map, 2) =>
                             SeriesSlots(s, map)[slot]
                                 = PickFor(s, map, CHOOSE team \in {1, 2} : slot \in TakenBy(s, map, team), slot)
                      /\ slot \notin TakenBy(s, map, 1) \cup TakenBy(s, map, 2) =>
                             \A i : (/\ i = CHOOSE j \in DOMAIN OpenOf(s, map) : OpenOf(s, map)[j] = slot
                                     /\ s.done /\ i \in DOMAIN LeftOf(s, MidPool)) =>
                                        SeriesSlots(s, map)[slot] = LeftOf(s, MidPool)[i]
<1> DEFINE ct == CtTeam(s, map)
           Mid(team) == SeriesPicks(s, map, "mid", team)
           start == StartOf(s, map)
           Held(team) == TakenBy(s, map, team)
           open == OpenOf(s, map)
           left == LeftOf(s, MidPool)
           filled == PhaseDone(s, CHOOSE f \in PhaseAt(map, "mid") : TRUE)
           For(slot) == PickFor(s, map, CHOOSE team \in {1, 2} : slot \in Held(team), slot)
           Rest(slot) == LET i == CHOOSE i \in DOMAIN open : open[i] = slot
                         IN  IF filled /\ i \in DOMAIN left THEN left[i] ELSE Open
<1>1. SeriesSlots(s, map) = [slot \in Slot |->
            IF slot = CastleSlot.t THEN Castle.t
            ELSE IF slot = CastleSlot.ct THEN Castle.ct
            ELSE IF slot = StartSlot THEN (IF start = <<>> THEN Open ELSE start[1])
            ELSE IF ct = 0 THEN Open
            ELSE IF slot \in Held(1) \cup Held(2) THEN For(slot)
            ELSE Rest(slot)]
    BY DEF SeriesSlots, TakenBy, OpenOf, StartOf, PickFor
<1>2. CastleSlot.t = 0 /\ CastleSlot.ct = 6 /\ StartSlot = 3 /\ Slot = 0..6
    BY DEF CastleSlot, Slot, StartSlot
<1>3. s.done => filled
    BY DEF PhaseDone
<1>4. \A slot, i : (/\ i = CHOOSE j \in DOMAIN open : open[j] = slot
                    /\ s.done /\ i \in DOMAIN left) => Rest(slot) = left[i]
    <2> HIDE DEF open, left, filled
    <2> QED BY <1>3
<1> HIDE DEF ct, start, Held, open, left, filled, Rest
<1>5. /\ SeriesSlots(s, map)[0] = Castle.t /\ SeriesSlots(s, map)[6] = Castle.ct
      /\ SeriesSlots(s, map)[3] = IF start = <<>> THEN Open ELSE start[1]
    <2> HIDE DEF For
    <2> QED BY <1>1, <1>2
<1>6. ct # 0 => \A slot \in {1, 2, 4, 5} : /\ slot \in Held(1) \cup Held(2) => SeriesSlots(s, map)[slot] = For(slot)
                                           /\ slot \notin Held(1) \cup Held(2) => SeriesSlots(s, map)[slot] = Rest(slot)
    <2> HIDE DEF For
    <2> QED BY <1>1, <1>2
<1> QED BY <1>4, <1>5, <1>6 DEF ct, start, Held, open, left

\* Who has which own slots
LEMMA OwnOf ==
    ASSUME NEW ct \in {1, 2}
    PROVE  /\ OwnSlots[SideOf(ct, ct)] = <<5, 4>> /\ OwnSlots[SideOf(OtherSide(ct), ct)] = <<1, 2>>
           /\ OwnSlots.t \o OwnSlots.ct = <<1, 2, 5, 4>>
<1>1. OwnSlots["ct"] = <<5, 4>> /\ OwnSlots["t"] = <<1, 2>>
    BY DEF OwnSlots
<1>2. SideOf(ct, ct) = "ct" /\ SideOf(OtherSide(ct), ct) = "t"
    BY DEF SideOf, OtherSide
<1>3. <<1, 2>> \o <<5, 4>> = <<1, 2, 5, 4>>
    <2> DEFINE a == <<1, 2>>
               b == <<5, 4>>
               c == <<1, 2, 5, 4>>
               N == {1, 2, 4, 5}
    <2>1. /\ a \in Seq(N) /\ b \in Seq(N) /\ c \in Seq(N) /\ Len(a) = 2 /\ Len(b) = 2 /\ Len(c) = 4
          /\ a[1] = 1 /\ a[2] = 2 /\ b[1] = 5 /\ b[2] = 4 /\ c[1] = 1 /\ c[2] = 2 /\ c[3] = 5 /\ c[4] = 4
        OBVIOUS
    <2>11. a \in Seq(N) /\ b \in Seq(N)
        BY <2>1
    <2>12. Len(a) = 2 /\ Len(b) = 2
        BY <2>1
    <2> HIDE DEF a, b, c, N
    <2>13. Len(a \o b) = Len(a) + Len(b)
        BY <2>11, LenOfJoined
    <2>14. a \o b \in Seq(N)
        BY <2>11, AtJoined
    <2>2. a \o b \in Seq(N) /\ Len(a \o b) = 4
        BY <2>12, <2>13, <2>14
    <2>3. \A i \in 1..(Len(a) + Len(b)) : (a \o b)[i] = IF i <= Len(a) THEN a[i] ELSE b[i - Len(a)]
        BY <2>11, AtJoined
    <2> DEFINE D == 1..(Len(a) + Len(b))
    <2>4. 1 \in D /\ 2 \in D /\ 3 \in D /\ 4 \in D /\ ~(3 <= Len(a)) /\ ~(4 <= Len(a)) /\ 3 - Len(a) = 1 /\ 4 - Len(a) = 2
          /\ 1 <= Len(a) /\ 2 <= Len(a)
        BY <2>12
    <2> HIDE DEF D
    <2>5. (a \o b)[1] = a[1] /\ (a \o b)[2] = a[2] /\ (a \o b)[3] = b[1] /\ (a \o b)[4] = b[2]
        BY <2>3, <2>4 DEF D
    <2>6. \A i \in 1..4 : i = 1 \/ i = 2 \/ i = 3 \/ i = 4
        OBVIOUS
    <2>7. \A i \in 1..Len(a \o b) : (a \o b)[i] = c[i]
        BY <2>1, <2>2, <2>5, <2>6
    <2>8. a \o b = c
        BY <2>1, <2>2, <2>7, SeqEqual
    <2> QED BY <2>8 DEF a, b, c
<1> QED BY <1>1, <1>2, <1>3

\* What two picks of a team take, and what none take
LEMMA TakenAre ==
    ASSUME NEW s, NEW map, NEW team, NEW x, NEW y, OwnSlots[SideOf(team, CtTeam(s, map))] = <<x, y>>, x # y
    PROVE  /\ SeriesPicks(s, map, "mid", team) = <<>> => TakenBy(s, map, team) = {}
           /\ \A a, b : SeriesPicks(s, map, "mid", team) = <<a, b>> =>
                  TakenBy(s, map, team) = {x, y} /\ PickFor(s, map, team, x) = a /\ PickFor(s, map, team, y) = b
<1> DEFINE own == OwnSlots[SideOf(team, CtTeam(s, map))]
           M == SeriesPicks(s, map, "mid", team)
<1>1. own[1] = x /\ own[2] = y
    OBVIOUS
<1>2. TakenBy(s, map, team) = {own[k] : k \in DOMAIN M \cap {1, 2}}
    BY DEF TakenBy
<1>3. \A slot : PickFor(s, map, team, slot) = M[CHOOSE k \in {1, 2} : own[k] = slot]
    BY DEF PickFor
<1> HIDE DEF own
<1>4. (CHOOSE k \in {1, 2} : own[k] = x) = 1 /\ (CHOOSE k \in {1, 2} : own[k] = y) = 2
    BY <1>1
<1> HIDE DEF M
<1>5. M = <<>> => TakenBy(s, map, team) = {}
    <2>1. DOMAIN <<>> = {}
        OBVIOUS
    <2> QED BY <1>2, <2>1
<1>6. ASSUME NEW a, NEW b, M = <<a, b>>
      PROVE  TakenBy(s, map, team) = {x, y} /\ PickFor(s, map, team, x) = a /\ PickFor(s, map, team, y) = b
    <2>1. DOMAIN M = 1..2 /\ M[1] = a /\ M[2] = b
        BY <1>6
    <2>2. DOMAIN M \cap {1, 2} = {1, 2}
        BY <2>1
    <2>3. TakenBy(s, map, team) = {x, y}
        BY <1>1, <1>2, <2>2
    <2> QED BY <1>3, <1>4, <2>1, <2>3
<1> QED BY <1>5, <1>6 DEF M

\* A path by a start and four mid rooms, two of them beside each castle
GoesThrough(path, x, a, b, c, d) ==
    /\ path[0] = Castle.t /\ path[6] = Castle.ct /\ path[3] = x
    /\ \/ path[5] = a /\ path[4] = b /\ path[1] = c /\ path[2] = d
       \/ path[1] = a /\ path[2] = b /\ path[5] = c /\ path[4] = d

\* Which slots are open on a map where one team has picked
LEMMA OpenAre ==
    ASSUME NEW s, NEW map, CtTeam(s, map) \in {1, 2}
    PROVE  /\ TakenBy(s, map, 1) \cup TakenBy(s, map, 2) = {1, 2} => OpenOf(s, map) = <<5, 4>>
           /\ TakenBy(s, map, 1) \cup TakenBy(s, map, 2) = {5, 4} => OpenOf(s, map) = <<1, 2>>
<1> DEFINE q == <<1, 2, 5, 4>>
           T == TakenBy(s, map, 1) \cup TakenBy(s, map, 2)
           P == {i \in DOMAIN q : q[i] \in Slot \ T}
           one == 1
           two == 2
           three == 3
           four == 4
<1>1. OpenOf(s, map) = AtPlaces(q, P)
    BY OwnOf DEF OpenOf, Those
<1>2. /\ q \in Seq({1, 2, 4, 5}) /\ DOMAIN q = 1..4 /\ q[one] = 1 /\ q[two] = 2 /\ q[three] = 5 /\ q[four] = 4
      /\ \A i \in DOMAIN q : i = one \/ i = two \/ i = three \/ i = four
      /\ one \in DOMAIN q /\ two \in DOMAIN q /\ three \in DOMAIN q /\ four \in DOMAIN q
      /\ one < two /\ three < four
    OBVIOUS
<1>3. 1 \in Slot /\ 2 \in Slot /\ 4 \in Slot /\ 5 \in Slot
    BY DEF Slot
<1> HIDE DEF q, T, one, two, three, four
<1>4. ASSUME T = {1, 2} PROVE OpenOf(s, map) = <<5, 4>>
    <2>1. \A i \in DOMAIN q : i \in P <=> i = three \/ i = four
        BY <1>2, <1>3, <1>4
    <2> HIDE DEF P
    <2>2. q \in Seq({1, 2, 4, 5}) /\ three \in DOMAIN q /\ four \in DOMAIN q /\ three < four
        BY <1>2
    <2>3. AtPlaces(q, P) = <<q[three], q[four]>>
        BY <2>1, <2>2, AtTwo
    <2> QED BY <1>1, <1>2, <2>3
<1>5. ASSUME T = {5, 4} PROVE OpenOf(s, map) = <<1, 2>>
    <2>1. \A i \in DOMAIN q : i \in P <=> i = one \/ i = two
        BY <1>2, <1>3, <1>5
    <2> HIDE DEF P
    <2>2. q \in Seq({1, 2, 4, 5}) /\ one \in DOMAIN q /\ two \in DOMAIN q /\ one < two
        BY <1>2
    <2>3. AtPlaces(q, P) = <<q[one], q[two]>>
        BY <2>1, <2>2, AtTwo
    <2> QED BY <1>1, <1>2, <2>3
<1> QED BY <1>4, <1>5 DEF T

\* Both teams have picked two mid rooms
LEMMA BothHavePicked ==
    ASSUME NEW s, NEW map, CtTeam(s, map) \in {1, 2}, NEW p \in {1, 2}, NEW x, NEW a, NEW b, NEW c, NEW d,
           SeriesPicks(s, map, "mid", p) = <<a, b>>, SeriesPicks(s, map, "mid", OtherSide(p)) = <<c, d>>,
           StartOf(s, map) = <<x>>
    PROVE  GoesThrough(SeriesSlots(s, map), x, a, b, c, d)
<1> DEFINE ct == CtTeam(s, map)
           t == OtherSide(ct)
           For(team, slot) == PickFor(s, map, team, slot)
           T(team) == TakenBy(s, map, team)
           path == SeriesSlots(s, map)
<1>1. /\ OwnSlots[SideOf(ct, ct)] = <<5, 4>> /\ OwnSlots[SideOf(t, ct)] = <<1, 2>>
    BY OwnOf
<1>2. {1, 2} = {ct, t} /\ ct # t /\ ct # 0
    BY DEF OtherSide
<1>3. (p = ct /\ OtherSide(p) = t) \/ (p = t /\ OtherSide(p) = ct)
    BY DEF OtherSide
<1>4. \A e, f : SeriesPicks(s, map, "mid", ct) = <<e, f>> => T(ct) = {5, 4} /\ For(ct, 5) = e /\ For(ct, 4) = f
    <2> DEFINE y == 5
               z == 4
    <2>1. OwnSlots[SideOf(ct, CtTeam(s, map))] = <<y, z>> /\ y # z
        BY <1>1
    <2> HIDE DEF y, z, ct
    <2>2. \A e, f : SeriesPicks(s, map, "mid", ct) = <<e, f>> =>
              TakenBy(s, map, ct) = {y, z} /\ PickFor(s, map, ct, y) = e /\ PickFor(s, map, ct, z) = f
        BY <2>1, TakenAre
    <2> QED BY <2>2 DEF y, z
<1>5. \A e, f : SeriesPicks(s, map, "mid", t) = <<e, f>> => T(t) = {1, 2} /\ For(t, 1) = e /\ For(t, 2) = f
    <2> DEFINE y == 1
               z == 2
    <2>1. OwnSlots[SideOf(t, CtTeam(s, map))] = <<y, z>> /\ y # z
        BY <1>1
    <2> HIDE DEF y, z, t
    <2>2. \A e, f : SeriesPicks(s, map, "mid", t) = <<e, f>> =>
              TakenBy(s, map, t) = {y, z} /\ PickFor(s, map, t, y) = e /\ PickFor(s, map, t, z) = f
        BY <2>1, TakenAre
    <2> QED BY <2>2 DEF y, z
<1>6. /\ path[0] = Castle.t /\ path[6] = Castle.ct /\ path[3] = x
    <2>1. StartOf(s, map) # <<>> /\ StartOf(s, map)[1] = x
        OBVIOUS
    <2>2. path[0] = Castle.t /\ path[6] = Castle.ct
        BY SlotsUnfold
    <2>3. path[3] = IF StartOf(s, map) = <<>> THEN Open ELSE StartOf(s, map)[1]
        BY SlotsUnfold
    <2> QED BY <2>1, <2>2, <2>3
<1>7. \A slot \in {1, 2, 4, 5} : slot \in T(1) \cup T(2) => path[slot] = For(CHOOSE team \in {1, 2} : slot \in T(team), slot)
    BY <1>2, SlotsUnfold
<1>8. T(ct) = {5, 4} /\ T(t) = {1, 2}
    BY <1>3, <1>4, <1>5
<1> HIDE DEF ct, t, T, For, path
<1>9. T(1) \cup T(2) = T(ct) \cup T(t)
    BY <1>2
<1>10. /\ (CHOOSE team \in {1, 2} : 5 \in T(team)) = ct /\ (CHOOSE team \in {1, 2} : 4 \in T(team)) = ct
       /\ (CHOOSE team \in {1, 2} : 1 \in T(team)) = t /\ (CHOOSE team \in {1, 2} : 2 \in T(team)) = t
    BY <1>2, <1>8
<1>11. path[5] = For(ct, 5) /\ path[4] = For(ct, 4) /\ path[1] = For(t, 1) /\ path[2] = For(t, 2)
    BY <1>7, <1>8, <1>9, <1>10
<1>12. CASE p = ct /\ OtherSide(p) = t
    <2>1. For(ct, 5) = a /\ For(ct, 4) = b /\ For(t, 1) = c /\ For(t, 2) = d
        BY <1>4, <1>5, <1>12
    <2> QED BY <1>6, <1>11, <2>1 DEF GoesThrough, path
<1>13. CASE p = t /\ OtherSide(p) = ct
    <2>1. For(ct, 5) = c /\ For(ct, 4) = d /\ For(t, 1) = a /\ For(t, 2) = b
        BY <1>4, <1>5, <1>13
    <2> QED BY <1>6, <1>11, <2>1 DEF GoesThrough, path
<1> QED BY <1>3, <1>12, <1>13

\* The one start pick of a map is in its middle slot.
LEMMA StartSlotIs ==
    ASSUME NEW s, NEW map, NEW x, StartOf(s, map) = <<x>>
    PROVE  SeriesSlots(s, map)[3] = x
<1>1. StartOf(s, map) # <<>> /\ StartOf(s, map)[1] = x
    OBVIOUS
<1>2. SeriesSlots(s, map)[3] = IF StartOf(s, map) = <<>> THEN Open ELSE StartOf(s, map)[1]
    BY SlotsUnfold
<1> QED BY <1>1, <1>2

\* One team has picked two mid rooms, and the other slots take what is left
LEMMA OneHasPicked ==
    ASSUME NEW s, NEW map, CtTeam(s, map) \in {1, 2}, NEW p \in {1, 2}, NEW x, NEW a, NEW b, s.done,
           SeriesPicks(s, map, "mid", p) = <<a, b>>, SeriesPicks(s, map, "mid", OtherSide(p)) = <<>>,
           StartOf(s, map) = <<x>>, 1 \in DOMAIN LeftOf(s, MidPool), 2 \in DOMAIN LeftOf(s, MidPool)
    PROVE  GoesThrough(SeriesSlots(s, map), x, a, b, LeftOf(s, MidPool)[1], LeftOf(s, MidPool)[2])
<1> DEFINE ct == CtTeam(s, map)
           t == OtherSide(ct)
           o == OtherSide(p)
           T(team) == TakenBy(s, map, team)
           path == SeriesSlots(s, map)
           left == LeftOf(s, MidPool)
           open == OpenOf(s, map)
           own == OwnSlots[SideOf(p, ct)]
           y == IF p = ct THEN 5 ELSE 1
           z == IF p = ct THEN 4 ELSE 2
<1>1. /\ OwnSlots[SideOf(ct, ct)] = <<5, 4>> /\ OwnSlots[SideOf(t, ct)] = <<1, 2>>
    BY OwnOf
<1>2. {1, 2} = {p, o} /\ p # o /\ ct # 0
    BY DEF OtherSide
<1>3. (p = ct /\ o = t) \/ (p = t /\ o = ct /\ p # ct)
    BY DEF OtherSide
<1>4. own = <<y, z>> /\ y # z
    <2> HIDE DEF ct, t, o
    <2> QED BY <1>1, <1>3
<1>5. T(p) = {y, z} /\ PickFor(s, map, p, y) = a /\ PickFor(s, map, p, z) = b
    <2>1. OwnSlots[SideOf(p, CtTeam(s, map))] = <<y, z>> /\ y # z
        BY <1>4
    <2> HIDE DEF y, z
    <2> QED BY <2>1, TakenAre
<1>6. T(o) = {}
    <2>1. \E u, v : OwnSlots[SideOf(o, CtTeam(s, map))] = <<u, v>> /\ u # v
        <3>1. 5 # 4 /\ 1 # 2
            OBVIOUS
        <3>2. OwnSlots[SideOf(o, ct)] = <<5, 4>> \/ OwnSlots[SideOf(o, ct)] = <<1, 2>>
            <4> HIDE DEF ct, t, o
            <4> QED BY <1>1, <1>3
        <3> QED BY <3>1, <3>2
    <2>2. SeriesPicks(s, map, "mid", o) = <<>>
        OBVIOUS
    <2> HIDE DEF o
    <2> QED BY <2>1, <2>2, TakenAre
<1>7. path[0] = Castle.t /\ path[6] = Castle.ct
    BY SlotsUnfold
<1>8. path[3] = x
    BY StartSlotIs
<1>9. \A slot \in {1, 2, 4, 5} :
          /\ slot \in T(1) \cup T(2) => path[slot] = PickFor(s, map, CHOOSE team \in {1, 2} : slot \in T(team), slot)
          /\ slot \notin T(1) \cup T(2) =>
                 \A i : (i = (CHOOSE j \in DOMAIN open : open[j] = slot) /\ s.done /\ i \in DOMAIN left) => path[slot] = left[i]
    BY <1>2, SlotsUnfold
<1>10. /\ T(1) \cup T(2) = {1, 2} => open = <<5, 4>>
       /\ T(1) \cup T(2) = {5, 4} => open = <<1, 2>>
    BY OpenAre
<1>11. \A u, v : (open = <<u, v>> /\ u # v) =>
                     /\ (CHOOSE j \in DOMAIN open : open[j] = u) = 1 /\ (CHOOSE j \in DOMAIN open : open[j] = v) = 2
    <2> HIDE DEF open
    <2> QED OBVIOUS
<1> HIDE DEF T, path, left, open, own, o, ct
<1>12. T(1) \cup T(2) = {y, z}
    BY <1>2, <1>5, <1>6
<1>13. \A slot \in {y, z} : (CHOOSE team \in {1, 2} : slot \in T(team)) = p
    BY <1>2, <1>5, <1>6
<1>14. y \in {1, 2, 4, 5} /\ z \in {1, 2, 4, 5}
    OBVIOUS
<1>15. path[y] = a /\ path[z] = b
    <2> HIDE DEF y, z
    <2>1. y \in T(1) \cup T(2) /\ z \in T(1) \cup T(2) /\ y \in {y, z} /\ z \in {y, z}
        BY <1>12
    <2>2. /\ path[y] = PickFor(s, map, CHOOSE team \in {1, 2} : y \in T(team), y)
          /\ path[z] = PickFor(s, map, CHOOSE team \in {1, 2} : z \in T(team), z)
        BY <1>9, <1>14, <2>1
    <2>3. (CHOOSE team \in {1, 2} : y \in T(team)) = p /\ (CHOOSE team \in {1, 2} : z \in T(team)) = p
        BY <1>13, <2>1
    <2> QED BY <1>5, <2>2, <2>3
<1>16. 1 \in DOMAIN left /\ 2 \in DOMAIN left
    BY DEF left
<1>17. CASE p = ct
    <2>1. y = 5 /\ z = 4
        BY <1>17
    <2>2. open = <<1, 2>>
        BY <1>10, <1>12, <2>1
    <2>3. (CHOOSE j \in DOMAIN open : open[j] = 1) = 1 /\ (CHOOSE j \in DOMAIN open : open[j] = 2) = 2
        BY <1>11, <2>2
    <2>4. 1 \notin T(1) \cup T(2) /\ 2 \notin T(1) \cup T(2)
        BY <1>12, <2>1
    <2>5. path[1] = left[1] /\ path[2] = left[2]
        BY <1>9, <1>16, <2>3, <2>4
    <2> QED BY <1>7, <1>8, <1>15, <2>1, <2>5 DEF GoesThrough, path, left
<1>18. CASE p # ct
    <2>1. y = 1 /\ z = 2
        BY <1>18
    <2>2. open = <<5, 4>>
        BY <1>10, <1>12, <2>1
    <2>3. (CHOOSE j \in DOMAIN open : open[j] = 5) = 1 /\ (CHOOSE j \in DOMAIN open : open[j] = 4) = 2
        BY <1>11, <2>2
    <2>4. 5 \notin T(1) \cup T(2) /\ 4 \notin T(1) \cup T(2)
        BY <1>12, <2>1
    <2>5. path[5] = left[1] /\ path[4] = left[2]
        BY <1>9, <1>16, <2>3, <2>4
    <2> QED BY <1>7, <1>8, <1>15, <2>1, <2>5 DEF GoesThrough, path, left
<1> QED BY <1>17, <1>18

\* A path by a start and four mid rooms that differ is one the game server accepts, and those are its rooms
LEMMA GoesWell ==
    ASSUME NEW path, NEW x, NEW a, NEW b, NEW c, NEW d, GoesThrough(path, x, a, b, c, d), x \in Items(StartPool),
           a \in Items(MidPool), b \in Items(MidPool), c \in Items(MidPool), d \in Items(MidPool),
           a # b, a # c, a # d, b # c, b # d, c # d
    PROVE  /\ ValidPath(path)
           /\ {path[slot] : slot \in Slot} \ {Castle.t, Castle.ct} \subseteq {x, a, b, c, d}
<1>1. /\ \A k \in {1, 2, 4, 5} : path[k] \in Items(MidPool)
      /\ \A k, l \in {1, 2, 4, 5} : path[k] = path[l] => k = l
      /\ path[3] \in Items(StartPool) /\ path[0] = Castle.t /\ path[6] = Castle.ct
    BY DEF GoesThrough
<1>2. ValidPath(path)
    BY <1>1, PathIsValid
<1>3. \A slot \in Slot : slot = 0 \/ slot = 1 \/ slot = 2 \/ slot = 3 \/ slot = 4 \/ slot = 5 \/ slot = 6
    BY DEF Slot
<1>4. \A slot \in Slot : path[slot] \in {x, a, b, c, d, Castle.t, Castle.ct}
    BY <1>3 DEF GoesThrough
<1> QED BY <1>2, <1>4

\* The empty sequence adds nothing to a sequence of one.
LEMMA JoinOne == ASSUME NEW x PROVE <<>> \o <<x>> = <<x>> /\ <<x>> \o <<>> = <<x>>
<1> DEFINE e == <<>>
           a == <<x>>
           N == {x}
<1>1. e \in Seq(N) /\ a \in Seq(N)
    OBVIOUS
<1>2. e = <<>>
    OBVIOUS
<1> HIDE DEF e, a, N
<1>3. <<>> \o a = a /\ a \o <<>> = a
    BY <1>1, <1>2, ConcatEmptySeq
<1> QED BY <1>3 DEF a

\* The start of a map, picked by one of the teams
LEMMA OneStart ==
    ASSUME NEW s, NEW map, NEW p \in {1, 2}, NEW x, SeriesPicks(s, map, "start", p) = <<x>>,
           SeriesPicks(s, map, "start", OtherSide(p)) = <<>>
    PROVE  StartOf(s, map) = <<x>>
<1>1. CASE p = 1
    <2>1. OtherSide(p) = 2
        BY <1>1 DEF OtherSide
    <2> QED BY <1>1, <2>1, JoinOne DEF StartOf
<1>2. CASE p = 2
    <2>1. OtherSide(p) = 1
        BY <1>2 DEF OtherSide
    <2> QED BY <1>2, <2>1, JoinOne DEF StartOf
<1> QED BY <1>1, <1>2

\* Two mid rooms at least are left of a series, for the slots of the team that picks none
LEMMA TwoAreLeft ==
    ASSUME NEW V, NEW s, NEW first \in {1, 2}, NEW flip \in {1, 2}, SeriesOver(s, V, first, flip)
    PROVE  LET left == LeftOf(s, MidPool)
           IN  /\ 1 \in DOMAIN left /\ 2 \in DOMAIN left /\ left[1] # left[2]
               /\ \A k \in {1, 2} : left[k] \in Items(MidPool) /\ \A i \in 1..15 : left[k] # s.history[i].mapId
<1> DEFINE left == LeftOf(s, MidPool)
           R == Items(RoomsOfSeries)
           r(i) == s.history[i].mapId
           M == Items(MidPool)
           rest == Without(M, r(2), r(3), r(4), r(5), r(7), r(8), r(9), r(10), r(13), r(14))
<1>1. SeriesFacts(s, first, flip)
    BY SeriesDrawn
<1>2. s.available \in Seq(R) /\ NoRepeat(s.available)
    BY <1>1 DEF SeriesFacts
<1>3. M \subseteq R /\ M \cap Items(StartPool) = {}
    BY SeriesPool, KindsOfRooms DEF RoomsOfSeries
<1>4. IsFiniteSet(M) /\ Cardinality(M) = 12
    <2>1. MidPool \in Seq(Rooms) /\ NoRepeat(MidPool) /\ Len(MidPool) = 12
        BY MidRooms
    <2>2. IsFiniteSet(M) /\ Cardinality(M) = Len(MidPool)
        BY <2>1, AsManyItems
    <2> QED BY <2>1, <2>2
<1> HIDE DEF R, r, M
<1>5. IsFiniteSet(rest) /\ Cardinality(rest) >= 2
    BY <1>4, TwoRemain
<1>6. left \in Seq(R) /\ NoRepeat(left) /\ Items(left) = Items(s.available) \cap M
    BY <1>2, LeftOfKind DEF M
<1>7. /\ \A i \in {6, 11, 15} : r(i) \notin M
      /\ r(1) \notin M /\ r(12) \notin M
      /\ \A i \in 1..15 : r(i) \notin Items(s.available)
      /\ \A m \in R : m \in Items(s.available) \/ \E i \in 1..15 : m = r(i)
    <2>1. /\ \A i \in {6, 11, 15} : r(i) \in Items(StartPool)
          /\ r(1) \notin M /\ r(12) \notin M
          /\ \A i \in 1..15 : r(i) \notin Items(s.available)
          /\ \A m \in R : m \in Items(s.available) \/ \E i \in 1..15 : m = r(i)
        BY <1>1 DEF SeriesFacts, R, r, M
    <2> QED BY <1>3, <2>1
<1>8. rest \subseteq Items(left)
    <2> SUFFICES ASSUME NEW m \in rest PROVE m \in Items(left)
        OBVIOUS
    <2>1. /\ m \in M /\ m \in R
          /\ m # r(2) /\ m # r(3) /\ m # r(4) /\ m # r(5) /\ m # r(7) /\ m # r(8) /\ m # r(9) /\ m # r(10)
          /\ m # r(13) /\ m # r(14)
        BY <1>3 DEF Without
    <2>2. ASSUME NEW i \in 1..15, m = r(i) PROVE FALSE
        <3>1. i = 1 \/ i = 2 \/ i = 3 \/ i = 4 \/ i = 5 \/ i = 6 \/ i = 7 \/ i = 8 \/ i = 9 \/ i = 10 \/ i = 11 \/ i = 12
              \/ i = 13 \/ i = 14 \/ i = 15
            OBVIOUS
        <3>2. i \notin {1, 6, 11, 12, 15}
            BY <1>7, <2>1, <2>2
        <3> QED BY <2>1, <2>2, <3>1, <3>2
    <2> QED BY <1>6, <1>7, <2>1, <2>2
<1> HIDE DEF left, rest
<1>9. IsFiniteSet(Items(left)) /\ Cardinality(Items(left)) = Len(left)
    BY <1>6, AsManyItems
<1>10. Len(left) >= 2 /\ Len(left) \in Nat
    <2>1. Cardinality(rest) <= Cardinality(Items(left))
        BY <1>8, <1>9, FS_Subset
    <2>2. Cardinality(rest) \in Nat
        BY <1>5, FS_CardinalityType
    <2>3. Len(left) \in Nat
        BY <1>6, LenProperties
    <2> QED BY <1>5, <1>9, <2>1, <2>2, <2>3
<1>11. DOMAIN left = 1..Len(left)
    BY <1>6, LenProperties
<1>12. 1 \in DOMAIN left /\ 2 \in DOMAIN left
    BY <1>10, <1>11
<1>13. left[1] # left[2]
    BY <1>6, <1>12 DEF NoRepeat
<1>14. ASSUME NEW k \in {1, 2} PROVE left[k] \in M /\ \A i \in 1..15 : left[k] # r(i)
    <2>1. left[k] \in Items(left)
        BY <1>12 DEF Items
    <2> QED BY <1>6, <1>7, <2>1
<1> QED BY <1>12, <1>13, <1>14 DEF left, M, r

\* The five rooms of a map that a series goes through, those of map 3 with two that are left
Thru(s, m) ==
    LET r(i) == s.history[i].mapId
        left == LeftOf(s, MidPool)
    IN  IF m = 1 THEN {r(6), r(2), r(4), r(3), r(5)}
        ELSE IF m = 2 THEN {r(11), r(8), r(10), r(7), r(9)}
        ELSE {r(15), r(13), r(14), left[1], left[2]}
\* The rooms of a path between the two castles.
InnerRooms(path) == {path[slot] : slot \in Slot} \ {Castle.t, Castle.ct}

\* Each map of a series that is done has a path through its own rooms
LEMMA PathsOfSeries ==
    ASSUME NEW V, NEW s, NEW first \in {1, 2}, NEW flip \in {1, 2}, SeriesOver(s, V, first, flip)
    PROVE  \A m \in {1, 2, 3} : ValidPath(SeriesSlots(s, m)) /\ InnerRooms(SeriesSlots(s, m)) \subseteq Thru(s, m)
<1> DEFINE r(i) == s.history[i].mapId
           left == LeftOf(s, MidPool)
           M == Items(MidPool)
           o == OtherSide(first)
           l == OtherSide(flip)
<1>1. SeriesFacts(s, first, flip) /\ s.done
    BY SeriesDrawn DEF SeriesOver
<1>2. /\ CtTeam(s, 1) \in {1, 2} /\ CtTeam(s, 2) \in {1, 2} /\ CtTeam(s, 3) \in {1, 2}
    BY SidesAre DEF OtherSide
<1>3. /\ SeriesPicks(s, 1, "mid", first) = <<r(2), r(4)>> /\ SeriesPicks(s, 1, "mid", o) = <<r(3), r(5)>>
      /\ SeriesPicks(s, 2, "mid", first) = <<r(8), r(10)>> /\ SeriesPicks(s, 2, "mid", o) = <<r(7), r(9)>>
      /\ SeriesPicks(s, 3, "mid", l) = <<r(13), r(14)>> /\ SeriesPicks(s, 3, "mid", flip) = <<>>
    BY PicksOfSeries
<1>4. /\ SeriesPicks(s, 1, "start", first) = <<>> /\ SeriesPicks(s, 1, "start", o) = <<r(6)>>
      /\ SeriesPicks(s, 2, "start", first) = <<r(11)>> /\ SeriesPicks(s, 2, "start", o) = <<>>
      /\ SeriesPicks(s, 3, "start", flip) = <<r(15)>> /\ SeriesPicks(s, 3, "start", l) = <<>>
    BY PicksOfSeries
<1>5. o \in {1, 2} /\ l \in {1, 2} /\ OtherSide(o) = first /\ OtherSide(l) = flip
    BY DEF OtherSide
<1>6. 1 \in DOMAIN left /\ 2 \in DOMAIN left /\ left[1] # left[2]
    BY TwoAreLeft
<1>7. \A k \in {1, 2} : left[k] \in M /\ \A i \in 1..15 : left[k] # r(i)
    BY TwoAreLeft
<1>8. /\ r(2) \in M /\ r(3) \in M /\ r(4) \in M /\ r(5) \in M /\ r(7) \in M /\ r(8) \in M /\ r(9) \in M /\ r(10) \in M
      /\ r(13) \in M /\ r(14) \in M
      /\ r(6) \in Items(StartPool) /\ r(11) \in Items(StartPool) /\ r(15) \in Items(StartPool)
    BY <1>1 DEF SeriesFacts
<1>9. \A i, j \in 1..15 : i # j => r(i) # r(j)
    BY <1>1 DEF SeriesFacts
<1> HIDE DEF o, l, left, r
<1> DEFINE G(m, x, a, b, c, d) == GoesThrough(SeriesSlots(s, m), x, a, b, c, d)
<1>10. G(1, r(6), r(2), r(4), r(3), r(5))
    <2> DEFINE m == 1
    <2>1. /\ CtTeam(s, m) \in {1, 2} /\ SeriesPicks(s, m, "mid", first) = <<r(2), r(4)>>
          /\ SeriesPicks(s, m, "mid", OtherSide(first)) = <<r(3), r(5)>>
          /\ SeriesPicks(s, m, "start", o) = <<r(6)>> /\ SeriesPicks(s, m, "start", OtherSide(o)) = <<>>
        BY <1>2, <1>3, <1>4, <1>5 DEF o
    <2> HIDE DEF m
    <2>2. StartOf(s, m) = <<r(6)>>
        BY <1>5, <2>1, OneStart
    <2>3. G(m, r(6), r(2), r(4), r(3), r(5))
        BY <2>1, <2>2, BothHavePicked
    <2> QED BY <2>3 DEF m
<1>11. G(2, r(11), r(8), r(10), r(7), r(9))
    <2> DEFINE m == 2
    <2>1. /\ CtTeam(s, m) \in {1, 2} /\ SeriesPicks(s, m, "mid", first) = <<r(8), r(10)>>
          /\ SeriesPicks(s, m, "mid", OtherSide(first)) = <<r(7), r(9)>>
          /\ SeriesPicks(s, m, "start", first) = <<r(11)>> /\ SeriesPicks(s, m, "start", OtherSide(first)) = <<>>
        BY <1>2, <1>3, <1>4, <1>5 DEF o
    <2> HIDE DEF m
    <2>2. StartOf(s, m) = <<r(11)>>
        BY <2>1, OneStart
    <2>3. G(m, r(11), r(8), r(10), r(7), r(9))
        BY <2>1, <2>2, BothHavePicked
    <2> QED BY <2>3 DEF m
<1>12. G(3, r(15), r(13), r(14), left[1], left[2])
    <2> DEFINE m == 3
    <2>1. /\ CtTeam(s, m) \in {1, 2} /\ SeriesPicks(s, m, "mid", l) = <<r(13), r(14)>>
          /\ SeriesPicks(s, m, "mid", OtherSide(l)) = <<>>
          /\ SeriesPicks(s, m, "start", flip) = <<r(15)>> /\ SeriesPicks(s, m, "start", OtherSide(flip)) = <<>>
        BY <1>2, <1>3, <1>4, <1>5 DEF l
    <2> HIDE DEF m
    <2>2. StartOf(s, m) = <<r(15)>>
        BY <2>1, OneStart
    <2>3. G(m, r(15), r(13), r(14), left[1], left[2])
        BY <1>1, <1>5, <1>6, <2>1, <2>2, OneHasPicked DEF left
    <2> QED BY <2>3 DEF m
<1>13. ASSUME NEW m, NEW x \in Items(StartPool), NEW a \in M, NEW b \in M, NEW c \in M, NEW d \in M, G(m, x, a, b, c, d),
              a # b, a # c, a # d, b # c, b # d, c # d
       PROVE  ValidPath(SeriesSlots(s, m)) /\ InnerRooms(SeriesSlots(s, m)) \subseteq {x, a, b, c, d}
    BY <1>13, GoesWell DEF InnerRooms
<1> HIDE DEF G, M
<1>14. ValidPath(SeriesSlots(s, 1)) /\ InnerRooms(SeriesSlots(s, 1)) \subseteq Thru(s, 1)
    <2>1. r(2) # r(4) /\ r(2) # r(3) /\ r(2) # r(5) /\ r(4) # r(3) /\ r(4) # r(5) /\ r(3) # r(5)
        BY <1>9
    <2>2. ValidPath(SeriesSlots(s, 1)) /\ InnerRooms(SeriesSlots(s, 1)) \subseteq {r(6), r(2), r(4), r(3), r(5)}
        BY <1>8, <1>10, <1>13, <2>1
    <2> QED BY <2>2 DEF Thru, r
<1>15. ValidPath(SeriesSlots(s, 2)) /\ InnerRooms(SeriesSlots(s, 2)) \subseteq Thru(s, 2)
    <2>1. r(8) # r(10) /\ r(8) # r(7) /\ r(8) # r(9) /\ r(10) # r(7) /\ r(10) # r(9) /\ r(7) # r(9)
        BY <1>9
    <2>2. ValidPath(SeriesSlots(s, 2)) /\ InnerRooms(SeriesSlots(s, 2)) \subseteq {r(11), r(8), r(10), r(7), r(9)}
        BY <1>8, <1>11, <1>13, <2>1
    <2> QED BY <2>2 DEF Thru, r
<1>16. ValidPath(SeriesSlots(s, 3)) /\ InnerRooms(SeriesSlots(s, 3)) \subseteq Thru(s, 3)
    <2>1. r(13) # r(14) /\ left[1] # r(13) /\ left[1] # r(14) /\ left[2] # r(13) /\ left[2] # r(14)
        BY <1>7, <1>9
    <2>2. left[1] \in M /\ left[2] \in M
        BY <1>7
    <2>3. ValidPath(SeriesSlots(s, 3)) /\ InnerRooms(SeriesSlots(s, 3)) \subseteq {r(15), r(13), r(14), left[1], left[2]}
        BY <1>6, <1>8, <1>12, <1>13, <2>1, <2>2
    <2> QED BY <2>3 DEF Thru, r, left
<1> QED BY <1>14, <1>15, <1>16

\* No room is on two maps of a series
LEMMA MapsAreApart ==
    ASSUME NEW V, NEW s, NEW first \in {1, 2}, NEW flip \in {1, 2}, SeriesOver(s, V, first, flip)
    PROVE  \A m, n \in {1, 2, 3} : m # n => Thru(s, m) \cap Thru(s, n) = {}
<1> DEFINE r(i) == s.history[i].mapId
           left == LeftOf(s, MidPool)
<1>1. \A i, j \in 1..15 : i # j => r(i) # r(j)
    <2>1. SeriesFacts(s, first, flip)
        BY SeriesDrawn
    <2> QED BY <2>1 DEF SeriesFacts
<1>2. \A k \in {1, 2} : \A i \in 1..15 : left[k] # r(i)
    BY TwoAreLeft
<1>3. /\ Thru(s, 1) = {r(6), r(2), r(4), r(3), r(5)} /\ Thru(s, 2) = {r(11), r(8), r(10), r(7), r(9)}
      /\ Thru(s, 3) = {r(15), r(13), r(14), left[1], left[2]}
    BY DEF Thru
<1> HIDE DEF r, left
<1>4. Thru(s, 1) \cap Thru(s, 2) = {}
    <2>1. \A i \in {6, 2, 4, 3, 5}, j \in {11, 8, 10, 7, 9} : r(i) # r(j)
        BY <1>1
    <2> QED BY <1>3, <2>1
<1>5. Thru(s, 1) \cap Thru(s, 3) = {}
    <2>1. \A i \in {6, 2, 4, 3, 5}, j \in {15, 13, 14} : r(i) # r(j)
        BY <1>1
    <2>2. \A i \in {6, 2, 4, 3, 5} : r(i) # left[1] /\ r(i) # left[2]
        BY <1>2
    <2> QED BY <1>3, <2>1, <2>2
<1>6. Thru(s, 2) \cap Thru(s, 3) = {}
    <2>1. \A i \in {11, 8, 10, 7, 9}, j \in {15, 13, 14} : r(i) # r(j)
        BY <1>1
    <2>2. \A i \in {11, 8, 10, 7, 9} : r(i) # left[1] /\ r(i) # left[2]
        BY <1>2
    <2> QED BY <1>3, <2>1, <2>2
<1> QED BY <1>4, <1>5, <1>6

\* A series veto that is done gives a path on every map, no room twice, and the sides swapped on map 2
LEMMA SeriesMakesPaths ==
    ASSUME NEW V, NEW s, NEW first \in {1, 2}, NEW flip \in {1, 2}, SeriesOver(s, V, first, flip)
    PROVE  /\ \A m \in SeriesMaps : ValidPath(SeriesSlots(s, m)) /\ CtTeam(s, m) # 0
           /\ \A m, o \in SeriesMaps : m # o => InnerRooms(SeriesSlots(s, m)) \cap InnerRooms(SeriesSlots(s, o)) = {}
           /\ CtTeam(s, 2) = OtherSide(CtTeam(s, 1))
<1>1. SeriesMaps = {1, 2, 3}
    BY DEF SeriesMaps
<1>2. CtTeam(s, 1) \in {1, 2} /\ CtTeam(s, 2) = OtherSide(CtTeam(s, 1)) /\ CtTeam(s, 3) \in {1, 2}
    BY SidesAre
<1>3. CtTeam(s, 1) # 0 /\ CtTeam(s, 2) # 0 /\ CtTeam(s, 3) # 0
    BY <1>2 DEF OtherSide
<1>4. \A m \in {1, 2, 3} : ValidPath(SeriesSlots(s, m)) /\ InnerRooms(SeriesSlots(s, m)) \subseteq Thru(s, m)
    BY PathsOfSeries
<1>5. \A m, n \in {1, 2, 3} : m # n => Thru(s, m) \cap Thru(s, n) = {}
    BY MapsAreApart
<1>6. \A m, n \in {1, 2, 3} : m # n => InnerRooms(SeriesSlots(s, m)) \cap InnerRooms(SeriesSlots(s, n)) = {}
    BY <1>4, <1>5
<1> QED BY <1>1, <1>2, <1>3, <1>4, <1>6

-----------------------------------------------------------------------------
(***************************************************************************)
(* A veto of any format                                                    *)
(***************************************************************************)

\* A veto of one of the formats, begun by one of the teams, between two steps
VetoFits(format, s) ==
    \/ format = "bo1" /\ \E n \in Bo1Pools, first \in FirstTeams :
           VetoInv(s, Maps(n), 1..6, Items(Maps(n))) /\ s.steps = BanToNSteps(n, 1, first)
    \/ format = "bo3" /\ \E n \in Bo3Pools, first \in FirstTeams :
           VetoInv(s, Maps(n), 1..6, Items(Maps(n))) /\ s.steps = Bo3Steps(n, first)
    \/ format = "rooms" /\ \E first \in FirstTeams :
           /\ VetoInv(s, MidPool \o StartPool, 1..6, Items(MidPool \o StartPool))
           /\ s.steps = RoomVetoSteps(first) /\ s.phases = RoomFormat
    \/ format = "series" /\ \E first \in FirstTeams, flip \in {1, 2} :
           /\ VetoInv(s, RoomsOfSeries, 1..6, Items(RoomsOfSeries))
           /\ s.steps = SeriesStepsFor(first, flip) /\ s.phases = SeriesPhaseList

\* Two sides of one or of three players
LEMMA TeamsOfVeto == \A size \in {1, 3} : VetoTeams(size) \in [{1, 2} -> SUBSET (1..6)]
<1>1. ASSUME NEW a \in SUBSET (1..6), NEW b \in SUBSET (1..6) PROVE <<a, b>> \in [{1, 2} -> SUBSET (1..6)]
    <2>1. DOMAIN <<a, b>> = {1, 2} /\ <<a, b>>[1] = a /\ <<a, b>>[2] = b
        OBVIOUS
    <2> DEFINE f == <<a, b>>
    <2>2. f = [i \in {1, 2} |-> f[i]]
        <3>1. f = [i \in 1..2 |-> f[i]]
            OBVIOUS
        <3>2. 1..2 = {1, 2}
            OBVIOUS
        <3> HIDE DEF f
        <3> QED BY <3>1, <3>2
    <2>3. \A i \in {1, 2} : f[i] \in SUBSET (1..6)
        BY <2>1
    <2> HIDE DEF f
    <2>4. f \in [{1, 2} -> SUBSET (1..6)]
        BY <2>2, <2>3
    <2> QED BY <2>4 DEF f
<1>2. {1} \in SUBSET (1..6) /\ {4} \in SUBSET (1..6) /\ {1, 2, 3} \in SUBSET (1..6) /\ {4, 5, 6} \in SUBSET (1..6)
    OBVIOUS
<1>3. <<{1}, {4}>> \in [{1, 2} -> SUBSET (1..6)] /\ <<{1, 2, 3}, {4, 5, 6}>> \in [{1, 2} -> SUBSET (1..6)]
    BY <1>1, <1>2
<1>4. VetoTeams(1) = <<{1}, {4}>> /\ VetoTeams(3) = <<{1, 2, 3}, {4, 5, 6}>>
    BY DEF VetoTeams
<1> QED BY <1>3, <1>4

\* Each veto begins so
LEMMA VetoFitsAtFirst == \A v \in Vetoes : v = [format |-> v.format, state |-> v.state] /\ VetoFits(v.format, v.state)
<1> SUFFICES ASSUME NEW v \in Vetoes PROVE v = [format |-> v.format, state |-> v.state] /\ VetoFits(v.format, v.state)
    OBVIOUS
<1>1. VetoTeams(1) \in [{1, 2} -> SUBSET (1..6)] /\ VetoTeams(3) \in [{1, 2} -> SUBSET (1..6)]
    BY TeamsOfVeto
<1>2. ASSUME NEW pool, pool \in Seq(Items(pool)), NoRepeat(pool), NEW size \in {1, 3}, NEW steps \in Steps, Len(steps) # 0,
             NEW phases
      PROVE  LET s == CreateVeto(pool, VetoTeams(size), steps, phases)
             IN  VetoInv(s, pool, 1..6, Items(pool)) /\ s.steps = steps /\ s.phases = phases
    <2> DEFINE s == CreateVeto(pool, VetoTeams(size), steps, phases)
    <2>1. steps # <<>>
        BY <1>2
    <2>2. s.steps = steps /\ s.phases = phases
        BY DEF CreateVeto
    <2>3. VetoTeams(size) \in [{1, 2} -> SUBSET (1..6)]
        BY TeamsOfVeto
    <2> DEFINE teams == VetoTeams(size)
               V == 1..6
    <2> HIDE DEF teams, V
    <2>4. VetoInv(CreateVeto(pool, teams, steps, phases), pool, V, Items(pool))
        BY <1>2, <2>1, <2>3, VetoBegins DEF teams, V
    <2> QED BY <2>2, <2>4 DEF teams, V
<1>3. \A first \in FirstTeams : first \in {1, 2}
    BY PoolAssumption
<1>4. ASSUME NEW n \in Bo1Pools, NEW first \in FirstTeams,
             v = [format |-> "bo1", state |-> CreateVeto(Maps(n), VetoTeams(3), BanToNSteps(n, 1, first), <<>>)]
      PROVE  v = [format |-> v.format, state |-> v.state] /\ VetoFits(v.format, v.state)
    <2> DEFINE steps == BanToNSteps(n, 1, first)
               pool == Maps(n)
    <2>1. n \in Nat /\ n > 1
        BY PoolAssumption
    <2>2. steps \in Steps /\ Len(steps) # 0
        <3>1. first \in {1, 2}
            BY <1>3
        <3>2. steps \in Steps
            BY <2>1, <3>1, Bo1Begins
        <3>3. Len(steps) = n - 1
            BY <2>1, <3>1, Bo1Begins
        <3> HIDE DEF steps
        <3> QED BY <2>1, <3>2, <3>3
    <2>3. pool \in Seq(Items(pool)) /\ NoRepeat(pool)
        BY <2>1, MapsArePool
    <2> HIDE DEF steps, pool
    <2>4. /\ VetoInv(CreateVeto(pool, VetoTeams(3), steps, <<>>), pool, 1..6, Items(pool))
          /\ CreateVeto(pool, VetoTeams(3), steps, <<>>).steps = steps
        BY <1>2, <2>2, <2>3
    <2>5. v = [format |-> "bo1", state |-> CreateVeto(pool, VetoTeams(3), steps, <<>>)]
        BY <1>4 DEF steps, pool
    <2>6. v.format = "bo1" /\ v.state = CreateVeto(pool, VetoTeams(3), steps, <<>>) /\ v = [format |-> v.format, state |-> v.state]
        BY <2>5
    <2> QED BY <2>4, <2>6 DEF steps, pool, VetoFits
<1>5. ASSUME NEW n \in Bo3Pools, NEW first \in FirstTeams,
             v = [format |-> "bo3", state |-> CreateVeto(Maps(n), VetoTeams(1), Bo3Steps(n, first), <<>>)]
      PROVE  v = [format |-> v.format, state |-> v.state] /\ VetoFits(v.format, v.state)
    <2> DEFINE steps == Bo3Steps(n, first)
               pool == Maps(n)
    <2>1. n \in Nat /\ n >= 5
        BY PoolAssumption
    <2>2. steps \in Steps /\ Len(steps) # 0
        BY <1>3, <2>1, Bo3Begins
    <2>3. pool \in Seq(Items(pool)) /\ NoRepeat(pool)
        BY <2>1, MapsArePool
    <2> HIDE DEF steps, pool
    <2>4. /\ VetoInv(CreateVeto(pool, VetoTeams(1), steps, <<>>), pool, 1..6, Items(pool))
          /\ CreateVeto(pool, VetoTeams(1), steps, <<>>).steps = steps
        BY <1>2, <2>2, <2>3
    <2>5. v = [format |-> "bo3", state |-> CreateVeto(pool, VetoTeams(1), steps, <<>>)]
        BY <1>5 DEF steps, pool
    <2>6. v.format = "bo3" /\ v.state = CreateVeto(pool, VetoTeams(1), steps, <<>>) /\ v = [format |-> v.format, state |-> v.state]
        BY <2>5
    <2> QED BY <2>4, <2>6 DEF steps, pool, VetoFits
<1>6. ASSUME NEW first \in FirstTeams, v = [format |-> "rooms", state |-> CreateRoomVeto(VetoTeams(1), first)]
      PROVE  v = [format |-> v.format, state |-> v.state] /\ VetoFits(v.format, v.state)
    <2> DEFINE steps == RoomVetoSteps(first)
               pool == MidPool \o StartPool
               s == CreateVeto(pool, VetoTeams(1), steps, RoomFormat)
    <2>2. steps \in Steps /\ Len(steps) # 0
        BY <1>3, RoomsBegin
    <2>3. pool \in Seq(Items(pool)) /\ NoRepeat(pool)
        BY RoomPool
    <2>4. v.format = "rooms" /\ v.state = s /\ v = [format |-> v.format, state |-> v.state]
        BY <1>6 DEF CreateRoomVeto
    <2> HIDE DEF steps, pool
    <2>5. VetoInv(s, pool, 1..6, Items(pool)) /\ s.steps = steps /\ s.phases = RoomFormat
        BY <1>2, <2>2, <2>3
    <2> HIDE DEF s
    <2> QED BY <2>4, <2>5 DEF steps, pool, VetoFits
<1>7. ASSUME NEW first \in FirstTeams, NEW flip \in {1, 2},
             v = [format |-> "series", state |-> CreateSeriesRoomVeto(VetoTeams(1), first, flip)]
      PROVE  v = [format |-> v.format, state |-> v.state] /\ VetoFits(v.format, v.state)
    <2> DEFINE steps == SeriesStepsFor(first, flip)
               pool == RoomsOfSeries
               s == CreateVeto(pool, VetoTeams(1), steps, SeriesPhaseList)
    <2>2. steps \in Steps /\ Len(steps) # 0
        <3>1. first \in {1, 2}
            BY <1>3
        <3>2. steps \in Steps
            BY <3>1, SeriesBegins
        <3>3. Len(steps) = 15
            BY <3>1, SeriesBegins
        <3> QED BY <3>2, <3>3
    <2>3. pool \in Seq(Items(pool)) /\ NoRepeat(pool)
        BY SeriesPool DEF RoomsOfSeries
    <2>4. CreateSeriesRoomVeto(VetoTeams(1), first, flip) = s
        BY DEF CreateSeriesRoomVeto, SeriesStepsFor, CreateVeto, SeriesPhaseList, RoomsOfSeries
    <2>5. v.format = "series" /\ v.state = s /\ v = [format |-> v.format, state |-> v.state]
        BY <1>7, <2>4
    <2> HIDE DEF steps, pool
    <2>6. VetoInv(s, pool, 1..6, Items(pool)) /\ s.steps = steps /\ s.phases = SeriesPhaseList
        BY <1>2, <2>2, <2>3
    <2> HIDE DEF s
    <2> QED BY <2>5, <2>6 DEF steps, pool, VetoFits
<1> QED BY <1>4, <1>5, <1>6, <1>7 DEF Vetoes

\* What a step keeps for any pool it keeps for each format
LEMMA FitsStays ==
    ASSUME NEW format, NEW s, NEW t, VetoFits(format, s), Alike(s, t),
           \A pool : (pool \in Seq(Items(pool)) /\ VetoInv(s, pool, 1..6, Items(pool))) => VetoInv(t, pool, 1..6, Items(pool))
    PROVE  VetoFits(format, t)
<1> DEFINE Inv(u, pool) == VetoInv(u, pool, 1..6, Items(pool))
<1>1. t.steps = s.steps /\ t.phases = s.phases
    BY DEF Alike
<1>2. \A pool : (pool \in Seq(Items(pool)) /\ Inv(s, pool)) => Inv(t, pool)
    OBVIOUS
<1>3. \A n \in Bo1Pools \cup Bo3Pools : Maps(n) \in Seq(Items(Maps(n)))
    BY PoolAssumption, MapsArePool
<1>4. MidPool \o StartPool \in Seq(Items(MidPool \o StartPool))
    BY RoomPool
<1>5. RoomsOfSeries \in Seq(Items(RoomsOfSeries))
    BY SeriesPool DEF RoomsOfSeries
<1>6. VetoFits(format, s) /\ \A u : VetoFits(format, u) <=>
          \/ format = "bo1" /\ \E n \in Bo1Pools, first \in FirstTeams : Inv(u, Maps(n)) /\ u.steps = BanToNSteps(n, 1, first)
          \/ format = "bo3" /\ \E n \in Bo3Pools, first \in FirstTeams : Inv(u, Maps(n)) /\ u.steps = Bo3Steps(n, first)
          \/ format = "rooms" /\ \E first \in FirstTeams :
                 Inv(u, MidPool \o StartPool) /\ u.steps = RoomVetoSteps(first) /\ u.phases = RoomFormat
          \/ format = "series" /\ \E first \in FirstTeams, flip \in {1, 2} :
                 Inv(u, RoomsOfSeries) /\ u.steps = SeriesStepsFor(first, flip) /\ u.phases = SeriesPhaseList
    BY DEF VetoFits
<1> HIDE DEF Inv
<1> QED BY <1>1, <1>2, <1>3, <1>4, <1>5, <1>6

\* An input that is a veto of its format.
VetoInput(q) == q = [format |-> q.format, state |-> q.state] /\ VetoFits(q.format, q.state)

\* A step of a veto that keeps its invariant for any pool keeps what the input is
LEMMA InputStays ==
    ASSUME NEW q, NEW t, VetoInput(q), Alike(q.state, t),
           \A pool : (pool \in Seq(Items(pool)) /\ VetoInv(q.state, pool, 1..6, Items(pool))) => VetoInv(t, pool, 1..6, Items(pool))
    PROVE  VetoInput([q EXCEPT !.state = t])
<1> DEFINE f == q.format
           s == q.state
<1>1. VetoFits(f, s)
    BY DEF VetoInput
<1>2. q = [format |-> f, state |-> s]
    BY DEF VetoInput
<1>3. VetoFits(f, t)
    <2> HIDE DEF f
    <2>1. Alike(s, t) /\ \A pool : (pool \in Seq(Items(pool)) /\ VetoInv(s, pool, 1..6, Items(pool))) => VetoInv(t, pool, 1..6, Items(pool))
        OBVIOUS
    <2> HIDE DEF s
    <2> QED BY <1>1, <2>1, FitsStays
<1> HIDE DEF f, s
<1>4. [q EXCEPT !.state = t] = [format |-> f, state |-> t]
    BY <1>2
<1>5. [format |-> f, state |-> t].format = f /\ [format |-> f, state |-> t].state = t
    OBVIOUS
<1> QED BY <1>3, <1>4, <1>5 DEF VetoInput

\* The pool of a veto, whatever its format
LEMMA SomePool ==
    ASSUME NEW format, NEW s, VetoFits(format, s)
    PROVE  \E pool : pool \in Seq(Items(pool)) /\ VetoInv(s, pool, 1..6, Items(pool))
<1>3. \A n \in Bo1Pools \cup Bo3Pools : Maps(n) \in Seq(Items(Maps(n)))
    BY PoolAssumption, MapsArePool
<1>4. MidPool \o StartPool \in Seq(Items(MidPool \o StartPool))
    BY RoomPool
<1>5. RoomsOfSeries \in Seq(Items(RoomsOfSeries))
    BY SeriesPool DEF RoomsOfSeries
<1> QED BY <1>3, <1>4, <1>5 DEF VetoFits

\* What is voted on is of the pool
LEMMA VoteInPool ==
    ASSUME NEW V, NEW R, NEW pool \in Seq(R), NEW s, VetoInv(s, pool, V, R), ~s.done, NEW m \in Items(StepAvailable(s))
    PROVE  m \in R
<1>1. s.available \in Seq(R) /\ s.steps \in Steps /\ s.stepIndex \in Nat /\ s.stepIndex < Len(s.steps)
    <2>1. s.available \in Seq(R) /\ s.steps \in Steps /\ s.stepIndex \in Nat
        BY DEF VetoInv, VetoStates
    <2>2. ~(s.stepIndex >= Len(s.steps))
        BY DEF VetoInv
    <2>3. Len(s.steps) \in Nat
        BY <2>1, LenProperties DEF Steps
    <2> QED BY <2>1, <2>2, <2>3
<1>2. CurrentStep(s).phase \in Nat
    <2>1. Len(s.steps) \in Nat
        BY <1>1, LenProperties DEF Steps
    <2>2. s.stepIndex + 1 \in 1..Len(s.steps)
        BY <1>1, <2>1
    <2>3. s.steps[s.stepIndex + 1] \in [action : Acts, team : {1, 2}, phase : Nat]
        BY <1>1, <2>2, ElementOfSeq DEF Steps
    <2> QED BY <2>3 DEF CurrentStep
<1> QED BY <1>1, <1>2, StepTakes

\* A vote, and the end of a step in time
LEMMA VoteGoesOn ==
    ASSUME NEW q, VetoInput(q), NEW p \in 1..6, NEW m, MayVote(q.state, p, m), NEW t \in AfterVote(q.state, p, m)
    PROVE  VetoInput([q EXCEPT !.state = t])
<1> DEFINE s == q.state
           V == 1..6
<1>1. MayVote(s, p, m) /\ ~s.done /\ m \in Items(StepAvailable(s)) /\ t \in AfterVote(s, p, m)
    BY DEF MayVote
<1>2. p \in V
    OBVIOUS
<1> HIDE DEF s, V
<1>3. ASSUME NEW pool, pool \in Seq(Items(pool)), VetoInv(s, pool, V, Items(pool))
      PROVE  VetoInv(t, pool, V, Items(pool)) /\ Alike(s, t)
    <2> DEFINE R == Items(pool)
    <2>1. pool \in Seq(R) /\ VetoInv(s, pool, V, R)
        BY <1>3
    <2> HIDE DEF R
    <2>2. m \in R
        BY <1>1, <2>1, VoteInPool
    <2>3. VetoInv(t, pool, V, R) /\ Alike(s, t)
        BY <1>1, <1>2, <2>1, <2>2, VoteKeeps
    <2> QED BY <2>3 DEF R
<1>4. \E pool : pool \in Seq(Items(pool)) /\ VetoInv(s, pool, V, Items(pool))
    <2>1. VetoFits(q.format, s)
        BY DEF VetoInput, s
    <2> QED BY <2>1, SomePool DEF V
<1>5. Alike(s, t)
    BY <1>3, <1>4
<1> QED BY <1>3, <1>5, InputStays DEF s, V

\* The end of a step by the timer leaves a veto of its format.
LEMMA EndGoesOn ==
    ASSUME NEW q, VetoInput(q), ~q.state.done, NEW m \in Leaders(q.state)
    PROVE  VetoInput([q EXCEPT !.state = ResolveStep(@, m)])
<1> DEFINE s == q.state
           V == 1..6
           t == ResolveStep(s, m)
<1>1. ~s.done /\ m \in Leaders(s)
    OBVIOUS
<1> HIDE DEF s, V
<1>2. ASSUME NEW pool, pool \in Seq(Items(pool)), VetoInv(s, pool, V, Items(pool))
      PROVE  VetoInv(t, pool, V, Items(pool)) /\ Alike(s, t)
    <2> DEFINE R == Items(pool)
    <2>1. pool \in Seq(R) /\ VetoInv(s, pool, V, R)
        BY <1>2
    <2> HIDE DEF R
    <2>2. VetoInv(t, pool, V, R) /\ Alike(s, t)
        BY <1>1, <2>1, StepEnds
    <2> QED BY <2>2 DEF R
<1> HIDE DEF t
<1>3. \E pool : pool \in Seq(Items(pool)) /\ VetoInv(s, pool, V, Items(pool))
    <2>1. VetoFits(q.format, s)
        BY DEF VetoInput, s
    <2> QED BY <2>1, SomePool DEF V
<1>4. Alike(s, t)
    BY <1>2, <1>3
<1>5. VetoInput([q EXCEPT !.state = t])
    BY <1>2, <1>4, InputStays DEF s, V
<1> QED BY <1>5 DEF t, s

\* The teams decide, throughout a veto
LEMMA TeamsDecide ==
    ASSUME NEW format, NEW s, VetoFits(format, s)
    PROVE  \A i \in DOMAIN s.history :
               LET h == s.history[i]
                   For(m) == {p \in DOMAIN h.votes : h.votes[p] = m}
               IN  /\ DOMAIN h.votes \subseteq s.teams[h.team]
                   /\ \A p \in DOMAIN h.votes : Cardinality(For(h.mapId)) >= Cardinality(For(h.votes[p]))
                   /\ \A j \in 1..(i - 1) : \A p \in DOMAIN h.votes : h.votes[p] # s.history[j].mapId
<1>1. PICK pool : pool \in Seq(Items(pool)) /\ VetoInv(s, pool, 1..6, Items(pool))
    BY SomePool
<1>2. DOMAIN s.history = 1..s.stepIndex
    <2>1. s.history \in Seq(Entries(1..6, Items(pool))) /\ Len(s.history) = s.stepIndex
        BY <1>1 DEF VetoInv, VetoStates
    <2> QED BY <2>1, LenProperties
<1>3. \A i \in 1..s.stepIndex : EntryFits(s, pool, i)
    BY <1>1 DEF VetoInv
<1>4. ASSUME NEW i \in DOMAIN s.history
      PROVE  LET h == s.history[i]
                 For(m) == {p \in DOMAIN h.votes : h.votes[p] = m}
             IN  /\ DOMAIN h.votes \subseteq s.teams[h.team]
                 /\ \A p \in DOMAIN h.votes : Cardinality(For(h.mapId)) >= Cardinality(For(h.votes[p]))
                 /\ \A j \in 1..(i - 1) : \A p \in DOMAIN h.votes : h.votes[p] # s.history[j].mapId
    <2> DEFINE h == s.history[i]
    <2>1. EntryFits(s, pool, i)
        BY <1>2, <1>3
    <2>2. DOMAIN h.votes \subseteq s.teams[h.team]
        BY <2>1 DEF EntryFits
    <2>3. \A p \in DOMAIN h.votes : Cardinality(VotedFor(h.votes, h.mapId)) >= Cardinality(VotedFor(h.votes, h.votes[p]))
        BY <2>1 DEF EntryFits
    <2>4. \A j \in 1..(i - 1) : \A p \in DOMAIN h.votes : h.votes[p] # s.history[j].mapId
        BY <2>1 DEF EntryFits
    <2> QED BY <2>2, <2>3, <2>4 DEF VotedFor
<1> QED BY <1>4

\* A veto that is done can be played, whatever its format
LEMMA VetoPlayable ==
    ASSUME NEW s, s.done
    PROVE  /\ VetoFits("bo1", s) => Len(s.maps) = 1
           /\ VetoFits("bo3", s) =>
                  /\ Len(s.maps) >= 3 /\ SubSeq(s.maps, 1, 2) = MapsOf(s.history, "pick")
                  /\ Len(s.history) + Len(s.available) <= 7 => Len(s.maps) = 3
                  /\ Items(s.maps) \cap Items(MapsOf(s.history, "ban")) = {}
           /\ VetoFits("rooms", s) => ValidPath(RoomSlots(s))
           /\ VetoFits("series", s) =>
                  /\ \A m \in SeriesMaps : ValidPath(SeriesSlots(s, m)) /\ CtTeam(s, m) # 0
                  /\ \A m, o \in SeriesMaps : m # o => InnerRooms(SeriesSlots(s, m)) \cap InnerRooms(SeriesSlots(s, o)) = {}
                  /\ CtTeam(s, 2) = OtherSide(CtTeam(s, 1))
<1> DEFINE V == 1..6
<1>1. \A first \in FirstTeams : first \in {1, 2}
    BY PoolAssumption
<1>2. ASSUME VetoFits("bo1", s) PROVE Len(s.maps) = 1
    <2>1. PICK n \in Bo1Pools, first \in FirstTeams : VetoInv(s, Maps(n), V, Items(Maps(n))) /\ s.steps = BanToNSteps(n, 1, first)
        BY <1>2 DEF VetoFits
    <2>2. n \in Nat /\ n > 1 /\ first \in {1, 2}
        BY <1>1, PoolAssumption
    <2> HIDE DEF V
    <2> QED BY <2>1, <2>2, OneMapLeft
<1>3. ASSUME VetoFits("bo3", s)
      PROVE  /\ Len(s.maps) >= 3 /\ SubSeq(s.maps, 1, 2) = MapsOf(s.history, "pick")
             /\ Len(s.history) + Len(s.available) <= 7 => Len(s.maps) = 3
             /\ Items(s.maps) \cap Items(MapsOf(s.history, "ban")) = {}
    <2>1. PICK n \in Bo3Pools, first \in FirstTeams : VetoInv(s, Maps(n), V, Items(Maps(n))) /\ s.steps = Bo3Steps(n, first)
        BY <1>3 DEF VetoFits
    <2>2. n \in Nat /\ n >= 5 /\ first \in {1, 2}
        BY <1>1, PoolAssumption
    <2> HIDE DEF V
    <2> QED BY <2>1, <2>2, ThreeMapsLeft
<1>4. ASSUME VetoFits("rooms", s) PROVE ValidPath(RoomSlots(s))
    <2>1. PICK first \in FirstTeams :
              /\ VetoInv(s, MidPool \o StartPool, V, Items(MidPool \o StartPool))
              /\ s.steps = RoomVetoSteps(first) /\ s.phases = RoomFormat
        BY <1>4 DEF VetoFits
    <2>2. first \in {1, 2}
        BY <1>1
    <2> HIDE DEF V
    <2> QED BY <2>1, <2>2, RoomsMakePath
<1>5. ASSUME VetoFits("series", s)
      PROVE  /\ \A m \in SeriesMaps : ValidPath(SeriesSlots(s, m)) /\ CtTeam(s, m) # 0
             /\ \A m, o \in SeriesMaps : m # o => InnerRooms(SeriesSlots(s, m)) \cap InnerRooms(SeriesSlots(s, o)) = {}
             /\ CtTeam(s, 2) = OtherSide(CtTeam(s, 1))
    <2>1. PICK first \in FirstTeams, flip \in {1, 2} : SeriesOver(s, V, first, flip)
        BY <1>5 DEF VetoFits, SeriesOver
    <2>2. first \in {1, 2}
        BY <1>1
    <2> HIDE DEF V
    <2> QED BY <2>1, <2>2, SeriesMakesPaths
<1> QED BY <1>2, <1>3, <1>4, <1>5

\* bo3.ts, rooms.ts, series-rooms.ts: the decisions of a veto are the teams', and together they can be played
LEMMA VetoesStand == (subject = "veto" => VetoInput(input)) => VetoStands
<1> SUFFICES ASSUME subject = "veto", VetoInput(input) PROVE VetoStands
    BY DEF VetoStands, TeamDecides, VetoCanBePlayed
<1>1. VetoFits(input.format, input.state)
    BY DEF VetoInput
<1>2. TeamDecides
    BY <1>1, TeamsDecide DEF TeamDecides
<1>3. VetoCanBePlayed
    <2> DEFINE s == input.state
               f == input.format
    <2>1. VetoFits(f, s)
        BY <1>1
    <2> HIDE DEF s, f
    <2>2. s.done =>
              /\ f = "bo1" => Len(s.maps) = 1
              /\ f = "bo3" =>
                     /\ Len(s.maps) >= 3 /\ SubSeq(s.maps, 1, 2) = MapsOf(s.history, "pick")
                     /\ Len(s.history) + Len(s.available) <= 7 => Len(s.maps) = 3
                     /\ Items(s.maps) \cap Items(MapsOf(s.history, "ban")) = {}
              /\ f = "rooms" => ValidPath(RoomSlots(s))
              /\ f = "series" =>
                     /\ \A m \in SeriesMaps : ValidPath(SeriesSlots(s, m)) /\ CtTeam(s, m) # 0
                     /\ \A m, o \in SeriesMaps : m # o => InnerRooms(SeriesSlots(s, m)) \cap InnerRooms(SeriesSlots(s, o)) = {}
                     /\ CtTeam(s, 2) = OtherSide(CtTeam(s, 1))
        BY <2>1, VetoPlayable
    <2> QED BY <2>2 DEF VetoCanBePlayed, InnerRooms, s, f
<1> QED BY <1>2, <1>3 DEF VetoStands

-----------------------------------------------------------------------------
(***************************************************************************)
(* The inputs that MCDecisions builds up                                   *)
(***************************************************************************)

QueueInput == [teamSize : {1, 2}, tickets : Seq(Waiting({"eu", "us"})), kind : 1..6, wait : 1..3]
Answers == [accepted : SUBSET Player, declined : SUBSET Player, timedOut : BOOLEAN, missing : SUBSET Player]

\* A queue stays in order: who joins has waited no longer than the last
QueueInv(q) ==
    /\ q \in QueueInput /\ Orderly(q.tickets)
    /\ \A i \in DOMAIN q.tickets : q.tickets[i].wait >= Waits[q.wait]

InputInv ==
    /\ subject = "accept" => input \in Answers
    /\ subject = "queue" => QueueInv(input)
    /\ subject = "trust" => input \in TrustInputs
    /\ subject = "veto" => VetoInput(input)

\* A ticket of some kind that has waited so long
LEMMA KindsWait ==
    ASSUME NEW k \in DOMAIN Kinds, NEW w \in DOMAIN Waits
    PROVE  /\ k \in 1..6 /\ w \in 1..3 /\ Waits[w] \in Nat
           /\ [Kinds[k] EXCEPT !.wait = Waits[w]] \in Waiting({"eu", "us"})
           /\ [Kinds[k] EXCEPT !.wait = Waits[w]].wait = Waits[w]
           /\ [Kinds[k] EXCEPT !.wait = Waits[w]].trust >= [Kinds[k] EXCEPT !.wait = Waits[w]].minTrust
<1>1. k \in 1..6 /\ w \in 1..3 /\ Waits[w] \in Nat
    <2>1. DOMAIN Kinds = 1..6 /\ DOMAIN Waits = 1..3
        BY DEF Kinds, Waits
    <2>2. Waits[1] = 300 /\ Waits[2] = 50 /\ Waits[3] = 10
        BY DEF Waits
    <2> QED BY <2>1, <2>2
<1> DEFINE Kind == [size : Nat \ {0}, rating : Int, region : {"eu", "us"}, minTrust : Int, trust : Int, wait : Nat]
<1>2. Kinds[k] \in Kind /\ Kinds[k].trust >= Kinds[k].minTrust
    <2>1. Kinds[1] = [size |-> 1, rating |-> 1000, region |-> "eu", minTrust |-> 0, trust |-> 0, wait |-> 0]
        BY DEF Kinds, Ticket0
    <2>2. Kinds[2] = [size |-> 1, rating |-> 1150, region |-> "eu", minTrust |-> 0, trust |-> 0, wait |-> 0]
        BY DEF Kinds, Ticket0
    <2>3. Kinds[3] = [size |-> 2, rating |-> 1000, region |-> "eu", minTrust |-> 0, trust |-> 0, wait |-> 0]
        BY DEF Kinds, Ticket0
    <2>4. Kinds[4] = [size |-> 1, rating |-> 2000, region |-> "eu", minTrust |-> 0, trust |-> 1, wait |-> 0]
        <3> DEFINE u == [Ticket0 EXCEPT !.rating = 2000]
        <3>1. u = [size |-> 1, rating |-> 2000, region |-> "eu", minTrust |-> 0, trust |-> 0, wait |-> 0]
            BY DEF Ticket0
        <3>2. Kinds[4] = [u EXCEPT !.trust = 1]
            BY DEF Kinds
        <3> HIDE DEF u
        <3> QED BY <3>1, <3>2
    <2>5. Kinds[5] = [size |-> 1, rating |-> 1000, region |-> "eu", minTrust |-> 1, trust |-> 1, wait |-> 0]
        <3> DEFINE u == [Ticket0 EXCEPT !.trust = 1]
        <3>1. u = [size |-> 1, rating |-> 1000, region |-> "eu", minTrust |-> 0, trust |-> 1, wait |-> 0]
            BY DEF Ticket0
        <3>2. Kinds[5] = [u EXCEPT !.minTrust = 1]
            BY DEF Kinds
        <3> HIDE DEF u
        <3> QED BY <3>1, <3>2
    <2>6. Kinds[6] = [size |-> 1, rating |-> 1000, region |-> "us", minTrust |-> 0, trust |-> 0, wait |-> 0]
        BY DEF Kinds, Ticket0
    <2>7. k = 1 \/ k = 2 \/ k = 3 \/ k = 4 \/ k = 5 \/ k = 6
        BY <1>1
    <2> QED BY <2>1, <2>2, <2>3, <2>4, <2>5, <2>6, <2>7
<1>3. ASSUME NEW t \in Kind, t.trust >= t.minTrust, NEW v \in Nat
      PROVE  LET u == [t EXCEPT !.wait = v]
             IN  u \in Waiting({"eu", "us"}) /\ u.wait = v /\ u.trust >= u.minTrust
    BY <1>3 DEF Waiting
<1> HIDE DEF Kind
<1> DEFINE t == Kinds[k]
           v == Waits[w]
<1>4. t \in Kind /\ t.trust >= t.minTrust /\ v \in Nat
    BY <1>1, <1>2
<1> HIDE DEF t, v
<1>5. LET u == [t EXCEPT !.wait = v]
      IN  u \in Waiting({"eu", "us"}) /\ u.wait = v /\ u.trust >= u.minTrust
    BY <1>3, <1>4
<1> QED BY <1>1, <1>5 DEF t, v

\* A queue that one more has joined
LEMMA QueueGrows ==
    ASSUME NEW q, QueueInv(q), NEW k \in DOMAIN Kinds, NEW w \in DOMAIN Waits,
           q.tickets # <<>> => w >= q.wait
    PROVE  QueueInv([q EXCEPT !.tickets = Append(@, [Kinds[k] EXCEPT !.wait = Waits[w]]), !.kind = k, !.wait = w])
<1> DEFINE t == [Kinds[k] EXCEPT !.wait = Waits[w]]
           s == q.tickets
           u == Append(s, t)
           W == Waiting({"eu", "us"})
           r == [q EXCEPT !.tickets = u, !.kind = k, !.wait = w]
<1>1. /\ k \in 1..6 /\ w \in 1..3 /\ Waits[w] \in Nat
      /\ t \in W /\ t.wait = Waits[w] /\ t.trust >= t.minTrust
    BY KindsWait
<1>2. q \in QueueInput /\ s \in Seq(W) /\ q.wait \in 1..3 /\ Orderly(s) /\ \A i \in DOMAIN s : s[i].wait >= Waits[q.wait]
    BY DEF QueueInv, QueueInput
<1> HIDE DEF t, W
<1>3. /\ u \in Seq(W) /\ Len(s) \in Nat /\ DOMAIN s = 1..Len(s) /\ DOMAIN u = 1..(Len(s) + 1)
      /\ u[Len(s) + 1] = t /\ \A i \in DOMAIN s : u[i] = s[i]
    BY <1>1, <1>2
<1>4. r \in QueueInput /\ r.tickets = u /\ r.wait = w
    <2>1. ASSUME NEW v \in Seq(W) PROVE /\ [q EXCEPT !.tickets = v, !.kind = k, !.wait = w] \in QueueInput
                                        /\ [q EXCEPT !.tickets = v, !.kind = k, !.wait = w].tickets = v
                                        /\ [q EXCEPT !.tickets = v, !.kind = k, !.wait = w].wait = w
        BY <1>1, <1>2 DEF QueueInput, W
    <2> HIDE DEF u
    <2> QED BY <1>3, <2>1
<1>5. ASSUME NEW i \in DOMAIN s PROVE s[i].wait >= Waits[w] /\ s[i].wait \in Nat /\ s[i].trust >= s[i].minTrust
    <2>1. s # <<>>
        BY <1>3
    <2>2. Waits[q.wait] >= Waits[w] /\ Waits[q.wait] \in Nat
        <3>1. Waits[1] = 300 /\ Waits[2] = 50 /\ Waits[3] = 10
            BY DEF Waits
        <3> QED BY <1>1, <1>2, <2>1, <3>1
    <2>3. s[i].wait \in Nat
        BY <1>2, TicketFacts DEF W
    <2>4. s[i].wait >= Waits[q.wait] /\ s[i].trust >= s[i].minTrust
        BY <1>2 DEF Orderly
    <2> QED BY <1>1, <2>2, <2>3, <2>4
<1> HIDE DEF s, u, r
<1>6. \A i \in DOMAIN u : i \in DOMAIN s \/ i = Len(s) + 1
    BY <1>3
<1>7. \A i \in DOMAIN u : u[i].wait >= Waits[w]
    BY <1>1, <1>3, <1>5, <1>6
<1>8. Orderly(u)
    <2>1. \A i \in DOMAIN u : u[i].trust >= u[i].minTrust
        BY <1>1, <1>3, <1>5, <1>6
    <2>2. ASSUME NEW i \in DOMAIN u, NEW j \in DOMAIN u, i <= j PROVE u[i].wait >= u[j].wait
        <3>1. CASE j \in DOMAIN s
            <4>1. i \in DOMAIN s
                BY <1>3, <2>2, <3>1
            <4> QED BY <1>2, <1>3, <2>2, <3>1, <4>1 DEF Orderly
        <3>2. CASE j = Len(s) + 1
            BY <1>1, <1>3, <1>7, <3>2
        <3> QED BY <1>6, <3>1, <3>2
    <2> QED BY <2>1, <2>2 DEF Orderly
<1>9. QueueInv(r)
    BY <1>4, <1>7, <1>8 DEF QueueInv
<1>10. r = [q EXCEPT !.tickets = Append(@, t), !.kind = k, !.wait = w]
    BY DEF r, u, s
<1> QED BY <1>9, <1>10 DEF t

\* At the start there are no answers and nobody waits
LEMMA InputStarts == DecisionInit => InputInv
<1> SUFFICES ASSUME DecisionInit PROVE InputInv
    OBVIOUS
<1>1. CASE subject = "accept" /\ input = NoAnswers
    BY <1>1 DEF InputInv, Answers, NoAnswers
<1>2. CASE subject = "queue" /\ \E n \in {1, 2} : input = [teamSize |-> n, tickets |-> <<>>, kind |-> 1, wait |-> 1]
    <2>1. PICK n \in {1, 2} : input = [teamSize |-> n, tickets |-> <<>>, kind |-> 1, wait |-> 1]
        BY <1>2
    <2>2. input \in QueueInput /\ input.tickets = <<>>
        BY <2>1 DEF QueueInput
    <2>3. DOMAIN input.tickets = {}
        BY <2>2
    <2> QED BY <1>2, <2>2, <2>3 DEF InputInv, QueueInv, Orderly
<1>3. CASE subject = "trust" /\ input \in TrustInputs
    BY <1>3 DEF InputInv
<1>4. CASE subject = "veto" /\ input \in Vetoes
    <2>1. VetoInput(input)
        BY <1>4, VetoFitsAtFirst DEF VetoInput
    <2> QED BY <1>4, <2>1 DEF InputInv
<1> QED BY <1>1, <1>2, <1>3, <1>4 DEF DecisionInit

\* One more answer, one more ticket
LEMMA InputKeeps == InputInv /\ [DecisionNext]_decisionVars => InputInv'
<1> SUFFICES ASSUME InputInv, [DecisionNext]_decisionVars PROVE InputInv'
    OBVIOUS
<1>1. ASSUME UNCHANGED <<subject, input>> PROVE InputInv'
    BY <1>1 DEF InputInv
<1>2. ASSUME subject = "accept", UNCHANGED subject, input' \in Answers PROVE InputInv'
    BY <1>2 DEF InputInv
<1>3. ASSUME subject = "accept" PROVE input \in Answers
    BY <1>3 DEF InputInv
<1>4. CASE TimeOut
    <2>1. input' = [input EXCEPT !.timedOut = TRUE] /\ input \in Answers
        BY <1>3, <1>4 DEF TimeOut
    <2> QED BY <1>2, <1>4, <2>1 DEF TimeOut, Answers
<1>5. ASSUME NEW p \in Player, Accept(p) \/ Decline(p) \/ Vanish(p) PROVE InputInv'
    <2>1. subject = "accept" /\ UNCHANGED subject /\ input \in Answers
        BY <1>3, <1>5 DEF Accept, Decline, Vanish
    <2>2. input' \in Answers
        <3>1. CASE Accept(p)
            BY <2>1, <3>1 DEF Accept, Answers
        <3>2. CASE Decline(p)
            BY <2>1, <3>2 DEF Decline, Answers
        <3>3. CASE Vanish(p)
            BY <2>1, <3>3 DEF Vanish, Answers
        <3> QED BY <1>5, <3>1, <3>2, <3>3
    <2> QED BY <1>2, <2>1, <2>2
<1>6. ASSUME NEW k \in DOMAIN Kinds, NEW w \in DOMAIN Waits, Enqueue(k, w) PROVE InputInv'
    <2>1. subject = "queue" /\ subject' = "queue" /\ QueueInv(input)
        BY <1>6 DEF Enqueue, InputInv
    <2>2. input.tickets # <<>> => w >= input.wait
        <3>1. w \in 1..3 /\ input.wait \in 1..3
            BY <2>1, KindsWait DEF QueueInv, QueueInput
        <3> QED BY <1>6, <3>1 DEF Enqueue
    <2>3. input' = [input EXCEPT !.tickets = Append(@, [Kinds[k] EXCEPT !.wait = Waits[w]]), !.kind = k, !.wait = w]
        BY <1>6 DEF Enqueue
    <2>4. QueueInv(input)'
        BY <2>1, <2>2, <2>3, QueueGrows
    <2> QED BY <2>1, <2>4 DEF InputInv
<1>7. ASSUME subject = "veto", UNCHANGED subject, VetoInput(input') PROVE InputInv'
    BY <1>7 DEF InputInv, VetoInput
<1>8. ASSUME NEW p \in 1..6, NEW m, Vote(p, m) PROVE InputInv'
    <2>1. subject = "veto" /\ UNCHANGED subject /\ VetoInput(input) /\ MayVote(input.state, p, m)
        BY <1>8 DEF Vote, InputInv
    <2>2. PICK t \in AfterVote(input.state, p, m) : input' = [input EXCEPT !.state = t]
        BY <1>8 DEF Vote
    <2> DEFINE q == input
               r == [q EXCEPT !.state = t]
    <2>3. VetoInput(r)
        BY <2>1, VoteGoesOn
    <2> QED BY <1>7, <2>1, <2>2, <2>3
<1>9. ASSUME NEW m, ExpireStep(m) PROVE InputInv'
    <2>1. /\ subject = "veto" /\ UNCHANGED subject /\ VetoInput(input) /\ ~input.state.done
          /\ m \in Leaders(input.state) /\ input' = [input EXCEPT !.state = ResolveStep(@, m)]
        BY <1>9 DEF ExpireStep, InputInv
    <2> DEFINE r == [input EXCEPT !.state = ResolveStep(@, m)]
    <2>2. VetoInput(r)
        BY <2>1, EndGoesOn
    <2> QED BY <1>7, <2>1, <2>2
<1>10. CASE UNCHANGED decisionVars
    BY <1>1, <1>10 DEF decisionVars
<1> QED BY <1>4, <1>5, <1>6, <1>8, <1>9, <1>10 DEF DecisionNext

\* Throughout, an input is what the decision is made for
THEOREM InputInvariance == DecisionSpec => []InputInv
BY InputStarts, InputKeeps, PTL DEF DecisionSpec

\* match/accept.ts: whatever is answered and whoever is missing, nobody pays for the failure of others
THEOREM BlameCorrect == DecisionSpec => []BlameIsJust
<1>1. InputInv => BlameIsJust
    <2> SUFFICES ASSUME InputInv, subject = "accept"
                 PROVE  WindowIsJust(input.accepted, input.declined, input.timedOut) /\ ForfeitIsJust(input.missing)
        BY DEF BlameIsJust
    <2>1. /\ input.accepted \in SUBSET Player /\ input.declined \in SUBSET Player
          /\ input.timedOut \in BOOLEAN /\ input.missing \in SUBSET Player
        BY DEF InputInv, Answers
    <2> QED BY <2>1, WindowCorrect, ForfeitCorrect
<1> QED BY <1>1, InputInvariance, PTL

\* queue/matchmaker.ts 150-207: whichever tickets join a queue, and however many, a pass over it keeps its promises
THEOREM PassesCorrect == DecisionSpec => []PassIsComplete
<1>1. InputInv => PassIsComplete
    <2> SUFFICES ASSUME InputInv, subject = "queue" PROVE PassComplete(input.tickets, input.teamSize)
        BY DEF PassIsComplete
    <2>1. /\ input.tickets \in Seq(Waiting({"eu", "us"})) /\ input.teamSize \in Nat \ {0}
          /\ Orderly(input.tickets)
        BY DEF InputInv, QueueInv, QueueInput
    <2> QED BY <2>1, PassKeepsPromise
<1> QED BY <1>1, InputInvariance, PTL

\* trust/evaluate.ts: at the edges of each rule, whatever the thresholds, level and progress agree
THEOREM TrustCorrect == DecisionSpec => []TrustAgrees
<1>1. InputInv => TrustAgrees
    <2> SUFFICES ASSUME InputInv, subject = "trust", NEW requireSteamCheck \in BOOLEAN
                 PROVE  LevelsAgree(input, requireSteamCheck)
        BY DEF TrustAgrees
    <2>1. input \in TrustInputs
        BY DEF InputInv
    <2>2. \A x \in Nat : x - 1 \in Int
        OBVIOUS
    <2>3. TrustInputs \subseteq TrustInput
        <3>1. Unchecked \cup SteamBans \subseteq Unasked \cup SteamAnswer
            BY TrustAssumption DEF Unchecked, SteamBans, Unasked, SteamAnswer
        <3>2. Unchecked \cup FaceitSignals \subseteq Unasked \cup FaceitAnswer
            BY DEF Unchecked, FaceitSignals, Unasked, FaceitAnswer
        <3>3. /\ {-1, TrustedMinAccountDays - 1, TrustedMinAccountDays} \subseteq Int /\ {-1, 6000} \subseteq Int
              /\ {VerifiedMinMatches - 1, VerifiedMinMatches, TrustedMinMatches - 1, TrustedMinMatches} \subseteq Int
              /\ {0, 1} \subseteq Nat
            BY TrustAssumption
        <3> QED BY <3>1, <3>2, <3>3 DEF TrustInputs, TrustInput
    <2> QED BY <2>1, <2>3, LevelsCorrect
<1> QED BY <1>1, InputInvariance, PTL

\* veto/bo3.ts, rooms.ts, series-rooms.ts: for any pools and whoever begins, votes or is late, the decisions of a veto
\* are the teams', and together they can be played
THEOREM VetoesCorrect == DecisionSpec => []VetoStands
<1>1. InputInv => VetoStands
    BY VetoesStand DEF InputInv
<1> QED BY <1>1, InputInvariance, PTL
=============================================================================
