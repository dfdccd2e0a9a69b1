-------------------------------- MODULE Veto ---------------------------------
(***************************************************************************)
(* The map veto of packages/shared/src/veto/bo3.ts: teams take turns to    *)
(* ban and pick, each step by a vote of one team. The state is the row     *)
(* `state` of a veto; Math.random is a choice of the caller among Leaders. *)
(* Teams are 1 and 2, a pool is a sequence without repetition, and phase 0 *)
(* is a step without a phase of its own.                                   *)
(***************************************************************************)
EXTENDS Integers, Sequences, FiniteSets

Items(seq) == {seq[i] : i \in DOMAIN seq}

\* The entries at some places, in their order
AtPlaces(seq, places) ==
    LET upTo[i \in 0..Len(seq)] ==
            IF i = 0 THEN <<>>
            ELSE IF i \in places THEN Append(upTo[i - 1], seq[i])
            ELSE upTo[i - 1]
    IN  upTo[Len(seq)]

\* Array.filter
Those(seq, set) == AtPlaces(seq, {i \in DOMAIN seq : seq[i] \in set})

OtherSide(team) == 3 - team
VetoStep(action, team, phase) == [action |-> action, team |-> team, phase |-> phase]
Alternate(actions, first, phase) ==
    [i \in DOMAIN actions |-> VetoStep(actions[i], IF i % 2 = 1 THEN first ELSE OtherSide(first), phase)]

\* Alternating bans until `keep` maps remain
BanToNSteps(size, keep, first) == Alternate([i \in 1..(size - keep) |-> "ban"], first, 0)

PickBanActions == <<"ban", "ban", "pick", "pick", "ban", "ban">>

\* Trailing bans are dropped when the pool is too small to leave a decider
Bo3Steps(size, first) ==
    LET count == IF size - 1 < Len(PickBanActions) THEN size - 1 ELSE Len(PickBanActions)
    IN  Alternate(SubSeq(PickBanActions, 1, count), first, 0)

CreateVeto(pool, teams, steps, phases) ==
    [teams |-> teams, steps |-> steps, phases |-> phases, stepIndex |-> 0, available |-> pool,
     votes |-> <<>>, history |-> <<>>, done |-> steps = <<>>, maps |-> IF steps = <<>> THEN pool ELSE <<>>]

CurrentStep(state) == state.steps[state.stepIndex + 1]
ActingTeam(state) == state.teams[CurrentStep(state).team]

\* A step with a phase is limited to the pool of that phase
StepAvailable(state) ==
    LET phase == CurrentStep(state).phase
    IN  IF phase = 0 THEN state.available
        ELSE Those(state.available, Items(state.phases[phase].pool))

AllVoted(state) == ActingTeam(state) \subseteq DOMAIN state.votes

MayVote(state, player, map) ==
    ~state.done /\ player \in ActingTeam(state) /\ map \in Items(StepAvailable(state))

CastVote(state, player, map) ==
    [state EXCEPT !.votes = [p \in DOMAIN @ \cup {player} |-> IF p = player THEN map ELSE @[p]]]

\* tallyVotes: the maps with the most votes, every available one when nobody voted
VotesFor(state, map) == Cardinality({p \in DOMAIN state.votes : state.votes[p] = map})
Leaders_AnyVote(state) ==
    LET maps == Items(StepAvailable(state))
    IN  IF DOMAIN state.votes = {} THEN maps ELSE {m \in maps : VotesFor(state, m) > 0}
Leaders(state) ==
    LET maps == Items(StepAvailable(state))
    IN  {m \in maps : \A n \in maps : VotesFor(state, m) >= VotesFor(state, n)}

Entry(state, map) ==
    [step |-> state.stepIndex + 1, action |-> CurrentStep(state).action, team |-> CurrentStep(state).team,
     mapId |-> map, votes |-> state.votes]

MapsOf(history, action) ==
    LET entries == AtPlaces(history, {i \in DOMAIN history : history[i].action = action})
    IN  [i \in DOMAIN entries |-> entries[i].mapId]

\* resolveStep: takes one of the leaders and goes on to the next step
ResolveStep_KeepsVotes(state, map) ==
    LET history == Append(state.history, Entry(state, map))
        available == Those(state.available, Items(state.available) \ {map})
        done == state.stepIndex + 1 >= Len(state.steps)
    IN  [state EXCEPT !.available = available, !.history = history, !.stepIndex = @ + 1,
                      !.done = done, !.maps = IF done THEN MapsOf(history, "pick") \o available ELSE <<>>]
ResolveStep(state, map) ==
    LET history == Append(state.history, Entry(state, map))
        available == Those(state.available, Items(state.available) \ {map})
        done == state.stepIndex + 1 >= Len(state.steps)
    IN  [state EXCEPT !.available = available, !.history = history, !.stepIndex = @ + 1, !.votes = <<>>,
                      !.done = done, !.maps = IF done THEN MapsOf(history, "pick") \o available ELSE <<>>]

\* vote: the step ends as soon as every member of the acting team has voted
AfterVote(state, player, map) ==
    LET next == CastVote(state, player, map)
    IN  IF AllVoted(next) THEN {ResolveStep(next, m) : m \in Leaders(next)} ELSE {next}
=============================================================================
