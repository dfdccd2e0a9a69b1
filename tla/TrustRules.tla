------------------------------ MODULE TrustRules ------------------------------
(***************************************************************************)
(* The trust level of a player: trust/evaluate.ts of the API, and the      *)
(* FACEIT signal of packages/faceit. Reasons, labels and the numbers of    *)
(* the progress bars are left out.                                         *)
(*                                                                         *)
(* An `input` has the answers of steam and faceit, each "unknown", "none"  *)
(* or "checked" with the bans or the signal, days (or -1 for an account    *)
(* whose age is hidden), minutes of play (or -1), and the matches,         *)
(* confirmed flags and ban of the platform.                                *)
(***************************************************************************)
EXTENDS Integers

CONSTANTS VerifiedMinMatches, TrustedMinMatches, TrustedMinAccountDays, BanGraceDays

ASSUME TrustAssumption == {VerifiedMinMatches, TrustedMinMatches, TrustedMinAccountDays, BanGraceDays} \subseteq Nat

Checked(signal) == signal.is = "checked"

\* steamBanCount > 0, and what a ban still weighs
SteamBanned(i) == Checked(i.steam) /\ i.steam.count > 0
CommunityBanned(i) == Checked(i.steam) /\ i.steam.community
BannedRecently(i) == SteamBanned(i) /\ i.steam.daysSince <= BanGraceDays
FaceitBanned(i) == Checked(i.faceit) /\ i.faceit.banned
FaceitPast(i) == Checked(i.faceit) /\ ~i.faceit.banned /\ i.faceit.pastBans > 0

\* signalToTrustDelta
FaceitDelta(signal) ==
    CASE signal.banned -> -100
      [] ~signal.banned /\ signal.pastBans > 0 -> -25
      [] OTHER -> IF signal.matches >= 500 THEN 10 ELSE IF signal.matches >= 100 THEN 5 ELSE 0

Weigh(b, n) == IF b THEN n ELSE 0

\* The sum of trustChecks, which a platform ban starts at -1000
Score(i) ==
    Weigh(i.activeBan, -1000) + Weigh(CommunityBanned(i), -50)
    + Weigh(BannedRecently(i), -100) + Weigh(SteamBanned(i) /\ ~BannedRecently(i), -25)
    + (IF Checked(i.faceit) THEN FaceitDelta(i.faceit) ELSE 0)
    + Weigh(i.days >= 365, 5) + Weigh(i.minutes >= 6000, 5)

SteamVerifiedOk(i, requireSteamCheck) ==
    ~CommunityBanned(i) /\ ~BannedRecently(i) /\ ~(requireSteamCheck /\ i.steam.is = "unknown")
SteamTrustedOk(i) == i.steam.is # "unknown" /\ ~CommunityBanned(i) /\ ~SteamBanned(i)
FaceitVerifiedOk(i) == ~FaceitBanned(i)
FaceitTrustedOk(i) == ~FaceitBanned(i) /\ ~FaceitPast(i)
OldEnough(i) == i.days >= 0 /\ i.days >= TrustedMinAccountDays
CleanHistory(i) == i.flags = 0 /\ ~i.activeBan

\* Blockers that keep a player at "new" whatever else they do
HardBlock(i) == i.activeBan \/ CommunityBanned(i) \/ BannedRecently(i) \/ FaceitBanned(i) \/ i.flags > 0

\* Asks nothing of Steam but the score
EvaluateTrust_NoSteam(i, requireSteamCheck) ==
    IF \/ i.activeBan \/ ~SteamVerifiedOk(i, requireSteamCheck) \/ ~FaceitVerifiedOk(i) \/ ~CleanHistory(i)
       \/ i.completed < VerifiedMinMatches
    THEN "new"
    ELSE IF FaceitTrustedOk(i) /\ i.completed >= TrustedMinMatches /\ OldEnough(i) /\ Score(i) >= 0
         THEN "trusted"
    ELSE "verified"

EvaluateTrust(i, requireSteamCheck) ==
    IF \/ i.activeBan \/ ~SteamVerifiedOk(i, requireSteamCheck) \/ ~FaceitVerifiedOk(i) \/ ~CleanHistory(i)
       \/ i.completed < VerifiedMinMatches
    THEN "new"
    ELSE IF /\ SteamTrustedOk(i) /\ FaceitTrustedOk(i)
            /\ i.completed >= TrustedMinMatches
            /\ OldEnough(i)
            /\ Score(i) >= 0
         THEN "trusted"
    ELSE "verified"

\* trustProgress: the requirements of the next level that the player is shown, each met or not
TrustProgress(level, i, requireSteamCheck) ==
    CASE level = "new" ->
            [steam_check |-> SteamVerifiedOk(i, requireSteamCheck), faceit_check |-> FaceitVerifiedOk(i),
             matches |-> i.completed >= VerifiedMinMatches, clean_history |-> CleanHistory(i)]
      [] level = "verified" ->
            [steam_check |-> SteamTrustedOk(i), faceit_check |-> FaceitTrustedOk(i),
             matches |-> i.completed >= TrustedMinMatches, account_age |-> OldEnough(i),
             clean_history |-> CleanHistory(i) /\ Score(i) >= 0]

-----------------------------------------------------------------------------
\* evaluate.ts 54, 174: the evaluator and the progress view never disagree. A player is shown that nothing is
\* missing for the next level exactly when it is theirs, a blocker keeps them at "new", and a FACEIT account that
\* could not be asked for counts like none
LevelsAgree(i, requireSteamCheck) ==
    LET level == EvaluateTrust(i, requireSteamCheck)
        AllMet(from) == LET r == TrustProgress(from, i, requireSteamCheck) IN \A key \in DOMAIN r : r[key]
    IN  /\ level # "new" <=> AllMet("new")
        /\ level = "trusted" <=> AllMet("new") /\ AllMet("verified")
        /\ HardBlock(i) => level = "new"
        /\ i.faceit.is = "unknown" => level = EvaluateTrust([i EXCEPT !.faceit.is = "none"], requireSteamCheck)
=============================================================================
