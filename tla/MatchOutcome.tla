---------------------------- MODULE MatchOutcome ----------------------------
(***************************************************************************)
(* What a match promises, whatever happens on the way: it forms, gets a    *)
(* server, and is over once.  A winner is decided only while it has a      *)
(* server, at most once, and the ratings move in that same step or never.  *)
(***************************************************************************)
EXTENDS Naturals

CONSTANT Team

VARIABLES
    stage, winner, ratings,
    counts      \* whether matches of this kind move the ratings, fixed for each match

outcomeVars == <<stage, winner, ratings, counts>>

OutcomeInit ==
    /\ stage = "forming" /\ winner = "none" /\ ratings = 0
    /\ counts \in BOOLEAN

Serve ==
    /\ stage = "forming"
    /\ stage' = "serving"
    /\ UNCHANGED <<winner, ratings, counts>>

\* Cancelled, drawn or void
Close ==
    /\ stage # "over"
    /\ stage' = "over"
    /\ UNCHANGED <<winner, ratings, counts>>

Decide ==
    /\ stage = "serving"
    /\ stage' = "over"
    /\ winner' \in Team
    /\ ratings' = IF counts THEN 1 ELSE 0
    /\ UNCHANGED counts

OutcomeNext == Serve \/ Close \/ Decide

OutcomeSpec == OutcomeInit /\ [][OutcomeNext]_outcomeVars
FairOutcomeSpec == OutcomeSpec /\ WF_outcomeVars(Close \/ Decide)
=============================================================================
