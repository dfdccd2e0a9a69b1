---------------------------- MODULE MCMatchFlow ----------------------------
(***************************************************************************)
(* Instances of MatchFlow for TLC: two players queued on tickets of their   *)
(* own.                                                                    *)
(***************************************************************************)
EXTENDS MatchFlow, TLC

CONSTANTS a, b, t1, t2

SoloTicketOf == (a :> t1) @@ (b :> t2)

\* What the game server still does after the match is over reaches nobody (Receive and Server),
\* so the safety runs tell states of an ended match apart by everything else
SafetyView == IF Ended THEN <<matchVars>> ELSE <<matchVars, gameVars>>
=============================================================================
