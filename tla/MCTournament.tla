---------------------------- MODULE MCTournament ----------------------------
(***************************************************************************)
(* Instances of Tournament for TLC: three entries, so that one has a bye   *)
(* into the final, or two, who meet in the final at once.                  *)
(***************************************************************************)
EXTENDS Tournament, TLC

CONSTANTS e1, e2, e3

ThreeRatings == (e1 :> 3) @@ (e2 :> 2) @@ (e3 :> 1)
TwoRatings == (e1 :> 2) @@ (e2 :> 1)
=============================================================================
