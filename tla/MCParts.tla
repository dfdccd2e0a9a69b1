------------------------------- MODULE MCParts -------------------------------
(***************************************************************************)
(* The smaller parts of the system in one configuration; a behaviour is of *)
(* one of them, its `subject`.                                             *)
(*                                                                         *)
(* Pure decisions, for which a behaviour builds up one `input`: those of   *)
(* MCDecisions.                                                            *)
(* Machines, with the variables they declare, which are at rest in a       *)
(* behaviour of another subject: ratings and rollbacks (RatingLedger), the *)
(* websocket of a browser tab (Realtime), reports and cases (ReviewCases)  *)
(* and one map of Rush (RushGame).                                         *)
(***************************************************************************)
EXTENDS MCDecisions, RatingLedger, ReviewCases, Realtime, RushGame, TLC

CONSTANTS ann, bob, cat, dan, t1, t2, t3, g1, g2,
          r1, r2, r3, a1, a2, m1, m2

\* Friends on one ticket, two players alone
MCTicketOf == (ann :> t1) @@ (bob :> t1) @@ (cat :> t2) @@ (dan :> t3)

machines == <<ledgerVars, reviewVars, realtimeVars, rushVars>>
vars == <<subject, input, machines>>

\* Two matches that share players, and the players in the order of their ids
GameLineup == (g1 :> <<{ann, bob}, {cat, dan}>>) @@ (g2 :> <<{ann, cat}, {bob, dan}>>)
SmallerIds == (ann :> {}) @@ (bob :> {ann}) @@ (cat :> {ann, bob}) @@ (dan :> {ann, bob, cat})

\* Reporters of no trust, admins, and the matches a tab follows are each alike
Symmetry == Permutations({r1, r2}) \cup Permutations({a1, a2}) \cup Permutations({m1, m2})

-----------------------------------------------------------------------------
Init ==
    /\ \/ DecisionInit
       \/ subject \in {"ratings", "review", "realtime", "rush"} /\ input = None
    /\ LedgerInit /\ ReviewInit /\ RealtimeInit /\ RushInit
    /\ subject = "rush" \/ (installed = "valve" /\ ~mapStart /\ script.astray = {})

Next ==
    \/ DecisionNext /\ UNCHANGED machines
    \/ subject = "ratings" /\ LedgerNext /\ UNCHANGED <<subject, input, reviewVars, realtimeVars, rushVars>>
    \/ subject = "review" /\ ReviewNext /\ UNCHANGED <<subject, input, ledgerVars, realtimeVars, rushVars>>
    \/ subject = "realtime" /\ RealtimeNext /\ UNCHANGED <<subject, input, ledgerVars, reviewVars, rushVars>>
    \/ subject = "rush" /\ RushNext /\ UNCHANGED <<subject, input, ledgerVars, reviewVars, realtimeVars>>
Spec == Init /\ [][Next]_vars
=============================================================================
