---------------------------- MODULE MCServerSlots ----------------------------
(***************************************************************************)
(* Instances of ServerSlots for TLC: two matches that compete for the slots *)
(* of two hosts.                                                           *)
(***************************************************************************)
EXTENDS ServerSlots, TLC

CONSTANTS s1, s2, h1, h2, k1, k2, cup, duel

OneSlotPerHost == (s1 :> h1) @@ (s2 :> h2)
OneHost == (s1 :> h1) @@ (s2 :> h1)

\* Two matches that take the same path, the slots of one host and the tokens are each alike
Symmetry == Permutations({cup, duel}) \cup Permutations({s1, s2}) \cup Permutations({k1, k2})
=============================================================================
