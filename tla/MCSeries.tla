------------------------------ MODULE MCSeries ------------------------------
(***************************************************************************)
(* Series for TLC.  The sides are alike, and of a match that is over only  *)
(* what the server itself holds for its end can be told from outside.      *)
(***************************************************************************)
EXTENDS Series, TLC

Symmetry == Permutations(Side)

View == <<bm, match, job, counts,
          IF Playing THEN <<server, outbox>> ELSE <<server.match, server.phase, server.wins>>>>
=============================================================================
