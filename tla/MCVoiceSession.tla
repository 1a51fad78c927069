---------------------------- MODULE MCVoiceSession ----------------------------
EXTENDS VoiceSession, TLC

CONSTANTS u1, k1, k2

(* Which connection belongs to whom: one that comes and goes, or a second  *)
(* one of the same user that evicts the first.                             *)
OneConn == k1 :> u1
OneUser == (k1 :> u1) @@ (k2 :> u1)

(* Sessions are interchangeable, and so are one user's connections: sound  *)
(* for the runs that check no liveness.                                    *)
Symmetry == Permutations(Sids) \cup Permutations(Conns)
=============================================================================
