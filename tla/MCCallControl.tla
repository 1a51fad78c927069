--------------------------- MODULE MCCallControl ----------------------------
(***************************************************************************)
(* Two clicks, one lost WebSocket, two lost sessions.                       *)
(***************************************************************************)
EXTENDS CallControl, TLC

CONSTANTS u1, u2, n1, l1, a

=============================================================================
