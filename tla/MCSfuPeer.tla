------------------------------- MODULE MCSfuPeer -------------------------------
EXTENDS SfuPeer, TLC

CONSTANTS u1, u2, p1, p2, mic, cam

(* A speaker and a listener, who asks for video and loses its WebSocket.   *)
OneEach == (p1 :> u1) @@ (p2 :> u2)

Speakers == [p \in Peers |-> IF UserOf[p] = u1 THEN {mic, cam} ELSE {}]
ListenerAsks == [p \in Peers |-> IF p = p2 THEN 1 ELSE 0]
ListenerLoses == [p \in Peers |-> IF p = p2 THEN 1 ELSE 0]
=============================================================================
