------------------------------- MODULE VoiceCall -------------------------------
(***************************************************************************)
(* What the hub promises about calls, whatever its goroutines do: a user   *)
(* is in no call or in one, each time through a session of its own, goes   *)
(* from one call to the next only by leaving, and a session that has ended *)
(* never comes back.  VoiceSession implements this module.                 *)
(***************************************************************************)
CONSTANTS Users, Channels, Sids, None

VARIABLES
    call,    \* Users -> the channel and the session of the user's call, or NoCall
    ended    \* sessions whose call is over

callVars == <<call, ended>>

NoCall == [ch |-> None, sid |-> None]

CallInit ==
    /\ call = [u \in Users |-> NoCall]
    /\ ended = {}

(* Join: a session nobody uses and nobody used before. *)
Enter(u, ch, s) ==
    /\ call[u] = NoCall
    /\ s \notin ended
    /\ \A v \in Users : call[v].sid # s
    /\ call' = [call EXCEPT ![u] = [ch |-> ch, sid |-> s]]
    /\ UNCHANGED ended

(* Leave, for whatever reason. *)
Exit(u) ==
    /\ call[u] # NoCall
    /\ call' = [call EXCEPT ![u] = NoCall]
    /\ ended' = ended \cup {call[u].sid}

CallNext ==
    \E u \in Users :
        \/ \E ch \in Channels, s \in Sids : Enter(u, ch, s)
        \/ Exit(u)

CallSpec == CallInit /\ [][CallNext]_callVars
=============================================================================
