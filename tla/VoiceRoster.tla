----------------------------- MODULE VoiceRoster -----------------------------
(***************************************************************************)
(* Who is in the call, as one user sees it: the list of participants and   *)
(* the dimmed tiles of hooks/useVoice.ts, over the hub's membership.  The  *)
(* user is "me" and one other member of the channel is "the peer".         *)
(*                                                                         *)
(* Two sources tell of a peer in trouble: the events voice_user_detached   *)
(* and voice_user_resumed, and a flag in the hub's snapshots.  The client  *)
(* keeps the flag of a join's answer and drops that of a poll's.  The hub  *)
(* pushes some events off its Run loop, steps after what they tell of.     *)
(***************************************************************************)
EXTENDS Naturals, Sequences

CONSTANTS
    MaxSessions,        \* bound: sessions of the peer
    MaxDetaches,        \* bound: connections the peer loses
    MaxDown,            \* bound: events on the way to me
    MaxCalls,           \* bound: calls I join
    MaxOutages          \* bound: connections I lose

Absent == "absent"

VARIABLES
    session, sessionsMade,  \* the peer's session in the hub, 0 without one
    grace,          \* session whose grace timer is armed, or 0
    detach,         \* handleVoiceDisconnect under way: [of, at]
    detaches,
    resuming, leaving,      \* voice_user_resumed, voice_user_left not pushed yet
    mine,           \* the hub has me in the call
    answer,         \* <<a snapshot that is built and not pushed>>, or <<>>
    connected, up, down,    \* my connection: a command and events on the way
    inCall,         \* voiceChannelId > 0
    joining,        \* <<the join's list>> while the connection is set up, or <<>>
    row,            \* the peer in voiceParticipantsByChannel
    dimmed,         \* the peer is in detachedUserIdsFromEvents
    calls, outages,
    polled,         \* "read": a snapshot was built after the last change of who
                    \* is in; "shown": I have applied it; "no": neither
    missed,         \* an event of the peer's trouble was not for me, or lost to me
    overtaken       \* a detach met a resume or its session's end, or a
                    \* late voice_user_left met the next session

peerVars == <<session, sessionsMade, grace, detach, detaches, resuming, leaving>>
screenVars == <<inCall, joining, row, dimmed>>
rosterVars == <<peerVars, mine, answer, connected, up, down, screenVars, calls, outages,
                polled, missed, overtaken>>

NoDetach == [of |-> 0, at |-> "idle"]

RosterInit ==
    /\ session = 0 /\ sessionsMade = 0 /\ grace = 0 /\ detach = NoDetach /\ detaches = 0
    /\ resuming = FALSE /\ leaving = FALSE /\ mine = FALSE /\ answer = <<>>
    /\ connected = TRUE /\ up = "none" /\ down = <<>>
    /\ inCall = FALSE /\ joining = <<>> /\ row = Absent /\ dimmed = FALSE
    /\ calls = 0 /\ outages = 0
    /\ polled = "no" /\ missed = FALSE /\ overtaken = FALSE

\* resolveVoiceParticipant: "detached" is an armed grace timer.
PeerRow == IF session = 0 THEN Absent ELSE IF grace # 0 THEN "detached" ELSE "present"

\* pushToUsers to every member of the server, or to the call's participants.
\* Nobody repeats what does not reach me.
PushAll(events) ==
    /\ Len(down) + Len(events) <= MaxDown
    /\ down' = IF connected THEN down \o events ELSE down
    /\ missed' = (missed \/ (~connected /\ inCall))
PushCall(kind) ==
    LET reached == connected /\ mine
    IN  /\ Len(down) < MaxDown
        /\ down' = IF reached THEN Append(down, [kind |-> kind]) ELSE down
        /\ missed' = (missed \/ (~reached /\ inCall))

\* Who is in changes (or a late voice_user_left says so): read again.
Changes(membership) == polled' = IF membership THEN "no" ELSE polled

OnlyPeer == UNCHANGED <<mine, answer, connected, up, screenVars, calls, outages>>

-----------------------------------------------------------------------------
(* The peer *)

\* joinVoiceChannel leaves what the user still is in first.
PeerJoins ==
    /\ sessionsMade < MaxSessions /\ sessionsMade' = sessionsMade + 1
    /\ session' = sessionsMade'
    /\ grace' = IF session = 0 THEN grace ELSE 0
    /\ PushAll((IF session = 0 THEN <<>> ELSE <<[kind |-> "left"]>>)
                 \o <<[kind |-> "joined", row |-> IF grace' # 0 THEN "detached" ELSE "present"]>>)
    /\ UNCHANGED <<detach, detaches, resuming, leaving, overtaken>>
    /\ Changes(TRUE) /\ OnlyPeer

PeerLeaves ==
    /\ session # 0 /\ session' = 0 /\ grace' = 0
    /\ PushAll(<<[kind |-> "left"]>>)
    /\ UNCHANGED <<sessionsMade, detach, detaches, resuming, leaving, overtaken>>
    /\ Changes(TRUE) /\ OnlyPeer

\* handleVoiceDisconnect, in the background after an eviction: it takes the
\* session, tells the participants, and only then arms the timer.
PeerDetaches ==
    /\ session # 0 /\ detach = NoDetach /\ detaches < MaxDetaches
    /\ detaches' = detaches + 1 /\ detach' = [of |-> session, at |-> "taken"]
    /\ overtaken' = (overtaken \/ resuming)
    /\ UNCHANGED <<session, sessionsMade, grace, resuming, leaving, down, missed, polled>>
    /\ OnlyPeer
TellDetached ==
    /\ detach.at = "taken" /\ detach' = [detach EXCEPT !.at = "told"]
    /\ PushCall("detached")
    /\ overtaken' = (overtaken \/ session # detach.of)
    /\ UNCHANGED <<session, sessionsMade, grace, detaches, resuming, leaving, polled>>
    /\ OnlyPeer
ArmGrace ==
    /\ detach.at = "told" /\ detach' = NoDetach /\ grace' = detach.of
    /\ overtaken' = (overtaken \/ session # detach.of)
    /\ UNCHANGED <<session, sessionsMade, detaches, resuming, leaving, down, missed, polled>>
    /\ OnlyPeer

\* expireVoiceSession, on the timer's goroutine: the push comes after reads.
GraceExpires ==
    /\ grace # 0 /\ ~leaving /\ grace' = 0
    /\ leaving' = (session = grace)
    /\ session' = IF session = grace THEN 0 ELSE session
    /\ UNCHANGED <<sessionsMade, detach, detaches, resuming, down, missed, overtaken>>
    /\ Changes(session = grace) /\ OnlyPeer
TellLeft ==
    /\ leaving /\ leaving' = FALSE /\ PushAll(<<[kind |-> "left"]>>)
    /\ overtaken' = (overtaken \/ session # 0)
    /\ UNCHANGED <<session, sessionsMade, grace, detach, detaches, resuming>>
    /\ Changes(session # 0) /\ OnlyPeer

\* handleSfuResume, off the Run loop.
PeerResumes ==
    /\ session # 0 /\ ~resuming /\ (grace # 0 \/ detach.of = session)
    /\ resuming' = TRUE /\ grace' = 0
    /\ overtaken' = (overtaken \/ detach # NoDetach)
    /\ UNCHANGED <<session, sessionsMade, detach, detaches, leaving, down, missed, polled>>
    /\ OnlyPeer
TellResumed ==
    /\ resuming /\ resuming' = FALSE /\ PushCall("resumed")
    /\ UNCHANGED <<session, sessionsMade, grace, detach, detaches, leaving, overtaken, polled>>
    /\ OnlyPeer

-----------------------------------------------------------------------------
(* The hub, for me *)

Coming(kinds) == \E i \in DOMAIN down : down[i].kind \in kinds

\* get_server_channels, every three seconds: what is pushed was read before.
TakeSnapshot ==
    /\ connected /\ answer = <<>> /\ ~Coming({"snapshot"})
    /\ answer' = <<PeerRow>> /\ polled' = (IF polled = "no" THEN "read" ELSE polled)
    /\ UNCHANGED <<peerVars, mine, connected, up, down, screenVars, calls, outages,
                   missed, overtaken>>
PushSnapshot ==
    /\ answer # <<>> /\ answer' = <<>> /\ Len(down) < MaxDown
    /\ down' = Append(down, [kind |-> "snapshot", row |-> Head(answer)])
    /\ UNCHANGED <<peerVars, mine, connected, up, screenVars, calls, outages,
                   polled, missed, overtaken>>

\* joinVoiceChannel and leaveVoiceChannel, on the Run loop.
Serve ==
    /\ up # "none" /\ up' = "none" /\ answer = <<>> /\ Len(down) < MaxDown
    /\ mine' = (up = "join")
    /\ missed' = IF up = "join" THEN grace # 0 \/ detach.at = "told" ELSE missed
    /\ down' = Append(down, IF up = "join" THEN [kind |-> "joinAck", row |-> PeerRow]
                                           ELSE [kind |-> "leaveAck"])
    /\ UNCHANGED <<peerVars, answer, connected, screenVars, calls, outages, polled,
                   overtaken>>

-----------------------------------------------------------------------------
(* My client *)

Hub == <<peerVars, mine, answer, connected>>

\* handleJoinVoice and handleLeaveVoice, up to their command.
HandleJoinVoice ==
    /\ connected /\ ~inCall /\ joining = <<>> /\ up = "none" /\ ~Coming({"joinAck"})
    /\ calls < MaxCalls /\ calls' = calls + 1 /\ up' = "join"
    /\ UNCHANGED <<Hub, down, screenVars, outages, polled, missed, overtaken>>

HandleLeaveVoice ==
    /\ connected /\ inCall /\ up = "none" /\ ~Coming({"leaveAck"})
    /\ up' = "leave"
    /\ UNCHANGED <<Hub, down, screenVars, calls, outages, polled, missed, overtaken>>

\* The offer is acknowledged: the list is the join's, however old it is.
JoinSettles ==
    /\ joining # <<>> /\ joining' = <<>> /\ inCall' = TRUE
    /\ row' = Head(joining) /\ dimmed' = FALSE
    /\ Changes(polled = "shown")
    /\ UNCHANGED <<Hub, up, down, calls, outages, missed, overtaken>>

\* onVoiceUserLeft
OnVoiceUserLeft == row' = Absent /\ dimmed' = FALSE

\* onVoiceUserJoined: a row that is there stays.
OnVoiceUserJoined(r) == row' = (IF row = Absent THEN r ELSE row) /\ UNCHANGED dimmed

\* onVoiceUserDetached, onVoiceUserResumed: only in a call (voiceChannelIdRef).
OnVoiceUserTrouble(kind) ==
    dimmed' = (IF inCall THEN kind = "detached" ELSE dimmed) /\ UNCHANGED row

\* detachedUserIds merges the events with the flag of the last snapshot.
DetachedUserIds == dimmed \/ row = "detached"

\* What arrives, in the order it was pushed.
Take(kinds) ==
    /\ down # <<>> /\ Head(down).kind \in kinds /\ down' = Tail(down)
    /\ UNCHANGED <<Hub, up, calls, outages, overtaken>>

ReceiveMember ==
    /\ Take({"joined", "left"})
    /\ IF Head(down).kind = "left" THEN OnVoiceUserLeft ELSE OnVoiceUserJoined(Head(down).row)
    /\ UNCHANGED <<inCall, joining, polled, missed>>

ReceiveTrouble ==
    /\ Take({"detached", "resumed"}) /\ OnVoiceUserTrouble(Head(down).kind)
    /\ missed' = (missed \/ ~inCall)
    /\ UNCHANGED <<inCall, joining, polled>>

\* getServerChannelsState copies the fields it names; detached is not one.
Parsed(r) == IF r = "detached" THEN "present" ELSE r

\* Bug: a poll adds who is new and forgets nobody.
PollOnlyAdds(r) == IF Parsed(r) = Absent THEN row ELSE Parsed(r)

\* syncServersAndChannels replaces the lists.
Replaced(r) == Parsed(r)

ReceiveSnapshot ==
    /\ Take({"snapshot"}) /\ row' = Replaced(Head(down).row)
    /\ polled' = (IF polled = "read" THEN "shown" ELSE polled)
    /\ UNCHANGED <<inCall, joining, dimmed, missed>>

ReceiveJoinAnswer ==
    /\ Take({"joinAck"}) /\ joining' = <<Head(down).row>>
    /\ UNCHANGED <<inCall, row, dimmed, polled, missed>>

\* handleLeaveVoice's finally: the rest of the screen's state.
ReceiveLeaveAnswer ==
    /\ Take({"leaveAck"}) /\ inCall' = FALSE /\ dimmed' = FALSE /\ missed' = FALSE
    /\ UNCHANGED <<joining, row, polled>>

\* My connection goes, with what is on the way; a join's offer fails.
LoseMine ==
    /\ connected /\ outages < MaxOutages
    /\ outages' = outages + 1 /\ connected' = FALSE
    /\ up' = "none" /\ down' = <<>> /\ answer' = <<>> /\ joining' = <<>>
    /\ Changes(polled = "read")
    /\ missed' = (missed \/ (inCall /\ down # <<>>))
    /\ UNCHANGED <<peerVars, mine, inCall, row, dimmed, calls, overtaken>>

\* Back again: rejoin() resumes my session or joins anew; useVoice's state
\* stays as it is.  Without a call the hub lets my session expire.
ComeBack ==
    /\ ~connected /\ connected' = TRUE /\ mine' = inCall
    /\ UNCHANGED <<peerVars, answer, up, down, screenVars, calls, outages, polled,
                   missed, overtaken>>

RosterNext ==
    \/ PeerJoins \/ PeerLeaves \/ PeerDetaches \/ TellDetached \/ ArmGrace
    \/ GraceExpires \/ TellLeft \/ PeerResumes \/ TellResumed
    \/ TakeSnapshot \/ PushSnapshot \/ Serve
    \/ HandleJoinVoice \/ JoinSettles \/ HandleLeaveVoice
    \/ ReceiveMember \/ ReceiveTrouble \/ ReceiveSnapshot
    \/ ReceiveJoinAnswer \/ ReceiveLeaveAnswer \/ LoseMine \/ ComeBack

-----------------------------------------------------------------------------
(* Properties *)

\* Once a snapshot the hub built after the last change of who is in has
\* arrived, the list is the hub's, whatever else is on the way or arrives
\* after it, until the next change.  When nothing is on the way any more, a
\* tile is dim (detachedUserIds) exactly if its user's grace timer runs.
\* A voice_user_left pushed late, after the next session has begun, counts as
\* a change: it empties the row until the next poll; so does the list of a
\* join that is put over a newer snapshot.  The tile is excepted after an
\* event of the peer's trouble was lost to me or told before I was there, and
\* after a detach that overlapped a resume or its session's end, or a late
\* voice_user_left that met the next session (overtaken): then it stays as it
\* is until that user leaves, or is in trouble again.
RosterSettles ==
    polled = "shown" =>
        /\ row = Parsed(PeerRow)
        /\ (/\ down = <<>> /\ ~leaving /\ ~resuming /\ detach = NoDetach
            /\ inCall /\ row # Absent /\ ~missed /\ ~overtaken)
               => (DetachedUserIds <=> grace # 0)

=============================================================================
