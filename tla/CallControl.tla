---------------------------- MODULE CallControl -----------------------------
(***************************************************************************)
(* How the frontend enters, keeps and leaves a voice call:                 *)
(* services/sfuCallClient.ts (join, leave, rejoin, session recovery) with  *)
(* the handlers of hooks/useVoice.ts that call it.                         *)
(*                                                                         *)
(* Every call of an async function is a process; what it does between two  *)
(* awaits is one action.  The processes share one ChatSocket, which sends  *)
(* their commands one after another.  A call started by the user, by the   *)
(* return of the WebSocket and by the recovery of a lost session may all   *)
(* be under way at once.                                                   *)
(***************************************************************************)
EXTENDS Naturals, Sequences, FiniteSets, SequencesExt

CONSTANTS
    Users,          \* processes for the user's clicks
    Nets,           \* processes for returns of the WebSocket (bounds them)
    Loops,          \* processes for lost sessions, used again and again
    Channels,
    MaxSessions,    \* bound: sessions the hub grants
    MaxLosses,      \* bound: how often a session is lost
    Delays          \* length of RECOVERY_DELAYS_MS

ASSUME CallAssumption ==
    /\ Users \cap (Nets \cup Loops) = {} /\ Nets \cap Loops = {}
    /\ 0 \notin Channels
    /\ MaxSessions \in Nat /\ MaxLosses \in Nat /\ Delays \in Nat \ {0}

Procs == Users \cup Nets \cup Loops
Sessions == 1..MaxSessions

\* currentChannelID, sessionID and pc of the client are set and cleared
\* together, without an await in between: "sess" stands for the last two, a
\* peer connection goes by the session it was opened for.
VARIABLES
    at,             \* at[p]: the await p has reached
    goal,           \* goal[p]: the channel p is about
    fresh,          \* loops whose recoveryGeneration is still the current one
    left,           \* left[p]: attempts a loop has left
    chan, sess,     \* currentChannelID, sessionID (0: none)
    pcs,            \* peer connections that are open
    lostHandled,    \* sessionLostHandled
    status,         \* callStatus
    shown,          \* voiceChannelId of useVoice
    mic,            \* this.capture holds a microphone
    held,           \* joins that have captured one and not handed it over
    up,             \* the WebSocket is open
    cmds,           \* its commands, the first one pending
    member,         \* the session the hub has for the user, or 0
    closed,         \* sfu_session_closed on its way
    granted,        \* sessions granted so far
    failed,         \* sessions whose peer connection failed here
    losses,         \* how often a session was lost, by either side
    raced, refused, orphaned, unheard    \* history, see the properties

procVars == <<at, goal, fresh, left, held>>
clientVars == <<chan, sess, pcs, lostHandled, status, mic>>
wireVars == <<up, cmds>>
hubVars == <<member, closed, granted, failed, losses>>
history == <<raced, refused, orphaned, unheard>>
vars == <<procVars, clientVars, shown, wireVars, hubVars, history>>

Init ==
    /\ at = [p \in Procs |-> "idle"] /\ goal = [p \in Procs |-> 0]
    /\ fresh = {} /\ left = [p \in Loops |-> 0] /\ held = {}
    /\ chan = 0 /\ sess = 0 /\ pcs = {} /\ lostHandled = FALSE
    /\ status = "connected" /\ shown = 0 /\ mic = FALSE
    /\ up = TRUE /\ cmds = <<>>
    /\ member = 0 /\ closed = {} /\ granted = 0 /\ failed = {} /\ losses = 0
    /\ raced = FALSE /\ refused = FALSE /\ orphaned = FALSE /\ unheard = FALSE

-----------------------------------------------------------------------------
(* What the steps are made of *)

\* p sends a command after those of q and waits; on a closed socket it fails.
SendAfter(q, p, act, arg) ==
    cmds' = Append(q, [by |-> p, act |-> act, arg |-> arg,
                       got |-> IF up' THEN "nothing" ELSE "fail"])
Send(p, act, arg) == SendAfter(cmds, p, act, arg)

\* Which of the idle processes a new call gets does not matter.
NextIdle(S, p) == p \in S /\ at[p] = "idle" /\ p = CHOOSE q \in S : at[q] = "idle"

Goto(p, place) == at' = [at EXCEPT ![p] = place]

\* teardownPeerConnection
Teardown ==
    /\ pcs' = pcs \ {sess} /\ sess' = 0 /\ chan' = 0
    /\ fresh' = {}

\* applySession and the first part of openPeerConnection
ApplySession(s, c) ==
    /\ lostHandled' = FALSE /\ status' = "connected"
    /\ sess' = s /\ chan' = c /\ pcs' = pcs \cup {s}

(* Bug: recovery loops that sleep are not told. *)
LeaveTailKeepsLoops ==
    /\ pcs' = pcs \ {sess} /\ sess' = 0 /\ chan' = 0
    /\ mic' = FALSE /\ UNCHANGED fresh

\* What leave() does once the hub has answered, or when there is no call.
LeaveTail ==
    /\ Teardown
    /\ mic' = FALSE

\* A call other than p is under way, and not a loop that sleeps.
Busy(p) == \E q \in Procs \ {p} : at[q] \notin {"idle", "sleep", "done"}

-----------------------------------------------------------------------------
(* The user joins *)

\* join(c): at once if it is the call one is in; else leave() first.
StartJoin(p, c) ==
    /\ NextIdle(Users, p) /\ UNCHANGED up
    /\ goal' = [goal EXCEPT ![p] = c]
    /\ raced' = (raced \/ Busy(p))
    /\ IF chan = c
       THEN /\ Goto(p, "done") /\ shown' = c /\ status' = "connected"
            /\ UNCHANGED <<chan, sess, pcs, lostHandled, mic, fresh, cmds>>
       ELSE /\ UNCHANGED <<shown, status, lostHandled>>
            /\ IF chan = 0
               THEN LeaveTail /\ Goto(p, "acquire") /\ UNCHANGED cmds
               ELSE /\ Send(p, "leave", 0) /\ Goto(p, "quitting")
                    /\ UNCHANGED <<chan, sess, pcs, mic, fresh>>
    /\ UNCHANGED <<left, held, hubVars, refused, orphaned, unheard>>

\* getUserMedia succeeds, or the user joins to listen only.
Acquire(p) ==
    /\ at[p] = "acquire" /\ UNCHANGED up
    /\ held' \in {held, held \cup {p}}
    /\ Send(p, "join", goal[p]) /\ Goto(p, "join")
    /\ UNCHANGED <<goal, fresh, left, clientVars, shown, hubVars, history>>

\* p's join or offer has failed.  The client of a loop has torn the session
\* down by now and the loop finds its generation gone when it wakes up.
Failed(p) ==
    Goto(p, IF p \in Loops /\ left[p] > 0 THEN "sleep" ELSE "done")

\* createOffer and setLocalDescription are done, or reject on a connection
\* that was closed in the meantime.  The offer goes out for the session the
\* client has by then.
SendOffer(p) ==
    /\ at[p] = "open" /\ UNCHANGED up
    /\ \/ sess # 0 /\ Send(p, "offer", sess) /\ Goto(p, "offer")
          /\ UNCHANGED <<goal, fresh, left, held, refused>>
       \/ sess = 0 /\ Failed(p) /\ refused' = TRUE
          /\ UNCHANGED <<goal, fresh, left, held, cmds>>
    /\ UNCHANGED <<clientVars, shown, hubVars, raced, orphaned, unheard>>

-----------------------------------------------------------------------------
(* The user leaves *)

StartLeave(p) ==
    /\ NextIdle(Users, p) /\ shown # 0 /\ UNCHANGED up
    /\ raced' = (raced \/ Busy(p))
    /\ IF chan = 0
       THEN /\ LeaveTail /\ Goto(p, "done") /\ shown' = 0
            /\ status' = "connected" /\ UNCHANGED cmds
       ELSE /\ Send(p, "leave", 0) /\ Goto(p, "leaving")
            /\ UNCHANGED <<chan, sess, pcs, fresh, mic, shown, status>>
    /\ UNCHANGED <<goal, left, held, lostHandled, hubVars, refused, orphaned, unheard>>

-----------------------------------------------------------------------------
(* Sessions are lost and rejoined *)

\* rejoin(c): resume the session, or tear it down and join anew.
Rejoin(p, c) ==
    /\ raced' = (raced \/ Busy(p))
    /\ goal' = [goal EXCEPT ![p] = c]
    /\ IF chan = c
       THEN /\ Send(p, "resume", sess) /\ Goto(p, "resume")
            /\ UNCHANGED <<chan, sess, pcs, fresh>>
       ELSE /\ Teardown
            /\ Send(p, "join", c) /\ Goto(p, "join")

\* handleSessionLost and the start of runSessionRecovery
SessionLost ==
    /\ unheard' = (unheard \/ \E p \in Procs : lostHandled /\ at[p] = "resume")
    /\ UNCHANGED <<raced, refused, orphaned>>
    /\ IF lostHandled \/ chan = 0
       THEN UNCHANGED <<at, goal, fresh, left, lostHandled, status>>
       ELSE /\ lostHandled' = TRUE
            /\ IF up
               THEN \E p \in Loops :
                       /\ at[p] \in {"idle", "done"}
                       /\ Goto(p, "sleep") /\ goal' = [goal EXCEPT ![p] = chan]
                       /\ fresh' = fresh \cup {p}
                       /\ left' = [left EXCEPT ![p] = Delays]
                       /\ status' = "reconnecting"
               ELSE UNCHANGED <<at, goal, fresh, left, status>>

\* onconnectionstatechange: "failed".  A connection that is still being
\* offered is not connecting yet.
PcFails ==
    /\ sess # 0 /\ sess \notin failed /\ losses < MaxLosses
    /\ \A p \in Procs : at[p] \notin {"open", "offer"}
    /\ failed' = failed \cup {sess} /\ losses' = losses + 1
    /\ SessionLost
    /\ UNCHANGED <<held, chan, sess, pcs, mic, shown, wireVars, member, closed,
                   granted>>

\* sfu_session_closed
SessionClosed(s) ==
    /\ s \in closed /\ closed' = closed \ {s}
    /\ IF s = sess
       THEN SessionLost
       ELSE UNCHANGED <<at, goal, fresh, left, lostHandled, status, history>>
    /\ UNCHANGED <<held, chan, sess, pcs, mic, shown, wireVars, member,
                   granted, failed, losses>>

\* A recovery loop wakes up.
Wake(p) ==
    /\ p \in Loops /\ at[p] = "sleep" /\ UNCHANGED up
    /\ IF p \in fresh /\ up
       THEN Rejoin(p, goal[p])
       ELSE /\ Goto(p, "done")
            /\ UNCHANGED <<goal, fresh, chan, sess, pcs, cmds, raced>>
    /\ left' = [left EXCEPT ![p] = @ - 1]
    /\ UNCHANGED <<held, lostHandled, status, mic, shown, hubVars, refused,
                   orphaned, unheard>>

-----------------------------------------------------------------------------
(* Commands settle *)

Answered(act, got) ==
    cmds # <<>> /\ Head(cmds).act = act /\ Head(cmds).got = got

\* leave_voice_channel settled, one way or the other.
Left ==
    /\ Answered("leave", "ack") \/ Answered("leave", "fail")
    /\ cmds' = Tail(cmds)
    /\ LeaveTail
    /\ LET p == Head(cmds).by IN
       IF at[p] = "leaving"
       THEN Goto(p, "done") /\ shown' = 0 /\ status' = "connected"
       ELSE Goto(p, "acquire") /\ UNCHANGED <<shown, status>>
    /\ UNCHANGED <<goal, left, held, lostHandled, up, hubVars, history>>

\* The hub granted a session to the join of p.
Joined ==
    /\ Answered("join", "ack") /\ cmds' = Tail(cmds)
    /\ LET p == Head(cmds).by IN
       /\ held' = held \ {p}
       /\ IF p \in Users /\ chan = goal[p]
          THEN \* another call of join() was faster: back with what is there
               /\ Goto(p, "done") /\ shown' = chan /\ status' = "connected"
               /\ orphaned' = (orphaned \/ p \in held)
               /\ UNCHANGED <<chan, sess, pcs, lostHandled, mic>>
          ELSE /\ ApplySession(Head(cmds).arg, goal[p]) /\ Goto(p, "open")
               /\ mic' = IF p \in Users THEN p \in held ELSE mic
               /\ orphaned' = (orphaned \/ sess # 0 \/ (p \in Users /\ mic))
               /\ UNCHANGED shown
    /\ UNCHANGED <<goal, fresh, left, up, hubVars, raced, refused, unheard>>

Refused ==
    /\ Answered("join", "fail") \/ Answered("offer", "fail")
    /\ cmds' = Tail(cmds)
    /\ refused' = TRUE
    /\ LET p == Head(cmds).by IN
       /\ Failed(p)
       /\ orphaned' = (orphaned \/ p \in held) /\ held' = held \ {p}
    /\ UNCHANGED <<goal, fresh, left, clientVars, shown, up, hubVars, raced,
                   unheard>>

Offered ==
    /\ Answered("offer", "ack") /\ cmds' = Tail(cmds)
    /\ LET p == Head(cmds).by IN
       /\ Goto(p, "done")
       /\ IF p \in Users
          THEN shown' = goal[p] /\ status' = "connected"
          ELSE UNCHANGED <<shown, status>>
    /\ UNCHANGED <<goal, fresh, left, held, chan, sess, pcs, lostHandled, mic,
                   up, hubVars, history>>

(* Bug: a session that was resumed stays "lost". *)
ResumedStaysLost ==
    /\ Answered("resume", "ack") /\ cmds' = Tail(cmds)
    /\ Goto(Head(cmds).by, "done")
    /\ status' = "connected"
    /\ UNCHANGED <<goal, fresh, left, held, chan, sess, pcs, lostHandled, mic,
                   shown, up, hubVars, history>>

Resumed ==
    /\ Answered("resume", "ack") /\ cmds' = Tail(cmds)
    /\ Goto(Head(cmds).by, "done")
    /\ lostHandled' = FALSE /\ status' = "connected"
    /\ UNCHANGED <<goal, fresh, left, held, chan, sess, pcs, mic, shown, up,
                   hubVars, history>>

(* Bug: the old peer connection is not closed before the new join. *)
NotResumedKeepsOld ==
    /\ Answered("resume", "fail") /\ UNCHANGED up
    /\ LET p == Head(cmds).by IN
       Goto(p, "join") /\ SendAfter(Tail(cmds), p, "join", goal[p])
    /\ UNCHANGED <<chan, sess, pcs, fresh>>
    /\ UNCHANGED <<goal, left, held, lostHandled, status, mic, shown, hubVars,
                   history>>

\* A resume that fails falls back to a new session.
NotResumed ==
    /\ Answered("resume", "fail") /\ UNCHANGED up
    /\ LET p == Head(cmds).by IN
       Goto(p, "join") /\ SendAfter(Tail(cmds), p, "join", goal[p])
    /\ Teardown
    /\ UNCHANGED <<goal, left, held, lostHandled, status, mic, shown, hubVars,
                   history>>

-----------------------------------------------------------------------------
(* The hub and the connection *)

\* The hub executes the pending command.  Its answer arrives, or is lost and
\* the command times out.
HubAnswers(got) == cmds' = [cmds EXCEPT ![1].got = got]
Pending(act) == up /\ Answered(act, "nothing")

HubLeaves ==
    /\ Pending("leave")
    /\ member' = 0
    /\ \E got \in {"ack", "fail"} : HubAnswers(got)
    /\ UNCHANGED <<procVars, clientVars, shown, up, closed, granted, failed,
                   losses, history>>

HubJoins ==
    /\ Pending("join")
    /\ \/ /\ granted < MaxSessions
          /\ granted' = granted + 1 /\ member' = granted + 1
          /\ \E got \in {"ack", "fail"} :
                cmds' = [cmds EXCEPT ![1].got = got, ![1].arg = granted + 1]
       \/ member' \in {member, 0} /\ HubAnswers("fail") /\ UNCHANGED granted
    /\ UNCHANGED <<procVars, clientVars, shown, up, closed, failed, losses,
                   history>>

HubTakesOther ==
    /\ Pending("resume") \/ Pending("offer")
    /\ \/ Head(cmds).arg = member /\ HubAnswers("ack")
       \/ HubAnswers("fail")
    /\ UNCHANGED <<procVars, clientVars, shown, up, hubVars, history>>

\* A failed peer connection, the end of a grace period, or the sweep.
HubEnds ==
    /\ member # 0 /\ losses < MaxLosses
    /\ losses' = losses + 1 /\ member' = 0
    /\ closed' = IF up THEN closed \cup {member} ELSE closed
    /\ UNCHANGED <<procVars, clientVars, shown, wireVars, granted, failed,
                   history>>

Drop ==
    /\ up /\ \E p \in Nets : at[p] = "idle"
    /\ up' = FALSE /\ closed' = {}
    /\ cmds' = [i \in DOMAIN cmds |-> [cmds[i] EXCEPT !.got = "fail"]]
    /\ UNCHANGED <<procVars, clientVars, shown, member, granted, failed, losses,
                   history>>

\* "restored": onReconnectRestored
Restore(p) ==
    /\ ~up /\ cmds = <<>> /\ NextIdle(Nets, p) /\ up' = TRUE
    /\ IF shown # 0
       THEN Rejoin(p, shown)
       ELSE Goto(p, "done") /\ UNCHANGED <<goal, fresh, chan, sess, pcs, cmds, raced>>
    /\ UNCHANGED <<left, held, lostHandled, status, mic, shown, hubVars, refused,
                   orphaned, unheard>>

-----------------------------------------------------------------------------
Settle == Left \/ Joined \/ Refused \/ Offered \/ Resumed \/ NotResumed
HubNext == HubLeaves \/ HubJoins \/ HubTakesOther

Next ==
    \/ \E p \in Users, c \in Channels : StartJoin(p, c)
    \/ \E p \in Procs : StartLeave(p) \/ Acquire(p) \/ SendOffer(p) \/ Wake(p)
                         \/ Restore(p)
    \/ PcFails \/ \E s \in Sessions : SessionClosed(s)
    \/ Settle \/ HubNext \/ HubEnds \/ Drop

Spec == Init /\ [][Next]_vars

\* Timers run out, promises settle, prompts are answered, a command is
\* answered or times out, a lost WebSocket comes back (ChatSocket).  Nobody
\* has to click, and nothing has to be lost.
FairSpec ==
    /\ Spec
    /\ \A p \in Procs : WF_vars(Acquire(p) \/ SendOffer(p) \/ Wake(p) \/ Restore(p))
    /\ WF_vars(Settle) /\ WF_vars(HubNext)
    /\ WF_vars(\E s \in Sessions : SessionClosed(s))

-----------------------------------------------------------------------------
(* Properties *)

Quiet == cmds = <<>> /\ closed = {} /\ \A p \in Procs : at[p] \in {"idle", "done"}

\* A call that was left is left: when nothing is under way and no call is
\* shown, the client holds no channel, no peer connection and no microphone,
\* unless clicks, returns of the WebSocket and recoveries overlapped or a join
\* was refused.  A recovery loop that slept meanwhile does not join again.
LeftMeansLeft ==
    Quiet /\ shown = 0 /\ ~raced /\ ~refused => ~mic /\ chan = 0 /\ pcs = {}

\* The same for what can no longer be reached: a peer connection is closed
\* before it is replaced, a captured microphone handed over or kept, as long
\* as joins neither overlap nor are refused.
NothingOrphaned == orphaned => raced \/ refused

\* A session of the call that is shown is given up when the hub has ended it,
\* whatever the order of lost connections, lost sessions and resumes: either the notice or the
\* failed resume gets through, and sessionLostHandled never hides the next
\* loss.  Except for a loss reported while a resume is under way: it is
\* ignored if a recovery has begun, and the late answer of the resume, whose
\* storage reads the notice may overtake, declares the session alive.  And a
\* join that is refused may have cost the session without notice.
DeadSessionIsLeft ==
    \A s \in Sessions :
        (sess = s /\ member # s)
            ~> (sess # s \/ shown # chan \/ unheard \/ raced \/ refused)

(***************************************************************************)
(* Why a call that was left is left.                                       *)
(***************************************************************************)

\* The awaits at which a call stands while it waits for each command.
Awaiting == [leave |-> {"leaving", "quitting"}, join |-> {"join"},
             resume |-> {"resume"}, offer |-> {"offer"}]
UserOnly == {"acquire", "leaving", "quitting"}
Resting == {"idle", "sleep", "done"}
Places == Resting \cup UserOnly \cup {"join", "open", "offer", "resume"}

\* A join that succeeded names the session.
Command ==
    {c \in [by : Procs, act : DOMAIN Awaiting, arg : Channels \cup Nat,
            got : {"nothing", "ack", "fail"}] :
        c.act = "join" /\ c.got = "ack" => c.arg \in Nat \ {0}}

CallTypeOK ==
    /\ at \in [Procs -> Places] /\ goal \in [Procs -> Channels \cup {0}]
    /\ left \in [Loops -> Nat] /\ \A p \in Loops : at[p] = "sleep" => left[p] > 0
    /\ fresh \subseteq Loops /\ held \subseteq Procs
    /\ {chan, shown} \subseteq Channels \cup {0} /\ {sess, member, granted} \subseteq Nat
    /\ cmds \in Seq(Command) /\ pcs \subseteq Nat

\* One call at a time, and it owns the pending command.
OneAtATime ==
    /\ \A p, q \in Procs : at[p] \notin Resting /\ at[q] \notin Resting => p = q
    /\ Len(cmds) <= 1
    /\ \A i \in DOMAIN cmds : at[cmds[i].by] \in Awaiting[cmds[i].act]

\* The client is in a call with everything or with nothing.
Whole == /\ chan = 0 <=> sess = 0
         /\ pcs = IF sess = 0 THEN {} ELSE {sess}
         /\ chan = 0 => fresh = {}

\* Who is where may rely on what.
InPlace ==
    \A p \in Procs :
        /\ at[p] \in UserOnly => p \in Users
        /\ at[p] \in {"resume", "sleep"} => p \notin Users
        /\ at[p] \notin {"idle", "done", "leaving"} => goal[p] # 0
        /\ at[p] \in {"acquire", "join"} => chan = 0 /\ (p \in Users => ~mic)
        /\ at[p] \notin Resting /\ p \notin Users => shown # 0

\* When nobody is at it, there is no call without its banner.
NothingLeftOver ==
    (\A p \in Procs : at[p] \in Resting) /\ shown = 0 => chan = 0 /\ ~mic

Tidy == OneAtATime /\ Whole /\ InPlace /\ NothingLeftOver /\ ~orphaned

CallInv == CallTypeOK /\ (raced \/ refused \/ Tidy)

(***************************************************************************)
(* What comments say and the code does not do.                             *)
(***************************************************************************)

\* sfuCallClient.ts: "Up to 3 automatic rejoin attempts with backoff", then
\* "lost": the banner that says "Reconnecting" goes away in the end.
RecoveryEnds == (status = "reconnecting") ~> (status # "reconnecting" \/ shown = 0)
=============================================================================
