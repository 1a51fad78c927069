----------------------------- MODULE VoiceSession -----------------------------
(***************************************************************************)
(* Voice membership in the hub (internal/service/server/hub.go, client.go) *)
(* on top of the SFU router's sessions: who is in which call, through      *)
(* which session, across lost WebSockets, evictions, resumes, grace        *)
(* timers, dead PeerConnections and the reconciliation sweep.              *)
(*                                                                         *)
(* Hub.Run is one goroutine, but it is not the only one that changes the   *)
(* voice maps: grace timers, SessionObserver callbacks, the sweep, evicted *)
(* clients and sfu_resume all run beside it.  Every goroutine is modelled  *)
(* with its own program counter, and every critical section of h.mu (read  *)
(* or write) is one action, so that what is read under one hold and used   *)
(* under the next is as stale here as it is in the code.                   *)
(*                                                                         *)
(* Each WebSocket connection is lost at most once and then starts at most  *)
(* one handleVoiceDisconnect, which arms at most one grace timer: both are *)
(* part of loss[c], where c is the connection:                             *)
(*                                                                         *)
(*   "none" -> "read" -> "detach" -> "arm"    handleVoiceDisconnect        *)
(*        or -> "leave" -> "done"             ... that keeps nothing       *)
(*   "armed" -> "stopped"                     the timer, stopped           *)
(*   "armed" -> "fired" -> "matched" -> "done"  expireVoiceSession         *)
(***************************************************************************)
EXTENDS SfuSessions, Naturals

CONSTANTS
    Conns,      \* WebSocket connections (Client objects)
    UserOf,     \* Conns -> Users: Client.UserID, fixed when it connects
    Reconcile,  \* SFU_RECONCILE_INTERVAL > 0: the sweep runs
    MaxCommands \* bound: voice commands that all clients send, in all

ASSUME ConnAssumption ==
    /\ UserOf \in [Conns -> Users]
    /\ None \notin Conns
    /\ Reconcile \in BOOLEAN
    /\ MaxCommands \in Nat

VARIABLES
    (* hub.go, guarded by h.mu *)
    client,        \* clientsByUser:     Users -> Conns or None
    session,       \* sfuSessionByUser:  Users -> Sids or None
    channel,       \* userVoiceChannel:  Users -> Channels or None
    participants,  \* voiceParticipants: Channels -> sets of users
    timer,         \* sfuGraceTimers:    Users -> the connection whose loss armed it
    (* the connections, with the one command each may have on its way to Run *)
    socket,        \* Conns -> "unused", "open", "closed" or "lost" (the reader
                   \*   ended: gracefully or not), "done" (Unregister taken)
    inbox,         \* Conns -> command read from the socket, or None
    sent,          \* how many commands clients have sent
    (* other goroutines *)
    loss,          \* Conns -> handleVoiceDisconnect, its timer, expireVoiceSession
    resume,        \* Conns -> handleSfuResume
    media,         \* Sids -> the PeerConnection, then OnSessionClosed: "new", "up",
                   \*   "died", "matched", "reported"
    detached,      \* sessions whose Peer.detached is set
    aged,          \* sessions at least one ReconcileInterval old
    run,           \* Hub.Run: what its current command still has to do
    sweep          \* reconcileTick: its snapshots and what is left to do

voiceVars == <<session, channel, participants, timer>>
connVars == <<client, socket, inbox, sent>>
goVars == <<resume, media, detached, aged>>
vars == <<sessionVars, voiceVars, connVars, goVars, loss, run, sweep>>

Commands == [op : {"join"}, ch : Channels] \cup [op : {"leave"}]
              \cup [op : {"resume"}, sid : Sids]

Losses == {"none", "read", "detach", "arm", "leave", "armed", "stopped", "fired",
           "matched", "done"}

Resumes == {"none", "check", "router", "stop", "expire", "matched"}

TypeOK ==
    /\ SessionsTypeOK
    /\ client \in [Users -> Conns \cup {None}]
    /\ session \in [Users -> Sids \cup {None}]
    /\ channel \in [Users -> Channels \cup {None}]
    /\ participants \in [Channels -> SUBSET Users]
    /\ timer \in [Users -> Conns \cup {None}]
    /\ socket \in [Conns -> {"unused", "open", "closed", "lost", "done"}]
    /\ inbox \in [Conns -> Commands \cup {None}]
    /\ sent \in 0..MaxCommands
    /\ loss \in [Conns -> [pc : Losses, sid : Sids \cup {None}]]
    /\ resume \in [Conns -> [pc : Resumes, sid : Sids \cup {None}]]
    /\ media \in [Sids -> {"new", "up", "died", "matched", "reported"}]
    /\ detached \in SUBSET Sids
    /\ aged \in SUBSET Sids
    /\ run \in [pc : {"idle", "wait", "join", "set", "disc"},
                conn : Conns \cup {None}, ch : Channels \cup {None},
                sid : Sids \cup {None}]
    /\ sweep \in [pc : {"idle", "hub", "act", "wait"},
                  live : SUBSET Sids, old : SUBSET Sids, dead : SUBSET Sids,
                  suspects : SUBSET Users, orphans : SUBSET Sids,
                  sid : Sids \cup {None}]

At(pc, sid) == [pc |-> pc, sid |-> sid]
Idle == At("none", None)
Done == At("done", None)

RunIdle == [pc |-> "idle", conn |-> None, ch |-> None, sid |-> None]

SweepIdle == [pc |-> "idle", live |-> {}, old |-> {}, dead |-> {},
              suspects |-> {}, orphans |-> {}, sid |-> None]

Init ==
    /\ SessionsInit
    /\ client = [u \in Users |-> None]
    /\ session = [u \in Users |-> None]
    /\ channel = [u \in Users |-> None]
    /\ participants = [ch \in Channels |-> {}]
    /\ timer = [u \in Users |-> None]
    /\ socket = [c \in Conns |-> "unused"]
    /\ inbox = [c \in Conns |-> None]
    /\ sent = 0
    /\ loss = [c \in Conns |-> Idle]
    /\ resume = [c \in Conns |-> Idle]
    /\ media = [s \in Sids |-> "new"]
    /\ detached = {}
    /\ aged = {}
    /\ run = RunIdle
    /\ sweep = SweepIdle

-----------------------------------------------------------------------------
(* timer.Stop: no effect on a timer that has already fired. *)
Stop(l, c) ==
    IF c # None /\ l[c].pc = "armed" THEN [l EXCEPT ![c] = At("stopped", None)] ELSE l

(* Bug: Router.Leave is not called.                                        *)
LeaveVoiceKeepsPeer(u, l) ==
    IF channel[u] = None
      THEN /\ loss' = l
           /\ UNCHANGED <<voiceVars, condemned>>
      ELSE /\ loss' = Stop(l, timer[u])
           /\ timer' = [timer EXCEPT ![u] = None]
           /\ session' = [session EXCEPT ![u] = None]
           /\ channel' = [channel EXCEPT ![u] = None]
           /\ participants' = [participants EXCEPT ![channel[u]] = @ \ {u}]
           /\ UNCHANGED condemned

(* leaveVoiceChannelInternal's hold of h.mu.  It is given a user, never a  *)
(* session: it gives up whatever session the user has by now.  l is loss   *)
(* after the caller's own step.  The Router.Leave that follows is Leave and*)
(* LeaveReturns; the voice_user_left broadcast changes no state here.      *)
LeaveVoice(u, l) ==
    IF channel[u] = None
      THEN /\ loss' = l
           /\ UNCHANGED <<voiceVars, condemned>>
      ELSE /\ loss' = Stop(l, timer[u])
           /\ timer' = [timer EXCEPT ![u] = None]
           /\ session' = [session EXCEPT ![u] = None]
           /\ channel' = [channel EXCEPT ![u] = None]
           /\ participants' = [participants EXCEPT ![channel[u]] = @ \ {u}]
           /\ condemned' = condemned \cup ({session[u]} \ {None})

(* Everything of the router but condemned. *)
peerVars == <<life, peerUser, peerChannel>>

(* The Router.Leave(s) of a goroutine that left a call has returned.  A    *)
(* sweep that holds s as an orphan may be executing it in its stead.       *)
LeaveReturned(s) ==
    s # None => \/ life[s] = "gone"
                \/ sweep.sid = s /\ life[s] = "leaving"

-----------------------------------------------------------------------------
(* Connections: the handler, the reader goroutine (client.go).             *)

(* Bug: the connection that is replaced is forgotten.                      *)
RegisterOver(c) ==
    /\ run.pc = "idle"
    /\ socket[c] = "unused"
    /\ socket' = [socket EXCEPT ![c] = "open"]
    /\ client' = [client EXCEPT ![UserOf[c]] = c]
    /\ UNCHANGED <<sessionVars, voiceVars, inbox, sent, goVars, loss, run, sweep>>

(* Run takes a new Client from Register; a different connection of the     *)
(* same user is evicted: closed at once, its disconnect in the background. *)
Register(c) ==
    /\ run.pc = "idle"
    /\ socket[c] = "unused"
    /\ socket' = [socket EXCEPT ![c] = "open"]
    /\ client' = [client EXCEPT ![UserOf[c]] = c]
    /\ loss' = [d \in Conns |-> IF d = client[UserOf[c]] THEN At("read", None) ELSE loss[d]]
    /\ UNCHANGED <<sessionVars, voiceVars, inbox, sent, goVars, run, sweep>>

(* The reader takes a command off the socket; until Run receives it, it    *)
(* waits in the reader or in the Commands buffer, whatever happens to the  *)
(* connection meanwhile.                                                   *)
Send(c, cmd) ==
    /\ socket[c] = "open"
    /\ client[UserOf[c]] = c
    /\ inbox[c] = None
    /\ sent < MaxCommands
    /\ inbox' = [inbox EXCEPT ![c] = cmd]
    /\ sent' = sent + 1
    /\ UNCHANGED <<sessionVars, voiceVars, client, socket, goVars, loss, run, sweep>>

(* What a client may ask: to resume, a session whose media it had up.      *)
Requests(u) ==
    [op : {"join"}, ch : Channels] \cup [op : {"leave"}]
      \cup [op : {"resume"}, sid : {s \in Sids : peerUser[s] = u /\ media[s] # "new"}]

(* The read loop ends: a close frame, an error, or the eviction's Close.   *)
LoseSocket(c) ==
    /\ socket[c] = "open"
    /\ \E how \in {"closed", "lost"} : socket' = [socket EXCEPT ![c] = how]
    /\ UNCHANGED <<sessionVars, voiceVars, client, inbox, sent, goVars, loss, run, sweep>>

(* Run receives the Unregister the reader deferred, and handles the voice  *)
(* disconnect itself, before anything else.                                *)
Unregister(c) ==
    /\ run.pc = "idle"
    /\ socket[c] \in {"closed", "lost"}
    /\ socket' = [socket EXCEPT ![c] = "done"]
    /\ IF client[UserOf[c]] = c
         THEN /\ client' = [client EXCEPT ![UserOf[c]] = None]
              /\ loss' = [loss EXCEPT ![c] =
                            At(IF socket[c] = "closed" THEN "leave" ELSE "read", None)]
              /\ run' = [RunIdle EXCEPT !.pc = "disc", !.conn = c]
         ELSE UNCHANGED <<client, loss, run>>
    /\ UNCHANGED <<sessionVars, voiceVars, inbox, sent, goVars, sweep>>

-----------------------------------------------------------------------------
(* Hub.Run's voice commands.  Nothing checks that the connection a command *)
(* came from is still the user's, or still there.                          *)

(* joinVoiceChannel turned down before it changes anything: no such        *)
(* channel, not a voice channel, no access, storage error.                 *)
RefuseJoin(c) ==
    /\ run.pc = "idle"
    /\ inbox[c] # None
    /\ inbox[c].op = "join"
    /\ inbox' = [inbox EXCEPT ![c] = None]
    /\ UNCHANGED <<sessionVars, voiceVars, client, socket, sent, goVars, loss, run, sweep>>

(* Bug: a join does not leave the call the user is in.                     *)
JoinOverOldCall(c) ==
    /\ run.pc = "idle"
    /\ inbox[c] # None
    /\ inbox[c].op = "join"
    /\ inbox' = [inbox EXCEPT ![c] = None]
    /\ run' = [pc |-> "wait", conn |-> c, sid |-> None, ch |-> inbox[c].ch]
    /\ UNCHANGED <<sessionVars, voiceVars, client, socket, sent, goVars, loss, sweep>>

(* joinVoiceChannel first leaves whatever call the user is in; so does     *)
(* leaveVoiceChannel.  Run waits for the Router.Leave inside.              *)
TakeJoinOrLeave(c) ==
    /\ run.pc = "idle"
    /\ inbox[c] # None
    /\ inbox[c].op \in {"join", "leave"}
    /\ inbox' = [inbox EXCEPT ![c] = None]
    /\ LeaveVoice(UserOf[c], loss)
    /\ run' = [pc |-> "wait", conn |-> c, sid |-> session[UserOf[c]],
               ch |-> IF inbox[c].op = "join" THEN inbox[c].ch ELSE None]
    /\ UNCHANGED <<peerVars, client, socket, sent, goVars, sweep>>

RunLeaveReturns ==
    /\ run.pc = "wait"
    /\ LeaveReturned(run.sid)
    /\ run' = IF run.ch = None THEN RunIdle ELSE [run EXCEPT !.pc = "join", !.sid = None]
    /\ UNCHANGED <<sessionVars, voiceVars, connVars, goVars, loss, sweep>>

RunJoin(s) ==
    /\ run.pc = "join"
    /\ Join(s, UserOf[run.conn], run.ch)
    /\ run' = [run EXCEPT !.pc = "set", !.sid = s]
    /\ UNCHANGED <<voiceVars, connVars, goVars, loss, sweep>>

(* NewPeerConnection fails: the old call is left, and there is no new one. *)
RunJoinFails ==
    /\ run.pc = "join"
    /\ run' = RunIdle
    /\ UNCHANGED <<sessionVars, voiceVars, connVars, goVars, loss, sweep>>

(* Join returns; the critical section of joinVoiceChannel.  The ack and    *)
(* the voice_user_joined broadcast that follow change no state here.       *)
RunSet ==
    /\ run.pc = "set"
    /\ JoinReturns(run.sid)
    /\ LET u == UserOf[run.conn] IN
         /\ session' = [session EXCEPT ![u] = run.sid]
         /\ channel' = [channel EXCEPT ![u] = run.ch]
         /\ participants' = [participants EXCEPT ![run.ch] = @ \cup {u}]
    /\ run' = RunIdle
    /\ UNCHANGED <<timer, connVars, goVars, loss, sweep>>

(* handleCommand starts handleSfuResume on a goroutine of its own. *)
TakeResume(c) ==
    /\ run.pc = "idle"
    /\ inbox[c] # None
    /\ inbox[c].op = "resume"
    /\ resume[c] = Idle
    /\ inbox' = [inbox EXCEPT ![c] = None]
    /\ resume' = [resume EXCEPT ![c] = At("check", inbox[c].sid)]
    /\ UNCHANGED <<sessionVars, voiceVars, client, socket, sent, media, detached, aged,
                   loss, run, sweep>>

(* A synchronous handleVoiceDisconnect that armed a timer has returned. *)
RunDiscReturns ==
    /\ run.pc = "disc"
    /\ loss[run.conn].pc \notin {"read", "detach", "arm", "leave"}
    /\ run' = RunIdle
    /\ UNCHANGED <<sessionVars, voiceVars, connVars, goVars, loss, sweep>>

-----------------------------------------------------------------------------
(* handleVoiceDisconnect, on Run (Unregister) or in the background         *)
(* (eviction): two reads of the maps and a write, each under its own lock. *)

DiscRead(c) ==
    /\ loss[c].pc = "read"
    /\ LET u == UserOf[c] IN
         loss' = [loss EXCEPT ![c] =
                    IF session[u] = None \/ channel[u] = None
                      THEN At("leave", None) ELSE At("detach", session[u])]
    /\ UNCHANGED <<sessionVars, voiceVars, connVars, goVars, run, sweep>>

(* Router.Detach: markDetached on the peer's queue, if it is still there;  *)
(* then voice_user_detached to the others.                                 *)
DiscDetach(c) ==
    /\ loss[c].pc = "detach"
    /\ loss' = [loss EXCEPT ![c].pc = "arm"]
    /\ detached' = detached \cup ({loss[c].sid} \cap Peers)
    /\ UNCHANGED <<sessionVars, voiceVars, connVars, resume, media, aged, run, sweep>>

(* AfterFunc, then the critical section that replaces the user's timer     *)
(* (the grace period is far longer than the gap between the two).          *)
DiscArm(c) ==
    /\ loss[c].pc = "arm"
    /\ loss' = [Stop(loss, timer[UserOf[c]]) EXCEPT ![c].pc = "armed"]
    /\ timer' = [timer EXCEPT ![UserOf[c]] = c]
    /\ UNCHANGED <<sessionVars, session, channel, participants, connVars, goVars,
                   run, sweep>>

(* Graceful, or nothing to keep: leave at once. *)
DiscLeave(c) ==
    /\ loss[c].pc = "leave"
    /\ LeaveVoice(UserOf[c], [loss EXCEPT ![c] = Done])
    /\ run' = IF run.pc = "disc" /\ run.conn = c
                THEN [run EXCEPT !.pc = "wait", !.sid = session[UserOf[c]]]
                ELSE run
    /\ UNCHANGED <<peerVars, connVars, goVars, sweep>>

(* The grace period is over. *)
TimerFires(c) ==
    /\ loss[c].pc = "armed"
    /\ loss' = [loss EXCEPT ![c].pc = "fired"]
    /\ UNCHANGED <<sessionVars, voiceVars, connVars, goVars, run, sweep>>

(* Bug: the comparison of the session is inverted.                         *)
ExpireCheckInverted(c) ==
    /\ loss[c].pc = "fired"
    /\ timer' = [timer EXCEPT ![UserOf[c]] = None]
    /\ loss' = [loss EXCEPT ![c] =
                  IF session[UserOf[c]] # loss[c].sid THEN At("matched", loss[c].sid) ELSE Done]
    /\ UNCHANGED <<sessionVars, session, channel, participants, connVars, goVars,
                   run, sweep>>

(* expireVoiceSession compares the session under h.mu, and drops whatever  *)
(* timer the map holds for the user ...                                    *)
ExpireCheck(c) ==
    /\ loss[c].pc = "fired"
    /\ timer' = [timer EXCEPT ![UserOf[c]] = None]
    /\ loss' = [loss EXCEPT ![c] =
                  IF session[UserOf[c]] = loss[c].sid THEN At("matched", loss[c].sid) ELSE Done]
    /\ UNCHANGED <<sessionVars, session, channel, participants, connVars, goVars,
                   run, sweep>>

(* ... and then, under a hold of its own, leaves by user. *)
ExpireLeave(c) ==
    /\ loss[c].pc = "matched"
    /\ LeaveVoice(UserOf[c], [loss EXCEPT ![c] = Done])
    /\ UNCHANGED <<peerVars, connVars, goVars, run, sweep>>

-----------------------------------------------------------------------------
(* handleSfuResume, off the Run loop.                                      *)

(* ownsSfuSession. *)
ResumeCheck(c) ==
    /\ resume[c].pc = "check"
    /\ resume' = [resume EXCEPT ![c] =
                    IF session[UserOf[c]] = resume[c].sid THEN At("router", resume[c].sid) ELSE Idle]
    /\ UNCHANGED <<sessionVars, voiceVars, connVars, media, detached, aged, loss,
                   run, sweep>>

(* Router.Resume: the peer must be there and the user still have access;   *)
(* then clearDetached goes on the peer's queue.                            *)
ResumeRouter(c) ==
    /\ resume[c].pc = "router"
    /\ \/ /\ resume[c].sid \in Peers
          /\ resume' = [resume EXCEPT ![c].pc = "stop"]
          /\ detached' = detached \ {resume[c].sid}
       \/ \* unknown session, access revoked, storage error
          /\ resume' = [resume EXCEPT ![c].pc = "expire"]
          /\ UNCHANGED detached
    /\ UNCHANGED <<sessionVars, voiceVars, connVars, media, aged, loss, run, sweep>>

(* Whatever timer the user has is stopped; ack, voice_user_resumed. *)
ResumeStop(c) ==
    /\ resume[c].pc = "stop"
    /\ resume' = [resume EXCEPT ![c] = Idle]
    /\ loss' = Stop(loss, timer[UserOf[c]])
    /\ timer' = [timer EXCEPT ![UserOf[c]] = None]
    /\ UNCHANGED <<sessionVars, session, channel, participants, connVars, media,
                   detached, aged, run, sweep>>

(* A failed resume calls expireVoiceSession itself. *)
ResumeExpireCheck(c) ==
    /\ resume[c].pc = "expire"
    /\ timer' = [timer EXCEPT ![UserOf[c]] = None]
    /\ resume' = [resume EXCEPT ![c] =
                    IF session[UserOf[c]] = resume[c].sid THEN At("matched", resume[c].sid) ELSE Idle]
    /\ UNCHANGED <<sessionVars, session, channel, participants, connVars, media,
                   detached, aged, loss, run, sweep>>

ResumeExpireLeave(c) ==
    /\ resume[c].pc = "matched"
    /\ resume' = [resume EXCEPT ![c] = Idle]
    /\ LeaveVoice(UserOf[c], loss)
    /\ UNCHANGED <<peerVars, connVars, media, detached, aged, run, sweep>>

-----------------------------------------------------------------------------
(* Media: the client's offer, a PeerConnection that dies, time passing.    *)

(* sfu_offer by a connected client: ICE and DTLS start. *)
Negotiate(s) ==
    /\ s \in Peers
    /\ media[s] = "new"
    /\ session[peerUser[s]] = s
    /\ client[peerUser[s]] # None
    /\ media' = [media EXCEPT ![s] = "up"]
    /\ UNCHANGED <<sessionVars, voiceVars, connVars, resume, detached, aged, loss,
                   run, sweep>>

(* handleConnectionStateChange: failed or closed, and only once            *)
(* (closeNotified): notifySessionClosed starts a goroutine.  A connection  *)
(* that never negotiated stays in state "new".  After Leave began, a       *)
(* notification would find the hub's record gone and do nothing.           *)
MediaDies(s) ==
    /\ media[s] = "up"
    /\ s \in Peers
    /\ media' = [media EXCEPT ![s] = "died"]
    /\ UNCHANGED <<sessionVars, voiceVars, connVars, resume, detached, aged, loss,
                   run, sweep>>

(* OnSessionClosed compares the session under h.mu ... *)
NotifyCheck(s) ==
    /\ media[s] = "died"
    /\ media' = [media EXCEPT ![s] =
                    IF session[peerUser[s]] = s THEN "matched" ELSE "reported"]
    /\ UNCHANGED <<sessionVars, voiceVars, connVars, resume, detached, aged, loss,
                   run, sweep>>

(* ... and then leaves by user. *)
NotifyLeave(s) ==
    /\ media[s] = "matched"
    /\ media' = [media EXCEPT ![s] = "reported"]
    /\ LeaveVoice(peerUser[s], loss)
    /\ UNCHANGED <<peerVars, connVars, resume, detached, aged, run, sweep>>

(* A ReconcileInterval after Join, which by then has long returned.  Only  *)
(* the sweep looks at ages.                                                *)
Age(s) ==
    /\ Reconcile
    /\ s \in Peers
    /\ s \notin aged
    /\ ~(run.sid = s /\ run.pc = "set")
    /\ aged' = aged \cup {s}
    /\ UNCHANGED <<sessionVars, voiceVars, connVars, resume, media, detached, loss,
                   run, sweep>>

-----------------------------------------------------------------------------
(* reconcileTick, on the sweep's goroutine.                                *)

others == <<voiceVars, connVars, goVars, loss, run>>

(* Bugs: sessions of any age are candidates; dead media are not noticed.   *)
SweepRouterAnyAge ==
    /\ Reconcile
    /\ sweep.pc = "idle"
    /\ sweep' = [SweepIdle EXCEPT !.pc = "hub", !.live = Peers, !.old = Peers,
                                  !.dead = {s \in Peers : media[s] \notin {"new", "up"}}]
    /\ UNCHANGED <<sessionVars, others>>

SweepRouterIgnoresMedia ==
    /\ Reconcile
    /\ sweep.pc = "idle"
    /\ sweep' = [SweepIdle EXCEPT !.pc = "hub", !.live = Peers, !.old = Peers \cap aged]
    /\ UNCHANGED <<sessionVars, others>>

(* LiveSessions: the router's sessions, their ages and connection states. *)
SweepRouter ==
    /\ Reconcile
    /\ sweep.pc = "idle"
    /\ sweep' = [SweepIdle EXCEPT !.pc = "hub", !.live = Peers, !.old = Peers \cap aged,
                                  !.dead = {s \in Peers : media[s] \notin {"new", "up"}}]
    /\ UNCHANGED <<sessionVars, others>>

(* The snapshot of the voice maps.  Suspects: users whose record is old    *)
(* enough and has no session, one the router did not list, one whose media *)
(* is dead, or that voiceParticipants disagrees with.  Orphans: sessions   *)
(* listed as old enough that are nobody's.                                 *)
SweepHub ==
    /\ sweep.pc = "hub"
    /\ LET suspects == {u \in Users :
             /\ channel[u] # None
             /\ session[u] \in aged \cup {None}
             /\ \/ session[u] \notin sweep.live \ sweep.dead
                \/ u \notin participants[channel[u]]}
           orphans == {s \in sweep.old : session[peerUser[s]] # s}
       IN  sweep' = [SweepIdle EXCEPT !.pc = "act", !.suspects = suspects, !.orphans = orphans]
    /\ UNCHANGED <<sessionVars, others>>

(* hub -> router: a suspect is left, by user; the sweep waits for the      *)
(* Router.Leave inside.                                                    *)
SweepSuspect(u) ==
    /\ sweep.pc = "act"
    /\ u \in sweep.suspects
    /\ LeaveVoice(u, loss)
    /\ sweep' = [sweep EXCEPT !.suspects = @ \ {u}, !.pc = "wait", !.sid = session[u]]
    /\ UNCHANGED <<peerVars, connVars, goVars, run>>

(* router -> hub: Router.Leave of an orphan (nothing if already left). *)
SweepOrphan(s) ==
    /\ sweep.pc = "act"
    /\ sweep.suspects = {}
    /\ s \in sweep.orphans
    /\ sweep' = [sweep EXCEPT !.orphans = @ \ {s}, !.pc = "wait", !.sid = s]
    /\ life' = IF life[s] = "live" THEN [life EXCEPT ![s] = "leaving"] ELSE life
    /\ UNCHANGED <<peerUser, peerChannel, condemned, others>>

(* The Leave returns: at the end of its steps, or at once if another       *)
(* goroutine's Leave of the same session is executing them.                *)
SweepLeaveReturns ==
    /\ sweep.pc = "wait"
    /\ sweep.sid # None => life[sweep.sid] # "live"
    /\ sweep' = [sweep EXCEPT !.pc = "act", !.sid = None]
    /\ UNCHANGED <<sessionVars, others>>

SweepDone ==
    /\ sweep.pc = "act"
    /\ sweep.suspects = {}
    /\ sweep.orphans = {}
    /\ sweep' = SweepIdle
    /\ UNCHANGED <<sessionVars, others>>

-----------------------------------------------------------------------------
(* Router.Leave, in the goroutine that has condemned the session.  With    *)
(* the Peer go its flag and its age.                                       *)
RouterLeave(s) ==
    /\ \/ Leave(s) /\ UNCHANGED <<detached, aged>>
       \/ LeaveReturns(s) /\ detached' = detached \ {s} /\ aged' = aged \ {s}
    /\ UNCHANGED <<voiceVars, connVars, resume, media, loss, run, sweep>>

RunStep ==
    \/ \E c \in Conns : Unregister(c) \/ RefuseJoin(c) \/ TakeJoinOrLeave(c) \/ TakeResume(c)
    \/ \E s \in Sids : RunJoin(s)
    \/ RunLeaveReturns \/ RunJoinFails \/ RunSet \/ RunDiscReturns

LossStep(c) ==
    \/ DiscRead(c) \/ DiscDetach(c) \/ DiscArm(c) \/ DiscLeave(c)
    \/ TimerFires(c) \/ ExpireCheck(c) \/ ExpireLeave(c)

ResumeStep(c) ==
    \/ ResumeCheck(c) \/ ResumeRouter(c) \/ ResumeStop(c)
    \/ ResumeExpireCheck(c) \/ ResumeExpireLeave(c)

NotifyStep(s) == NotifyCheck(s) \/ NotifyLeave(s)

SweepStep ==
    \/ SweepRouter \/ SweepHub \/ SweepLeaveReturns \/ SweepDone
    \/ \E u \in Users : SweepSuspect(u)
    \/ \E s \in Sids : SweepOrphan(s)

(* What clients, networks and media do: nothing obliges them. *)
Environment ==
    \/ \E c \in Conns :
         \/ Register(c)
         \/ \E cmd \in Requests(UserOf[c]) : Send(c, cmd)
         \/ LoseSocket(c)
    \/ \E s \in Sids : Negotiate(s) \/ MediaDies(s)

Next ==
    \/ Environment
    \/ RunStep
    \/ \E c \in Conns : LossStep(c) \/ ResumeStep(c)
    \/ \E s \in Sids : NotifyStep(s) \/ Age(s) \/ RouterLeave(s)
    \/ SweepStep

Spec == Init /\ [][Next]_vars

(* OnSessionClosed is lost or never scheduled, timers never fire: only the *)
(* sweep can be relied on, with Run, the clock and the Leaves decided.     *)
SweepSpec ==
    /\ Spec
    /\ WF_vars(RunStep)
    /\ WF_vars(SweepStep)
    /\ \A s \in Sids : WF_vars(Age(s)) /\ WF_vars(RouterLeave(s))

(* A grace period needs no goroutine but its own: Hub.Run, the sweep,      *)
(* clients and media may do nothing more.                                  *)
GraceSpec == Spec /\ \A c \in Conns : WF_vars(LossStep(c))

-----------------------------------------------------------------------------
(* Properties that hold.                                                   *)

(* The voice maps move together: a user is in the participants of exactly  *)
(* the channel userVoiceChannel names, and has a session exactly then.     *)
MapsAgree ==
    \A u \in Users :
        /\ channel[u] = None <=> session[u] = None
        /\ \A ch \in Channels : u \in participants[ch] <=> channel[u] = ch

(* The session the hub keeps for a user is that user's, for that channel,  *)
(* and the router still has it: no Router.Leave by any goroutine - least   *)
(* of all the sweep, acting on two snapshots taken apart - ever hits a     *)
(* session that is in use.                                                 *)
HubSessionLive ==
    \A u \in Users : session[u] # None =>
        /\ life[session[u]] = "live"
        /\ session[u] \notin condemned
        /\ peerUser[session[u]] = u
        /\ peerChannel[session[u]] = channel[u]

(* A session in the router is the hub's, or Run is in the middle of        *)
(* joining it, or somebody is about to Leave it: no peer is leaked, however*)
(* joins, leaves, timers and callbacks interleave.                         *)
NoLeakedPeer ==
    \A s \in Sids : s \in Peers =>
        \/ session[peerUser[s]] = s
        \/ run.pc = "set" /\ run.sid = s
        \/ s \in condemned

(* The hub's sessions and the router's peers agree, both ways.             *)
SessionsMatchPeers == HubSessionLive /\ NoLeakedPeer

(* No connection is lost without handleVoiceDisconnect being started for   *)
(* it, once: by Unregister if it was current, by Register if evicted.      *)
EveryLossHandled ==
    \A c \in Conns :
        /\ socket[c] = "done" => loss[c].pc # "none"
        /\ loss[c].pc # "none" => client[UserOf[c]] # c

(* The hub's calls are those the router may assume of its user.            *)
UsesRouterProperly == SessionsSpec

(* Calls as their users know them, and the abstract specification.         *)
Call == [u \in Users |-> [ch |-> channel[u], sid |-> session[u]]]

Calls == INSTANCE VoiceCall WITH call <- Call, ended <- condemned

(* Whichever goroutine joins, leaves, expires or reconciles, every user's  *)
(* calls follow one another as VoiceCall says.                             *)
ImplementsCalls == Calls!CallSpec

(* A grace period ends: with the session left, or with its timer stopped.  *)
GraceEnds ==
    \A c \in Conns :
        \A s \in Sids : (loss[c] = At("armed", s))
                           ~> (session[UserOf[c]] # s \/ loss[c].pc = "stopped")

(* Even if every OnSessionClosed is lost, the sweep takes a user with a    *)
(* dead PeerConnection out of the call.                                    *)
SweepRepairsDeadMedia ==
    \A s \in Sids :
        \A u \in Users :
            (session[u] = s /\ media[s] \notin {"new", "up"}) ~> (session[u] # s)

-----------------------------------------------------------------------------
(* The inductive invariant behind MapsAgree, HubSessionLive, NoLeakedPeer  *)
(* and the two refinements.                                                *)

(* A session that has begun has a user and a channel; one on its way out   *)
(* was given up before; only sessions that began carry marks.              *)
SessionsInv ==
    \A s \in Sids :
        /\ life[s] = "unborn" <=> peerUser[s] = None
        /\ life[s] = "unborn" <=> peerChannel[s] = None
        /\ life[s] \in {"leaving", "gone"} => s \in condemned
        /\ s \in condemned => life[s] \in {"live", "leaving", "gone"}
        /\ media[s] # "new" => life[s] # "unborn"
        /\ s \in aged => life[s] \notin {"unborn", "joining"}

(* Run alone joins: while it does, the user is in no call, and the session *)
(* it has got from the router is the only one whose Join has not returned. *)
RunInv ==
    /\ run.pc # "idle" => run.conn \in Conns
    /\ run.pc \in {"join", "set"} => run.ch \in Channels
    /\ run.pc \in {"wait", "join", "set"} => channel[UserOf[run.conn]] = None
    /\ run.pc = "set" => /\ run.sid \in Sids
                         /\ life[run.sid] = "joining"
                         /\ peerUser[run.sid] = UserOf[run.conn]
                         /\ peerChannel[run.sid] = run.ch
    /\ \A s \in Sids : life[s] = "joining" => run.pc = "set" /\ run.sid = s

(* What the sweep is about to Leave has been given up already. *)
SweepInv ==
    /\ \A s \in sweep.old : life[s] \notin {"unborn", "joining"}
    /\ sweep.orphans \subseteq condemned

VoiceInv ==
    /\ TypeOK
    /\ MapsAgree
    /\ HubSessionLive
    /\ NoLeakedPeer
    /\ SessionsInv
    /\ RunInv
    /\ SweepInv

(* The invariant behind EveryLossHandled: a user's connection is one of    *)
(* that user that Run has registered and not unregistered, and what        *)
(* follows a loss has begun for the other connections that were used, and  *)
(* only for them.                                                          *)
LossInv ==
    /\ \A u \in Users : client[u] # None =>
           UserOf[client[u]] = u /\ socket[client[u]] \in {"open", "closed", "lost"}
    /\ \A c \in Conns :
           loss[c].pc = "none" <=> socket[c] = "unused" \/ client[UserOf[c]] = c

=============================================================================
