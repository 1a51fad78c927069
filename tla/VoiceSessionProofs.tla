-------------------------- MODULE VoiceSessionProofs --------------------------
(***************************************************************************)
(* For any numbers of users, channels, connections and sessions: the voice *)
(* maps agree, the hub's sessions are live in the router, no peer leaks,   *)
(* and the hub implements VoiceCall and uses the router as SfuSessions     *)
(* asks.  The argument is VoiceInv; its heart is LeaveVoiceKeepsInv: the   *)
(* one operation every goroutine performs on the maps keeps it whatever    *)
(* the goroutine believed it was leaving.                                  *)
(***************************************************************************)
EXTENDS VoiceSession, TLAPS

LossType == [pc : Losses, sid : Sids \cup {None}]
ResumeType == [pc : Resumes, sid : Sids \cup {None}]
SweepType == [pc : {"idle", "hub", "act", "wait"},
              live : SUBSET Sids, old : SUBSET Sids, dead : SUBSET Sids,
              suspects : SUBSET Users, orphans : SUBSET Sids, sid : Sids \cup {None}]

(* The part of the invariant that is not typing, and what it depends on.   *)
HubInv == MapsAgree /\ HubSessionLive /\ NoLeakedPeer /\ SessionsInv /\ RunInv /\ SweepInv
hubVars == <<sessionVars, session, channel, participants, media, aged, run, sweep>>

(* The invariant, TypeOK apart, is about the hub's and the router's        *)
(* variables only: connections, timers and resumes cannot disturb it.      *)
LEMMA HubInvUnchanged == HubInv /\ UNCHANGED hubVars => HubInv'
BY DEF HubInv, hubVars, sessionVars, MapsAgree, HubSessionLive, NoLeakedPeer,
       SessionsInv, RunInv, SweepInv, Peers

(* No connection is a stranger's, and stopping a timer is well typed.      *)
LEMMA StopType ==
  ASSUME NEW l \in [Conns -> LossType], NEW c \in Conns \cup {None}
  PROVE  Stop(l, c) \in [Conns -> LossType]
<1>1. At("stopped", None) \in LossType
  BY DEF At, LossType, Losses
<1> QED
  BY <1>1, ConnAssumption DEF Stop

(* A goroutine position of handleVoiceDisconnect or its timer is well      *)
(* typed.                                                                  *)
LEMMA AtLoss ==
  ASSUME NEW p \in Losses, NEW s \in Sids \cup {None}
  PROVE  At(p, s) \in LossType
BY DEF At, LossType

(* A goroutine of a connection moves on.                                   *)
LEMMA MoveLoss ==
  ASSUME NEW l \in [Conns -> LossType], NEW c \in Conns, NEW p \in Losses
  PROVE  [l EXCEPT ![c].pc = p] \in [Conns -> LossType]
<1>1. [l[c] EXCEPT !.pc = p] \in LossType
  <2>1. l[c] \in LossType
    OBVIOUS
  <2> QED
    BY <2>1 DEF LossType
<1> QED
  BY <1>1

(* The same for handleSfuResume.                                           *)
LEMMA MoveResume ==
  ASSUME NEW l \in [Conns -> ResumeType], NEW c \in Conns, NEW p \in Resumes
  PROVE  [l EXCEPT ![c].pc = p] \in [Conns -> ResumeType]
<1>1. [l[c] EXCEPT !.pc = p] \in ResumeType
  <2>1. l[c] \in ResumeType
    OBVIOUS
  <2> QED
    BY <2>1 DEF ResumeType
<1> QED
  BY <1>1

(* A goroutine position of handleSfuResume is well typed.                  *)
LEMMA AtResume ==
  ASSUME NEW p \in Resumes, NEW s \in Sids \cup {None}
  PROVE  At(p, s) \in ResumeType
BY DEF At, ResumeType

(* leaveVoiceChannelInternal is well typed ...                             *)
LEMMA LeaveVoiceType ==
  ASSUME TypeOK, NEW u \in Users, NEW l \in [Conns -> LossType], LeaveVoice(u, l)
  PROVE  /\ loss' \in [Conns -> LossType]
         /\ timer' \in [Users -> Conns \cup {None}]
         /\ session' \in [Users -> Sids \cup {None}]
         /\ channel' \in [Users -> Channels \cup {None}]
         /\ participants' \in [Channels -> SUBSET Users]
         /\ condemned' \in SUBSET Sids
<1> USE NoneIsNotAnId, ConnAssumption DEF TypeOK, SessionsTypeOK
<1>1. CASE channel[u] = None
  BY <1>1 DEF LeaveVoice, voiceVars
<1>2. CASE channel[u] # None
  <2>0. /\ loss' = Stop(l, timer[u])
        /\ timer' = [timer EXCEPT ![u] = None]
        /\ session' = [session EXCEPT ![u] = None]
        /\ channel' = [channel EXCEPT ![u] = None]
        /\ participants' = [participants EXCEPT ![channel[u]] = @ \ {u}]
        /\ condemned' = condemned \cup ({session[u]} \ {None})
    BY <1>2 DEF LeaveVoice
  <2>1. loss' \in [Conns -> LossType]
    <3>1. timer[u] \in Conns \cup {None}
      OBVIOUS
    <3> QED
      BY <2>0, <3>1, StopType
  <2>2. /\ timer' \in [Users -> Conns \cup {None}]
        /\ session' \in [Users -> Sids \cup {None}]
        /\ channel' \in [Users -> Channels \cup {None}]
    BY <2>0
  <2>3. condemned' \in SUBSET Sids
    <3>1. session[u] \in Sids \cup {None}
      OBVIOUS
    <3> QED
      BY <2>0, <3>1
  <2>4. participants' \in [Channels -> SUBSET Users]
    <3>1. participants[channel[u]] \ {u} \in SUBSET Users
      BY <1>2
    <3> QED
      BY <2>0, <3>1
  <2> QED
    BY <2>1, <2>2, <2>3, <2>4
<1> QED
  BY <1>1, <1>2

(* ... takes exactly the user out of every map, and gives up the session.  *)
LEMMA LeaveVoiceEffect ==
  ASSUME TypeOK, HubInv, NEW u \in Users, NEW l, LeaveVoice(u, l)
  PROVE  /\ channel'[u] = None /\ session'[u] = None
         /\ \A v \in Users : v # u => channel'[v] = channel[v] /\ session'[v] = session[v]
         /\ \A ch \in Channels : participants'[ch] = participants[ch] \ {u}
         /\ condemned' = condemned \cup ({session[u]} \ {None})
<1> USE NoneIsNotAnId DEF TypeOK, SessionsTypeOK
<1>1. CASE channel[u] = None
  <2>1. session[u] = None /\ \A ch \in Channels : u \notin participants[ch]
    BY <1>1 DEF HubInv, MapsAgree
  <2> QED
    BY <1>1, <2>1 DEF LeaveVoice, voiceVars
<1>2. CASE channel[u] # None
  <2>1. \A ch \in Channels : u \in participants[ch] => ch = channel[u]
    BY <1>2 DEF HubInv, MapsAgree
  <2>0. /\ loss' = Stop(l, timer[u])
        /\ timer' = [timer EXCEPT ![u] = None]
        /\ session' = [session EXCEPT ![u] = None]
        /\ channel' = [channel EXCEPT ![u] = None]
        /\ participants' = [participants EXCEPT ![channel[u]] = @ \ {u}]
        /\ condemned' = condemned \cup ({session[u]} \ {None})
    BY <1>2 DEF LeaveVoice
  <2>2. channel[u] \in Channels
    BY <1>2
  <2>3. \A ch \in Channels : participants'[ch] = participants[ch] \ {u}
    BY <2>0, <2>1, <2>2
  <2>4. /\ channel'[u] = None /\ session'[u] = None
        /\ \A v \in Users : v # u => channel'[v] = channel[v] /\ session'[v] = session[v]
    BY <2>0
  <2> QED
    BY <2>0, <2>3, <2>4
<1> QED
  BY <1>1, <1>2

(* Whoever calls it, and for whatever reason, the invariant survives.      *)
LEMMA LeaveVoiceKeepsInv ==
  ASSUME TypeOK, HubInv, NEW u \in Users, NEW l, LeaveVoice(u, l),
         UNCHANGED peerVars,
         run.pc = "set" => UNCHANGED run
  PROVE  MapsAgree' /\ HubSessionLive' /\ NoLeakedPeer'
<1> USE NoneIsNotAnId, LeaveVoiceEffect DEF TypeOK, SessionsTypeOK, HubInv, peerVars
<1>1. MapsAgree'
  BY DEF MapsAgree
<1>2. HubSessionLive'
  BY DEF HubSessionLive
<1>3. NoLeakedPeer'
  <2> SUFFICES ASSUME NEW s \in Sids, s \in Peers'
               PROVE  \/ session'[peerUser'[s]] = s
                      \/ run'.pc = "set" /\ run'.sid = s
                      \/ s \in condemned'
    BY DEF NoLeakedPeer
  <2>1. s \in Peers /\ peerUser[s] \in Users
    BY DEF Peers, SessionsInv
  <2>2. CASE session[peerUser[s]] = s
    BY <2>1, <2>2
  <2>3. CASE run.pc = "set" /\ run.sid = s
    BY <2>3
  <2> QED
    BY <2>1, <2>2, <2>3 DEF NoLeakedPeer
<1> QED
  BY <1>1, <1>2, <1>3

-----------------------------------------------------------------------------
(* Typing.                                                                 *)

(* A connection or a session of its own may move, and the rest stays.      *)
LEMMA ConnTypeStep ==
  ASSUME TypeOK, HubInv, NEW c \in Conns,
         Register(c) \/ (\E cmd \in Requests(UserOf[c]) : Send(c, cmd)) \/ LoseSocket(c)
           \/ Unregister(c) \/ RefuseJoin(c)
  PROVE  TypeOK'
<1> USE NoneIsNotAnId, ConnAssumption, AtLoss
    DEF TypeOK, SessionsTypeOK, sessionVars, voiceVars, connVars, goVars
<1>0. UserOf[c] \in Users
  OBVIOUS
<1>1. CASE Register(c)
  <2>1. At("read", None) \in LossType
    BY DEF Losses
  <2> QED
    BY <1>0, <1>1, <2>1 DEF Register, LossType
<1>2. ASSUME NEW cmd \in Requests(UserOf[c]), Send(c, cmd)
      PROVE  TypeOK'
  <2>1. cmd \in Commands
    BY DEF Requests, Commands
  <2>2. sent' \in 0..MaxCommands
    BY <1>2 DEF Send
  <2> QED
    BY <1>2, <2>1, <2>2 DEF Send
<1>3. CASE LoseSocket(c)
  BY <1>3 DEF LoseSocket
<1>4. CASE Unregister(c)
  <2>1. At("read", None) \in LossType /\ At("leave", None) \in LossType
    BY DEF Losses
  <2>2. CASE client[UserOf[c]] = c
    <3>1. /\ client' = [client EXCEPT ![UserOf[c]] = None]
          /\ loss' = [loss EXCEPT ![c] = At(IF socket[c] = "closed" THEN "leave" ELSE "read", None)]
          /\ run' = [RunIdle EXCEPT !.pc = "disc", !.conn = c]
      BY <1>4, <2>2 DEF Unregister
    <3>2. loss' \in [Conns -> LossType]
      <4>1. loss \in [Conns -> LossType]
        BY DEF LossType
      <4>2. CASE socket[c] = "closed"
        BY <3>1, <2>1, <4>1, <4>2
      <4>3. CASE socket[c] # "closed"
        BY <3>1, <2>1, <4>1, <4>3
      <4> QED
        BY <4>2, <4>3
    <3>3. run' = [pc |-> "disc", conn |-> c, ch |-> None, sid |-> None]
      BY <3>1 DEF RunIdle
    <3> QED
      BY <1>4, <3>1, <3>2, <3>3 DEF Unregister, LossType
  <2>3. CASE client[UserOf[c]] # c
    BY <1>4, <2>3 DEF Unregister
  <2> QED
    BY <2>2, <2>3
<1>5. CASE RefuseJoin(c)
  BY <1>5 DEF RefuseJoin
<1> QED
  BY <1>1, <1>2, <1>3, <1>4, <1>5

(* Hub.Run's steps are well typed.                                         *)
LEMMA RunTypeStep ==
  ASSUME TypeOK, HubInv,
         \/ \E c \in Conns : TakeJoinOrLeave(c) \/ TakeResume(c)
         \/ \E s \in Sids : RunJoin(s)
         \/ RunLeaveReturns \/ RunJoinFails \/ RunSet \/ RunDiscReturns
  PROVE  TypeOK'
<1> USE NoneIsNotAnId, ConnAssumption
    DEF TypeOK, SessionsTypeOK, sessionVars, voiceVars, connVars, goVars, peerVars
<1>1. ASSUME NEW c \in Conns, TakeJoinOrLeave(c) PROVE TypeOK'
  <2>1. inbox[c] \in Commands /\ UserOf[c] \in Users
    BY <1>1 DEF TakeJoinOrLeave
  <2>2. inbox[c].op = "join" => inbox[c].ch \in Channels
    BY <2>1 DEF Commands
  <2>3. run' \in [pc : {"wait"}, conn : Conns, ch : Channels \cup {None},
                  sid : Sids \cup {None}]
    BY <1>1, <2>1, <2>2 DEF TakeJoinOrLeave
  <2>4. loss \in [Conns -> LossType]
    BY DEF LossType
  <2> QED
    BY <1>1, <2>1, <2>3, <2>4, LeaveVoiceType DEF TakeJoinOrLeave, LossType
<1>2. ASSUME NEW c \in Conns, TakeResume(c) PROVE TypeOK'
  <2>1. inbox[c] \in Commands /\ inbox[c].op = "resume"
    BY <1>2 DEF TakeResume
  <2>2. inbox[c].sid \in Sids
    BY <2>1 DEF Commands
  <2>3. At("check", inbox[c].sid) \in ResumeType
    BY <2>2, AtResume DEF Resumes
  <2> QED
    BY <1>2, <2>3 DEF TakeResume, ResumeType
<1>3. ASSUME NEW s \in Sids, RunJoin(s) PROVE TypeOK'
  <2>1. UserOf[run.conn] \in Users /\ run.ch \in Channels
    BY <1>3 DEF RunJoin, HubInv, RunInv
  <2>2. run' \in [pc : {"set"}, conn : Conns \cup {None}, ch : Channels \cup {None},
                  sid : Sids \cup {None}]
    BY <1>3 DEF RunJoin
  <2> QED
    BY <1>3, <2>1, <2>2 DEF RunJoin, Join
<1>4. CASE RunLeaveReturns
  <2>1. run' \in [pc : {"idle", "join"}, conn : Conns \cup {None},
                  ch : Channels \cup {None}, sid : Sids \cup {None}]
    BY <1>4 DEF RunLeaveReturns, RunIdle
  <2> QED
    BY <1>4, <2>1 DEF RunLeaveReturns
<1>5. CASE RunJoinFails \/ RunDiscReturns
  BY <1>5 DEF RunJoinFails, RunDiscReturns, RunIdle
<1>6. CASE RunSet
  <2>1. UserOf[run.conn] \in Users /\ run.ch \in Channels /\ run.sid \in Sids
    BY <1>6 DEF RunSet, HubInv, RunInv
  <2>2. /\ session' = [session EXCEPT ![UserOf[run.conn]] = run.sid]
        /\ channel' = [channel EXCEPT ![UserOf[run.conn]] = run.ch]
        /\ participants' = [participants EXCEPT ![run.ch] = @ \cup {UserOf[run.conn]}]
        /\ run' = RunIdle
        /\ life' = [life EXCEPT ![run.sid] = "live"]
    BY <1>6 DEF RunSet, JoinReturns
  <2>3. participants' \in [Channels -> SUBSET Users]
    BY <2>1, <2>2
  <2>4. run' = [pc |-> "idle", conn |-> None, ch |-> None, sid |-> None]
    BY <2>2 DEF RunIdle
  <2> QED
    BY <1>6, <2>1, <2>2, <2>3, <2>4 DEF RunSet, JoinReturns
<1> QED
  BY <1>1, <1>2, <1>3, <1>4, <1>5, <1>6

(* handleVoiceDisconnect, the grace timer and expireVoiceSession are well  *)
(* typed.                                                                  *)
LEMMA LossTypeStep ==
  ASSUME TypeOK, HubInv, NEW c \in Conns, LossStep(c)
  PROVE  TypeOK'
<1> USE NoneIsNotAnId, ConnAssumption
    DEF TypeOK, SessionsTypeOK, sessionVars, voiceVars, connVars, goVars, peerVars
<1>0. UserOf[c] \in Users /\ loss \in [Conns -> LossType]
  BY DEF LossType
<1>1. CASE DiscRead(c)
  <2>1. At("leave", None) \in LossType
    BY AtLoss DEF Losses
  <2>2. session[UserOf[c]] # None => At("detach", session[UserOf[c]]) \in LossType
    BY AtLoss, <1>0 DEF Losses
  <2>3. loss' \in [Conns -> LossType]
    BY <1>0, <1>1, <2>1, <2>2 DEF DiscRead
  <2> QED
    BY <1>1, <2>3 DEF DiscRead, LossType
<1>2. CASE DiscDetach(c)
  <2>1. loss' \in [Conns -> LossType]
    BY <1>0, <1>2, MoveLoss DEF DiscDetach, Losses
  <2> QED
    BY <1>2, <2>1 DEF DiscDetach, LossType, Peers
<1>3. CASE DiscArm(c)
  <2>1. timer[UserOf[c]] \in Conns \cup {None}
    BY <1>0
  <2>2. Stop(loss, timer[UserOf[c]]) \in [Conns -> LossType]
    BY <1>0, <2>1, StopType
  <2>3. loss' \in [Conns -> LossType]
    BY <1>3, <2>2, MoveLoss DEF DiscArm, Losses
  <2> QED
    BY <1>0, <1>3, <2>3 DEF DiscArm, LossType
<1>4. CASE DiscLeave(c)
  <2>1. [loss EXCEPT ![c] = Done] \in [Conns -> LossType]
    BY <1>0, AtLoss DEF Done, Losses
  <2>2. run' \in [pc : {"idle", "wait", "join", "set", "disc"},
                  conn : Conns \cup {None}, ch : Channels \cup {None}, sid : Sids \cup {None}]
    BY <1>0, <1>4 DEF DiscLeave
  <2> QED
    BY <1>0, <1>4, <2>1, <2>2, LeaveVoiceType DEF DiscLeave, LossType
<1>5. CASE TimerFires(c)
  <2>1. loss' \in [Conns -> LossType]
    BY <1>0, <1>5, MoveLoss DEF TimerFires, Losses
  <2> QED
    BY <1>5, <2>1 DEF TimerFires, LossType
<1>6. CASE ExpireCheck(c)
  <2>1. At("matched", loss[c].sid) \in LossType /\ Done \in LossType
    BY <1>0, AtLoss DEF Done, Losses, LossType
  <2>2. loss' \in [Conns -> LossType]
    BY <1>0, <1>6, <2>1 DEF ExpireCheck
  <2> QED
    BY <1>0, <1>6, <2>2 DEF ExpireCheck, LossType
<1>7. CASE ExpireLeave(c)
  <2>1. [loss EXCEPT ![c] = Done] \in [Conns -> LossType]
    BY <1>0, AtLoss DEF Done, Losses
  <2> QED
    BY <1>0, <1>7, <2>1, LeaveVoiceType DEF ExpireLeave, LossType
<1> QED
  BY <1>1, <1>2, <1>3, <1>4, <1>5, <1>6, <1>7 DEF LossStep

(* handleSfuResume is well typed.                                          *)
LEMMA ResumeTypeStep ==
  ASSUME TypeOK, HubInv, NEW c \in Conns, ResumeStep(c)
  PROVE  TypeOK'
<1> USE NoneIsNotAnId, ConnAssumption
    DEF TypeOK, SessionsTypeOK, sessionVars, voiceVars, connVars, goVars, peerVars
<1>0. /\ UserOf[c] \in Users /\ loss \in [Conns -> LossType]
      /\ resume \in [Conns -> ResumeType] /\ timer[UserOf[c]] \in Conns \cup {None}
  BY DEF LossType, ResumeType
<1>1. At("router", resume[c].sid) \in ResumeType /\ At("matched", resume[c].sid) \in ResumeType
      /\ Idle \in ResumeType
  <2>1. resume[c].sid \in Sids \cup {None}
    BY <1>0 DEF ResumeType
  <2> QED
    BY <2>1, AtResume DEF Idle, Resumes
<1>2. CASE ResumeCheck(c)
  <2>1. resume' \in [Conns -> ResumeType]
    BY <1>0, <1>1, <1>2 DEF ResumeCheck
  <2> QED
    BY <1>2, <2>1 DEF ResumeCheck, ResumeType
<1>3. CASE ResumeRouter(c)
  <2>1. resume' \in [Conns -> ResumeType]
    <3>1. /\ [resume EXCEPT ![c].pc = "stop"] \in [Conns -> ResumeType]
          /\ [resume EXCEPT ![c].pc = "expire"] \in [Conns -> ResumeType]
      BY <1>0, MoveResume DEF Resumes
    <3> QED
      BY <1>3, <3>1 DEF ResumeRouter
  <2> QED
    BY <1>3, <2>1 DEF ResumeRouter, ResumeType
<1>4. CASE ResumeStop(c)
  <2>1. resume' \in [Conns -> ResumeType] /\ loss' \in [Conns -> LossType]
    BY <1>0, <1>1, <1>4, StopType DEF ResumeStop
  <2> QED
    BY <1>0, <1>4, <2>1 DEF ResumeStop, ResumeType, LossType
<1>5. CASE ResumeExpireCheck(c)
  <2>1. resume' \in [Conns -> ResumeType]
    BY <1>0, <1>1, <1>5 DEF ResumeExpireCheck
  <2> QED
    BY <1>0, <1>5, <2>1 DEF ResumeExpireCheck, ResumeType
<1>6. CASE ResumeExpireLeave(c)
  <2>1. resume' \in [Conns -> ResumeType]
    BY <1>0, <1>1, <1>6 DEF ResumeExpireLeave
  <2> QED
    BY <1>0, <1>6, <2>1, LeaveVoiceType DEF ResumeExpireLeave, ResumeType, LossType
<1> QED
  BY <1>2, <1>3, <1>4, <1>5, <1>6 DEF ResumeStep

(* Media, ages and Router.Leave are well typed.                            *)
LEMMA SessionTypeStep ==
  ASSUME TypeOK, HubInv, NEW s \in Sids,
         Negotiate(s) \/ MediaDies(s) \/ NotifyStep(s) \/ Age(s) \/ RouterLeave(s)
  PROVE  TypeOK'
<1> USE NoneIsNotAnId, ConnAssumption
    DEF TypeOK, SessionsTypeOK, sessionVars, voiceVars, connVars, goVars, peerVars
<1>1. CASE Negotiate(s) \/ MediaDies(s)
  BY <1>1 DEF Negotiate, MediaDies
<1>2. CASE NotifyCheck(s)
  BY <1>2 DEF NotifyCheck
<1>3. CASE NotifyLeave(s)
  <2>1. peerUser[s] \in Users
    BY <1>3 DEF NotifyLeave, HubInv, SessionsInv
  <2>2. loss \in [Conns -> LossType]
    BY DEF LossType
  <2> QED
    BY <1>3, <2>1, <2>2, LeaveVoiceType DEF NotifyLeave, LossType
<1>4. CASE Age(s)
  BY <1>4 DEF Age
<1>5. CASE RouterLeave(s)
  BY <1>5 DEF RouterLeave, Leave, LeaveReturns
<1> QED
  BY <1>1, <1>2, <1>3, <1>4, <1>5 DEF NotifyStep

(* reconcileTick is well typed.                                            *)
LEMMA SweepTypeStep ==
  ASSUME TypeOK, HubInv, SweepStep
  PROVE  TypeOK'
<1> USE NoneIsNotAnId, ConnAssumption
    DEF TypeOK, SessionsTypeOK, sessionVars, others, voiceVars, connVars, goVars, peerVars
<1>1. CASE SweepRouter
  <2>1. sweep' = [pc |-> "hub", live |-> Peers, old |-> Peers \cap aged,
                  dead |-> {s \in Peers : media[s] \notin {"new", "up"}},
                  suspects |-> {}, orphans |-> {}, sid |-> None]
    BY <1>1 DEF SweepRouter, SweepIdle
  <2>2. Peers \in SUBSET Sids
    BY DEF Peers
  <2>3. sweep' \in SweepType
    BY <2>1, <2>2 DEF SweepType
  <2> QED
    BY <1>1, <2>3 DEF SweepRouter, SweepType
<1>2. CASE SweepHub
  <2>1. PICK sus \in SUBSET Users, orp \in SUBSET sweep.old :
           sweep' = [SweepIdle EXCEPT !.pc = "act", !.suspects = sus, !.orphans = orp]
    BY <1>2 DEF SweepHub
  <2>2. sweep' = [pc |-> "act", live |-> {}, old |-> {}, dead |-> {},
                  suspects |-> sus, orphans |-> orp, sid |-> None]
    BY <2>1 DEF SweepIdle
  <2>3. orp \in SUBSET Sids
    OBVIOUS
  <2>4. sweep' \in SweepType
    BY <2>2, <2>3 DEF SweepType
  <2> QED
    BY <1>2, <2>4 DEF SweepHub, SweepType
<1>3. CASE SweepLeaveReturns
  BY <1>3 DEF SweepLeaveReturns
<1>4. CASE SweepDone
  BY <1>4 DEF SweepDone, SweepIdle
<1>5. ASSUME NEW u \in Users, SweepSuspect(u) PROVE TypeOK'
  <2>1. loss \in [Conns -> LossType]
    BY DEF LossType
  <2>2. session[u] \in Sids \cup {None}
    OBVIOUS
  <2>3. sweep' \in SweepType
    BY <1>5, <2>2 DEF SweepSuspect, SweepType
  <2> QED
    BY <1>5, <2>1, <2>3, LeaveVoiceType DEF SweepSuspect, LossType, SweepType
<1>6. ASSUME NEW s \in Sids, SweepOrphan(s) PROVE TypeOK'
  <2>1. sweep' \in SweepType
    BY <1>6 DEF SweepOrphan, SweepType
  <2> QED
    BY <1>6, <2>1 DEF SweepOrphan, SweepType
<1> QED
  BY <1>1, <1>2, <1>3, <1>4, <1>5, <1>6 DEF SweepStep

-----------------------------------------------------------------------------
(* The invariant.                                                          *)

(* Connections, timers and the first halves of resumes touch no call.      *)
LEMMA QuietSteps ==
  ASSUME TypeOK, HubInv, NEW c \in Conns,
         \/ Register(c) \/ (\E cmd \in Requests(UserOf[c]) : Send(c, cmd)) \/ LoseSocket(c)
         \/ RefuseJoin(c) \/ TakeResume(c)
         \/ DiscRead(c) \/ DiscDetach(c) \/ DiscArm(c) \/ TimerFires(c) \/ ExpireCheck(c)
         \/ ResumeCheck(c) \/ ResumeRouter(c) \/ ResumeStop(c) \/ ResumeExpireCheck(c)
  PROVE  UNCHANGED hubVars
BY DEF Register, Send, LoseSocket, RefuseJoin, TakeResume, DiscRead, DiscDetach, DiscArm,
       TimerFires, ExpireCheck, ResumeCheck, ResumeRouter, ResumeStop, ResumeExpireCheck,
       hubVars, sessionVars, voiceVars, connVars, goVars

(* A leave by a goroutine other than Run and the sweep.                    *)
LEMMA LeaveVoiceKeepsHubInv ==
  ASSUME TypeOK, HubInv, NEW u \in Users, NEW l, LeaveVoice(u, l),
         UNCHANGED <<peerVars, aged, run, sweep>>,
         \A s \in Sids : media'[s] # "new" => media[s] # "new"
  PROVE  HubInv'
<1> USE NoneIsNotAnId, LeaveVoiceEffect DEF TypeOK, SessionsTypeOK, peerVars
<1>1. MapsAgree' /\ HubSessionLive' /\ NoLeakedPeer'
  BY LeaveVoiceKeepsInv
<1>2. SessionsInv'
  BY DEF HubInv, SessionsInv, HubSessionLive
<1>3. RunInv'
  BY ConnAssumption DEF HubInv, RunInv
<1>4. SweepInv'
  BY DEF HubInv, SweepInv
<1> QED
  BY <1>1, <1>2, <1>3, <1>4 DEF HubInv

(* Unregister occupies Run with the disconnect and touches no call.        *)
LEMMA UnregisterKeepsInv ==
  ASSUME TypeOK, HubInv, NEW c \in Conns, Unregister(c)
  PROVE  HubInv'
<1> USE NoneIsNotAnId DEF Unregister, sessionVars, voiceVars, goVars, Peers
<1>0. \/ run' = run
      \/ run' = [pc |-> "disc", conn |-> c, ch |-> None, sid |-> None]
  BY DEF RunIdle
<1>1. MapsAgree' /\ HubSessionLive' /\ SessionsInv' /\ SweepInv'
  BY DEF HubInv, MapsAgree, HubSessionLive, SessionsInv, SweepInv
<1>2. NoLeakedPeer'
  BY <1>0 DEF HubInv, NoLeakedPeer
<1>3. RunInv'
  BY <1>0 DEF HubInv, RunInv
<1> QED
  BY <1>1, <1>2, <1>3 DEF HubInv

(* Run takes a join or a leave: the user is in no call from here on.       *)
LEMMA TakeJoinOrLeaveKeepsInv ==
  ASSUME TypeOK, HubInv, NEW c \in Conns, TakeJoinOrLeave(c)
  PROVE  HubInv'
<1> USE NoneIsNotAnId, LeaveVoiceEffect DEF TypeOK, SessionsTypeOK, peerVars
<1>0. /\ UserOf[c] \in Users /\ LeaveVoice(UserOf[c], loss) /\ run.pc = "idle"
      /\ run'.pc = "wait" /\ run'.conn = c
      /\ UNCHANGED <<peerVars, media, aged, sweep>>
  BY ConnAssumption DEF TakeJoinOrLeave, goVars
<1>1. MapsAgree' /\ HubSessionLive' /\ NoLeakedPeer'
  BY <1>0, LeaveVoiceKeepsInv
<1>2. SessionsInv'
  BY <1>0 DEF HubInv, SessionsInv, HubSessionLive
<1>3. RunInv'
  BY <1>0 DEF HubInv, RunInv
<1>4. SweepInv'
  BY <1>0 DEF HubInv, SweepInv
<1> QED
  BY <1>1, <1>2, <1>3, <1>4 DEF HubInv

(* Run moves on without touching a map or the router.                      *)
LEMMA RunMovesKeepsInv ==
  ASSUME TypeOK, HubInv, RunLeaveReturns \/ RunJoinFails \/ RunDiscReturns
  PROVE  HubInv'
<1> USE NoneIsNotAnId DEF RunLeaveReturns, RunJoinFails, RunDiscReturns,
                          sessionVars, voiceVars, goVars, Peers
<1>0. /\ run.pc \in {"wait", "join", "disc"}
      /\ \/ run'.pc = "idle"
         \/ /\ run.pc = "wait" /\ run.ch # None
            /\ run'.pc = "join" /\ run'.conn = run.conn /\ run'.ch = run.ch
  <2>1. CASE RunLeaveReturns /\ run.ch # None
    <3>1. run' = [run EXCEPT !.pc = "join", !.sid = None]
      BY <2>1
    <3> QED
      BY <2>1, <3>1 DEF TypeOK
  <2>2. CASE (RunLeaveReturns /\ run.ch = None) \/ RunJoinFails \/ RunDiscReturns
    BY <2>2 DEF RunIdle
  <2> QED
    BY <2>1, <2>2
<1>1. MapsAgree' /\ HubSessionLive' /\ SessionsInv' /\ SweepInv'
  BY DEF HubInv, MapsAgree, HubSessionLive, SessionsInv, SweepInv
<1>2. NoLeakedPeer'
  BY <1>0 DEF HubInv, NoLeakedPeer
<1>3. RunInv'
  <2>1. run.pc = "wait" /\ run.ch # None => run.ch \in Channels
    BY DEF TypeOK
  <2> QED
    BY <1>0, <2>1 DEF HubInv, RunInv
<1> QED
  BY <1>1, <1>2, <1>3 DEF HubInv

(* Router.Join: the new session is nobody's yet, but Run has it.           *)
LEMMA RunJoinKeepsInv ==
  ASSUME TypeOK, HubInv, NEW s \in Sids, RunJoin(s)
  PROVE  HubInv'
<1> USE NoneIsNotAnId DEF TypeOK, SessionsTypeOK, voiceVars, goVars
<1>0. /\ run.pc = "join" /\ run.conn \in Conns /\ run.ch \in Channels
      /\ UserOf[run.conn] \in Users
      /\ run'.pc = "set" /\ run'.sid = s /\ run'.conn = run.conn /\ run'.ch = run.ch
      /\ life[s] = "unborn" /\ life' = [life EXCEPT ![s] = "joining"]
      /\ peerUser' = [peerUser EXCEPT ![s] = UserOf[run.conn]]
      /\ peerChannel' = [peerChannel EXCEPT ![s] = run.ch]
      /\ UNCHANGED <<condemned, session, channel, participants, media, aged, sweep>>
  BY ConnAssumption DEF RunJoin, Join, HubInv, RunInv
<1>1. MapsAgree'
  BY <1>0 DEF HubInv, MapsAgree
<1>2. HubSessionLive'
  BY <1>0 DEF HubInv, HubSessionLive
<1>3. NoLeakedPeer'
  BY <1>0 DEF HubInv, NoLeakedPeer, Peers
<1>4. SessionsInv'
  BY <1>0 DEF HubInv, SessionsInv
<1>5. RunInv'
  BY <1>0 DEF HubInv, RunInv
<1>6. SweepInv'
  BY <1>0 DEF HubInv, SweepInv
<1> QED
  BY <1>1, <1>2, <1>3, <1>4, <1>5, <1>6 DEF HubInv

(* joinVoiceChannel's critical section: the user was in no call, so one    *)
(* session and one channel are recorded, and nothing is overwritten.       *)
LEMMA RunSetKeepsInv ==
  ASSUME TypeOK, HubInv, RunSet
  PROVE  HubInv'
<1> USE NoneIsNotAnId DEF TypeOK, SessionsTypeOK, goVars
<1> DEFINE u == UserOf[run.conn]
           s == run.sid
<1>0. /\ run.pc = "set" /\ run.conn \in Conns /\ run.ch \in Channels
      /\ u \in Users /\ s \in Sids
      /\ life[s] = "joining" /\ peerUser[s] = u /\ peerChannel[s] = run.ch
      /\ channel[u] = None /\ session[u] = None
      /\ run'.pc = "idle"
      /\ life' = [life EXCEPT ![s] = "live"]
      /\ session' = [session EXCEPT ![u] = s]
      /\ channel' = [channel EXCEPT ![u] = run.ch]
      /\ participants' = [participants EXCEPT ![run.ch] = @ \cup {u}]
      /\ UNCHANGED <<peerUser, peerChannel, condemned, media, aged, sweep>>
  BY ConnAssumption DEF RunSet, JoinReturns, HubInv, RunInv, MapsAgree, RunIdle
<1> HIDE DEF u, s
<1>1. MapsAgree'
  <2>1. \A ch \in Channels : participants'[ch] =
           IF ch = run.ch THEN participants[ch] \cup {u} ELSE participants[ch]
    BY <1>0
  <2>2. \A ch \in Channels : u \notin participants[ch]
    BY <1>0 DEF HubInv, MapsAgree
  <2> QED
    BY <1>0, <2>1, <2>2 DEF HubInv, MapsAgree
<1>2. HubSessionLive'
  BY <1>0 DEF HubInv, HubSessionLive, SessionsInv
<1>3. NoLeakedPeer'
  <2> SUFFICES ASSUME NEW t \in Sids, t \in Peers'
               PROVE  session'[peerUser'[t]] = t \/ t \in condemned'
    BY DEF NoLeakedPeer
  <2>1. CASE t = s
    BY <1>0, <2>1
  <2>2. CASE t # s
    <3>1. t \in Peers /\ peerUser[t] \in Users /\ ~(run.pc = "set" /\ run.sid = t)
      BY <1>0, <2>2 DEF Peers, HubInv, SessionsInv, s
    <3>2. session[peerUser[t]] = t \/ t \in condemned
      BY <3>1 DEF HubInv, NoLeakedPeer
    <3> QED
      BY <1>0, <3>1, <3>2
  <2> QED
    BY <2>1, <2>2
<1>4. SessionsInv'
  BY <1>0 DEF HubInv, SessionsInv
<1>5. RunInv'
  BY <1>0 DEF HubInv, RunInv, s
<1>6. SweepInv'
  BY <1>0 DEF HubInv, SweepInv
<1> QED
  BY <1>1, <1>2, <1>3, <1>4, <1>5, <1>6 DEF HubInv

(* The leaves of goroutines that act by user: a disconnect, an expiry, a   *)
(* failed resume, a dead PeerConnection.                                   *)
LEMMA LeaversKeepInv ==
  ASSUME TypeOK, HubInv,
         \/ \E c \in Conns : DiscLeave(c) \/ ExpireLeave(c) \/ ResumeExpireLeave(c)
         \/ \E s \in Sids : NotifyLeave(s)
  PROVE  HubInv'
<1> USE NoneIsNotAnId, ConnAssumption DEF goVars, peerVars
<1>1. ASSUME NEW c \in Conns, ExpireLeave(c) \/ ResumeExpireLeave(c) PROVE HubInv'
  <2>1. \E l : LeaveVoice(UserOf[c], l)
    BY <1>1 DEF ExpireLeave, ResumeExpireLeave
  <2> QED
    BY <1>1, <2>1, LeaveVoiceKeepsHubInv DEF ExpireLeave, ResumeExpireLeave
<1>2. ASSUME NEW s \in Sids, NotifyLeave(s) PROVE HubInv'
  <2>1. peerUser[s] \in Users
    BY <1>2 DEF NotifyLeave, TypeOK, SessionsTypeOK, HubInv, SessionsInv
  <2>2. \A t \in Sids : media'[t] # "new" => media[t] # "new"
    BY <1>2 DEF NotifyLeave, TypeOK
  <2> QED
    BY <1>2, <2>1, <2>2, LeaveVoiceKeepsHubInv DEF NotifyLeave
<1>3. ASSUME NEW c \in Conns, DiscLeave(c) PROVE HubInv'
  <2> DEFINE u == UserOf[c]
  <2>1. PICK l : LeaveVoice(u, l)
    BY <1>3 DEF DiscLeave
  <2>2. CASE run' = run
    BY <1>3, <2>1, <2>2, LeaveVoiceKeepsHubInv DEF DiscLeave
  <2>3. CASE run' # run
    <3>1. /\ run.pc = "disc" /\ run'.pc = "wait" /\ run'.conn = c
          /\ UNCHANGED <<peerVars, media, aged, sweep>>
      BY <1>3, <2>3 DEF DiscLeave, TypeOK
    <3>2. /\ channel'[u] = None
          /\ condemned' = condemned \cup ({session[u]} \ {None})
      BY <2>1, LeaveVoiceEffect
    <3>3. MapsAgree' /\ HubSessionLive' /\ NoLeakedPeer'
      BY <2>1, <3>1, LeaveVoiceKeepsInv
    <3>4. SessionsInv'
      BY <3>1, <3>2 DEF HubInv, SessionsInv, HubSessionLive
    <3>5. RunInv'
      BY <3>1, <3>2 DEF HubInv, RunInv
    <3>6. SweepInv'
      BY <3>1, <3>2 DEF HubInv, SweepInv
    <3> QED
      BY <3>3, <3>4, <3>5, <3>6 DEF HubInv
  <2> QED
    BY <2>2, <2>3
<1> QED
  BY <1>1, <1>2, <1>3

(* Media and ages are marks on sessions that have begun.                   *)
LEMMA MarksKeepInv ==
  ASSUME TypeOK, HubInv, NEW s \in Sids,
         Negotiate(s) \/ MediaDies(s) \/ NotifyCheck(s) \/ Age(s)
  PROVE  HubInv'
<1> USE NoneIsNotAnId DEF Negotiate, MediaDies, NotifyCheck, Age,
                          sessionVars, voiceVars, connVars, Peers
<1>1. UNCHANGED <<life, peerUser, peerChannel, condemned, session, channel, participants,
                  run, sweep>>
  OBVIOUS
<1>2. MapsAgree' /\ HubSessionLive' /\ NoLeakedPeer' /\ RunInv' /\ SweepInv'
  BY <1>1 DEF HubInv, MapsAgree, HubSessionLive, NoLeakedPeer, RunInv, SweepInv
<1>3. SessionsInv'
  BY <1>1 DEF HubInv, SessionsInv, RunInv, TypeOK
<1> QED
  BY <1>2, <1>3 DEF HubInv

(* Router.Leave of a session that was given up: nobody uses it.            *)
LEMMA RouterLeaveKeepsInv ==
  ASSUME TypeOK, HubInv, NEW s \in Sids, RouterLeave(s)
  PROVE  HubInv'
<1> USE NoneIsNotAnId DEF TypeOK, SessionsTypeOK, voiceVars, connVars
<1>1. /\ UNCHANGED <<peerUser, peerChannel, condemned, session, channel, participants,
                     media, run, sweep>>
      /\ s \in condemned /\ aged' \subseteq aged
      /\ \/ life[s] = "live" /\ life' = [life EXCEPT ![s] = "leaving"]
         \/ life[s] = "leaving" /\ life' = [life EXCEPT ![s] = "gone"]
  BY DEF RouterLeave, Leave, LeaveReturns, HubInv, SessionsInv
<1>2. MapsAgree'
  BY <1>1 DEF HubInv, MapsAgree
<1>3. HubSessionLive'
  BY <1>1 DEF HubInv, HubSessionLive
<1>4. NoLeakedPeer'
  BY <1>1 DEF HubInv, NoLeakedPeer, Peers
<1>5. SessionsInv'
  BY <1>1 DEF HubInv, SessionsInv
<1>6. RunInv'
  BY <1>1 DEF HubInv, RunInv
<1>7. SweepInv'
  BY <1>1 DEF HubInv, SweepInv
<1> QED
  BY <1>2, <1>3, <1>4, <1>5, <1>6, <1>7 DEF HubInv

(* The sweep.  Its orphans were in the router and nobody's when it looked, *)
(* so they had been given up: it never leaves a session in use.            *)
LEMMA SweepKeepsInv ==
  ASSUME TypeOK, HubInv, SweepStep
  PROVE  HubInv'
<1> USE NoneIsNotAnId DEF TypeOK, SessionsTypeOK, sessionVars, others, voiceVars, connVars,
                          goVars, peerVars
<1>1. CASE SweepRouter \/ SweepHub \/ SweepLeaveReturns \/ SweepDone
  <2>1. UNCHANGED <<life, peerUser, peerChannel, condemned, session, channel, participants,
                    media, aged, run>>
    BY <1>1 DEF SweepRouter, SweepHub, SweepLeaveReturns, SweepDone
  <2>2. MapsAgree' /\ HubSessionLive' /\ NoLeakedPeer' /\ SessionsInv' /\ RunInv'
    BY <2>1 DEF HubInv, MapsAgree, HubSessionLive, NoLeakedPeer, SessionsInv, RunInv, Peers
  <2>3. SweepInv'
    <3>1. CASE SweepRouter
      <4>1. sweep'.old = Peers \cap aged /\ sweep'.orphans = {}
        BY <3>1 DEF SweepRouter, SweepIdle
      <4> QED
        BY <2>1, <4>1 DEF HubInv, SessionsInv, SweepInv, Peers
    <3>2. CASE SweepHub
      <4>1. /\ sweep'.old = {}
            /\ sweep'.orphans = {s \in sweep.old : session[peerUser[s]] # s}
        BY <3>2 DEF SweepHub, SweepIdle
      <4>2. ASSUME NEW s \in sweep.old, session[peerUser[s]] # s
            PROVE  s \in condemned
        <5>1. s \in Sids /\ life[s] \notin {"unborn", "joining"}
          BY DEF HubInv, SweepInv
        <5>2. ~(run.pc = "set" /\ run.sid = s)
          BY <5>1 DEF HubInv, RunInv
        <5> QED
          BY <4>2, <5>1, <5>2 DEF HubInv, NoLeakedPeer, SessionsInv, Peers
      <4> QED
        BY <2>1, <4>1, <4>2 DEF SweepInv
    <3>3. CASE SweepLeaveReturns
      <4>1. sweep'.old = sweep.old /\ sweep'.orphans = sweep.orphans
        BY <3>3 DEF SweepLeaveReturns
      <4> QED
        BY <2>1, <4>1 DEF HubInv, SweepInv
    <3>4. CASE SweepDone
      <4>1. sweep'.old = {} /\ sweep'.orphans = {}
        BY <3>4 DEF SweepDone, SweepIdle
      <4> QED
        BY <4>1 DEF SweepInv
    <3> QED
      BY <1>1, <3>1, <3>2, <3>3, <3>4
  <2> QED
    BY <2>2, <2>3 DEF HubInv
<1>2. ASSUME NEW u \in Users, SweepSuspect(u) PROVE HubInv'
  <2>1. /\ LeaveVoice(u, loss) /\ UNCHANGED <<peerVars, media, aged, run>>
        /\ sweep'.old = sweep.old /\ sweep'.orphans = sweep.orphans
    BY <1>2 DEF SweepSuspect
  <2>2. /\ channel'[u] = None /\ \A v \in Users : v # u => channel'[v] = channel[v]
        /\ condemned' = condemned \cup ({session[u]} \ {None})
    BY <2>1, LeaveVoiceEffect
  <2>3. MapsAgree' /\ HubSessionLive' /\ NoLeakedPeer'
    BY <2>1, LeaveVoiceKeepsInv
  <2>4. SessionsInv'
    BY <2>1, <2>2 DEF HubInv, SessionsInv, HubSessionLive
  <2>5. RunInv'
    BY <2>1, <2>2, ConnAssumption DEF HubInv, RunInv
  <2>6. SweepInv'
    BY <2>1, <2>2 DEF HubInv, SweepInv
  <2> QED
    BY <2>3, <2>4, <2>5, <2>6 DEF HubInv
<1>3. ASSUME NEW s \in Sids, SweepOrphan(s) PROVE HubInv'
  <2>1. /\ UNCHANGED <<peerUser, peerChannel, condemned, session, channel, participants,
                       media, aged, run>>
        /\ s \in condemned
        /\ \/ life' = life
           \/ life[s] = "live" /\ life' = [life EXCEPT ![s] = "leaving"]
        /\ sweep'.old = sweep.old /\ sweep'.orphans \subseteq sweep.orphans
    BY <1>3 DEF SweepOrphan, HubInv, SweepInv
  <2>2. MapsAgree'
    BY <2>1 DEF HubInv, MapsAgree
  <2>3. HubSessionLive'
    BY <2>1 DEF HubInv, HubSessionLive
  <2>4. NoLeakedPeer'
    BY <2>1 DEF HubInv, NoLeakedPeer, Peers
  <2>5. SessionsInv' /\ RunInv'
    BY <2>1 DEF HubInv, SessionsInv, RunInv
  <2>6. SweepInv'
    BY <2>1 DEF HubInv, SweepInv
  <2> QED
    BY <2>2, <2>3, <2>4, <2>5, <2>6 DEF HubInv
<1> QED
  BY <1>1, <1>2, <1>3 DEF SweepStep

(* The initial state satisfies the invariant: nobody is in a call.         *)
LEMMA InitVoiceInv == Init => VoiceInv
<1> SUFFICES ASSUME Init PROVE VoiceInv
  OBVIOUS
<1> USE NoneIsNotAnId, ConnAssumption
    DEF Init, SessionsInit, RunIdle, SweepIdle, Idle, At
<1>1. TypeOK
  BY DEF TypeOK, SessionsTypeOK, Losses, Resumes
<1>2. MapsAgree /\ HubSessionLive /\ NoLeakedPeer
  BY DEF MapsAgree, HubSessionLive, NoLeakedPeer, Peers
<1>3. SessionsInv /\ RunInv /\ SweepInv
  BY DEF SessionsInv, RunInv, SweepInv
<1> QED
  BY <1>1, <1>2, <1>3 DEF VoiceInv

(* Every step of every goroutine preserves the invariant.                  *)
LEMMA NextVoiceInv == VoiceInv /\ [Next]_vars => VoiceInv'
<1> SUFFICES ASSUME TypeOK, HubInv, [Next]_vars PROVE TypeOK' /\ HubInv'
  BY DEF VoiceInv, HubInv
<1>1. CASE UNCHANGED vars
  <2>1. TypeOK'
    BY <1>1 DEF vars, sessionVars, voiceVars, connVars, goVars, TypeOK, SessionsTypeOK
  <2>2. UNCHANGED hubVars
    BY <1>1 DEF vars, sessionVars, voiceVars, connVars, goVars, hubVars
  <2> QED
    BY <2>1, <2>2, HubInvUnchanged
<1>2. CASE Environment
  <2>1. ASSUME NEW c \in Conns,
               Register(c) \/ (\E cmd \in Requests(UserOf[c]) : Send(c, cmd)) \/ LoseSocket(c)
        PROVE  TypeOK' /\ HubInv'
    BY <2>1, ConnTypeStep, QuietSteps, HubInvUnchanged
  <2>2. ASSUME NEW s \in Sids, Negotiate(s) \/ MediaDies(s)
        PROVE  TypeOK' /\ HubInv'
    BY <2>2, SessionTypeStep, MarksKeepInv
  <2> QED
    BY <1>2, <2>1, <2>2 DEF Environment
<1>3. CASE RunStep
  <2>1. ASSUME NEW c \in Conns, Unregister(c) PROVE TypeOK' /\ HubInv'
    BY <2>1, ConnTypeStep, UnregisterKeepsInv
  <2>2. ASSUME NEW c \in Conns, RefuseJoin(c) PROVE TypeOK' /\ HubInv'
    BY <2>2, ConnTypeStep, QuietSteps, HubInvUnchanged
  <2>3. ASSUME NEW c \in Conns, TakeJoinOrLeave(c) PROVE TypeOK' /\ HubInv'
    BY <2>3, RunTypeStep, TakeJoinOrLeaveKeepsInv
  <2>4. ASSUME NEW c \in Conns, TakeResume(c) PROVE TypeOK' /\ HubInv'
    BY <2>4, RunTypeStep, QuietSteps, HubInvUnchanged
  <2>5. ASSUME NEW s \in Sids, RunJoin(s) PROVE TypeOK' /\ HubInv'
    BY <2>5, RunTypeStep, RunJoinKeepsInv
  <2>6. ASSUME RunLeaveReturns \/ RunJoinFails \/ RunDiscReturns PROVE TypeOK' /\ HubInv'
    BY <2>6, RunTypeStep, RunMovesKeepsInv
  <2>7. ASSUME RunSet PROVE TypeOK' /\ HubInv'
    BY <2>7, RunTypeStep, RunSetKeepsInv
  <2> QED
    BY <1>3, <2>1, <2>2, <2>3, <2>4, <2>5, <2>6, <2>7 DEF RunStep
<1>4. ASSUME NEW c \in Conns, LossStep(c) PROVE TypeOK' /\ HubInv'
  BY <1>4, LossTypeStep, QuietSteps, HubInvUnchanged, LeaversKeepInv DEF LossStep
<1>5. ASSUME NEW c \in Conns, ResumeStep(c) PROVE TypeOK' /\ HubInv'
  BY <1>5, ResumeTypeStep, QuietSteps, HubInvUnchanged, LeaversKeepInv DEF ResumeStep
<1>6. ASSUME NEW s \in Sids, NotifyStep(s) \/ Age(s) \/ RouterLeave(s)
      PROVE  TypeOK' /\ HubInv'
  BY <1>6, SessionTypeStep, MarksKeepInv, LeaversKeepInv, RouterLeaveKeepsInv DEF NotifyStep
<1>7. CASE SweepStep
  BY <1>7, SweepTypeStep, SweepKeepsInv
<1> QED
  BY <1>1, <1>2, <1>3, <1>4, <1>5, <1>6, <1>7 DEF Next

(* The invariant of voice membership.                                      *)
THEOREM VoiceInvHolds == Spec => []VoiceInv
BY InitVoiceInv, NextVoiceInv, PTL DEF Spec

(* The variables have their types.                                         *)
THEOREM VoiceTyped == Spec => []TypeOK
<1>1. VoiceInv => TypeOK
  BY DEF VoiceInv
<1> QED
  BY <1>1, VoiceInvHolds, PTL

(* userVoiceChannel, sfuSessionByUser and voiceParticipants agree, though  *)
(* six kinds of goroutine change them.                                     *)
THEOREM MapsAlwaysAgree == Spec => []MapsAgree
<1>1. VoiceInv => MapsAgree
  BY DEF VoiceInv
<1> QED
  BY <1>1, VoiceInvHolds, PTL

(* The session the hub keeps for a user is live in the router.             *)
THEOREM HubSessionsAreLive == Spec => []HubSessionLive
<1>1. VoiceInv => HubSessionLive
  BY DEF VoiceInv
<1> QED
  BY <1>1, VoiceInvHolds, PTL

(* No peer is left behind in the router.                                   *)
THEOREM NoPeerLeaks == Spec => []NoLeakedPeer
<1>1. VoiceInv => NoLeakedPeer
  BY DEF VoiceInv
<1> QED
  BY <1>1, VoiceInvHolds, PTL

(* The hub's sessions and the router's peers agree, both ways, whatever the*)
(* interleaving of Run, timers, callbacks, failed resumes and the sweep.   *)
THEOREM SessionsAndPeersMatch == Spec => []SessionsMatchPeers
BY HubSessionsAreLive, NoPeerLeaks, PTL DEF SessionsMatchPeers

-----------------------------------------------------------------------------
(* Every lost connection is handled.                                       *)

(* What a goroutine's step leaves of LossInv: connections stay as they     *)
(* are, and no handleVoiceDisconnect starts or is forgotten.               *)
LossKept ==
    /\ UNCHANGED <<client, socket>>
    /\ \A c \in Conns : loss'[c].pc = "none" <=> loss[c].pc = "none"

(* Stopping a timer starts and forgets none ...                            *)
LEMMA StopKeeps ==
  ASSUME NEW l \in [Conns -> LossType], NEW d, NEW c \in Conns
  PROVE  Stop(l, d)[c].pc = "none" <=> l[c].pc = "none"
BY DEF Stop, At

(* ... nor does leaving a call.                                            *)
LEMMA LeaveVoiceKeepsLosses ==
  ASSUME NEW u \in Users, NEW l \in [Conns -> LossType], LeaveVoice(u, l)
  PROVE  \A c \in Conns : loss'[c].pc = "none" <=> l[c].pc = "none"
<1>1. CASE loss' = l
  BY <1>1
<1>2. CASE loss' = Stop(l, timer[u])
  BY <1>2, StopKeeps
<1> QED
  BY <1>1, <1>2 DEF LeaveVoice

(* Each step of handleVoiceDisconnect, its timer and expireVoiceSession    *)
(* moves on from where the goroutine is.                                   *)
LEMMA LossStepKeepsLosses ==
  ASSUME TypeOK, NEW c \in Conns, LossStep(c)
  PROVE  LossKept
<1>0. /\ loss \in [Conns -> LossType] /\ UserOf[c] \in Users
      /\ UNCHANGED <<client, socket>> /\ Done \in LossType /\ Done.pc = "done"
  BY ConnAssumption DEF TypeOK, LossType, LossStep, DiscRead, DiscDetach, DiscArm, DiscLeave,
     TimerFires, ExpireCheck, ExpireLeave, connVars, Done, At, Losses
<1>1. CASE DiscRead(c) \/ DiscDetach(c) \/ TimerFires(c) \/ ExpireCheck(c)
  <2>1. loss[c].pc # "none" /\ loss'[c].pc # "none"
    BY <1>0, <1>1 DEF DiscRead, DiscDetach, TimerFires, ExpireCheck, At, Done, LossType
  <2>2. \A d \in Conns \ {c} : loss'[d] = loss[d]
    BY <1>0, <1>1 DEF DiscRead, DiscDetach, TimerFires, ExpireCheck
  <2> QED
    BY <1>0, <2>1, <2>2 DEF LossKept
<1>2. CASE DiscArm(c)
  <2>1. \A d \in Conns : Stop(loss, timer[UserOf[c]])[d].pc = "none" <=> loss[d].pc = "none"
    BY <1>0, StopKeeps
  <2>2. /\ loss[c].pc = "arm"
        /\ loss' = [Stop(loss, timer[UserOf[c]]) EXCEPT ![c].pc = "armed"]
    BY <1>2 DEF DiscArm
  <2>3. Stop(loss, timer[UserOf[c]]) \in [Conns -> LossType]
    BY <1>0, StopType DEF TypeOK
  <2>4. loss'[c].pc = "armed" /\ \A d \in Conns \ {c} : loss'[d] = Stop(loss, timer[UserOf[c]])[d]
    BY <2>2, <2>3 DEF LossType
  <2> QED
    BY <1>0, <2>1, <2>2, <2>4 DEF LossKept
<1>3. CASE DiscLeave(c) \/ ExpireLeave(c)
  <2>1. LeaveVoice(UserOf[c], [loss EXCEPT ![c] = Done]) /\ loss[c].pc # "none"
    BY <1>3 DEF DiscLeave, ExpireLeave
  <2>2. [loss EXCEPT ![c] = Done] \in [Conns -> LossType]
    BY <1>0
  <2>3. \A d \in Conns : loss'[d].pc = "none" <=> [loss EXCEPT ![c] = Done][d].pc = "none"
    BY <1>0, <2>1, <2>2, LeaveVoiceKeepsLosses
  <2> QED
    BY <1>0, <2>1, <2>3 DEF LossKept
<1> QED
  BY <1>1, <1>2, <1>3 DEF LossStep

(* Of all steps only Register, LoseSocket and Unregister touch a           *)
(* connection, and only the first and the last start what follows a loss.  *)
LEMMA OthersKeepLosses ==
  ASSUME TypeOK, Next
  PROVE  \/ LossKept
         \/ \E c \in Conns : Register(c) \/ LoseSocket(c) \/ Unregister(c)
<1> USE DEF voiceVars, connVars, goVars
<1>0. loss \in [Conns -> LossType] /\ UserOf \in [Conns -> Users]
  BY ConnAssumption DEF TypeOK, LossType
<1>1. ASSUME NEW u \in Users, LeaveVoice(u, loss), UNCHANGED <<client, socket>>
      PROVE  LossKept
  BY <1>0, <1>1, LeaveVoiceKeepsLosses DEF LossKept
<1>2. CASE Environment
  BY <1>2 DEF Environment, Send, Negotiate, MediaDies, LossKept
<1>3. CASE RunStep
  <2>1. ASSUME NEW c \in Conns, RefuseJoin(c) \/ TakeResume(c)
        PROVE  LossKept
    BY <2>1 DEF RefuseJoin, TakeResume, LossKept
  <2>2. ASSUME NEW c \in Conns, TakeJoinOrLeave(c)
        PROVE  LossKept
    BY <1>0, <1>1, <2>2 DEF TakeJoinOrLeave
  <2>3. CASE RunLeaveReturns \/ RunJoinFails \/ RunSet \/ RunDiscReturns \/ \E s \in Sids : RunJoin(s)
    BY <2>3 DEF RunLeaveReturns, RunJoinFails, RunSet, RunDiscReturns, RunJoin, LossKept
  <2> QED
    BY <1>3, <2>1, <2>2, <2>3 DEF RunStep
<1>4. ASSUME NEW c \in Conns, LossStep(c)
      PROVE  LossKept
  BY <1>4, LossStepKeepsLosses
<1>5. ASSUME NEW c \in Conns, ResumeStep(c)
      PROVE  LossKept
  <2>1. CASE ResumeCheck(c) \/ ResumeRouter(c) \/ ResumeExpireCheck(c)
    BY <2>1 DEF ResumeCheck, ResumeRouter, ResumeExpireCheck, LossKept
  <2>2. CASE ResumeStop(c)
    BY <1>0, <2>2, StopKeeps DEF ResumeStop, LossKept
  <2>3. CASE ResumeExpireLeave(c)
    BY <1>0, <1>1, <2>3 DEF ResumeExpireLeave
  <2> QED
    BY <1>5, <2>1, <2>2, <2>3 DEF ResumeStep
<1>6. ASSUME NEW s \in Sids, NotifyStep(s) \/ Age(s) \/ RouterLeave(s)
      PROVE  LossKept
  <2>1. CASE NotifyCheck(s) \/ Age(s) \/ RouterLeave(s)
    BY <2>1 DEF NotifyCheck, Age, RouterLeave, LossKept
  <2>2. CASE NotifyLeave(s)
    <3>1. CASE peerUser[s] \in Users
      BY <1>1, <2>2, <3>1 DEF NotifyLeave
    <3>2. CASE peerUser[s] \notin Users
      <4>1. loss' = loss \/ loss' = Stop(loss, timer[peerUser[s]])
        BY <2>2 DEF NotifyLeave, LeaveVoice
      <4> QED
        BY <1>0, <2>2, <4>1, StopKeeps DEF NotifyLeave, LossKept
    <3> QED
      BY <3>1, <3>2
  <2> QED
    BY <1>6, <2>1, <2>2 DEF NotifyStep
<1>7. CASE SweepStep
  <2>1. CASE SweepRouter \/ SweepHub \/ SweepLeaveReturns \/ SweepDone
             \/ \E s \in Sids : SweepOrphan(s)
    BY <2>1 DEF SweepRouter, SweepHub, SweepLeaveReturns, SweepDone, SweepOrphan, others, LossKept
  <2>2. ASSUME NEW u \in Users, SweepSuspect(u)
        PROVE  LossKept
    BY <1>1, <2>2 DEF SweepSuspect
  <2> QED
    BY <1>7, <2>1, <2>2 DEF SweepStep
<1> QED
  BY <1>2, <1>3, <1>4, <1>5, <1>6, <1>7 DEF Next, Environment, RunStep

(* No connection is registered or started at first.                        *)
LEMMA InitLossInv == Init => LossInv
BY NoneIsNotAnId, ConnAssumption DEF Init, LossInv, Idle, At

(* Each step keeps it: Register starts the disconnect of the connection it *)
(* replaces, Unregister that of the connection it removes.                 *)
LEMMA NextLossInv == TypeOK /\ LossInv /\ [Next]_vars => LossInv'
<1> SUFFICES ASSUME TypeOK, LossInv, [Next]_vars
             PROVE  LossInv'
  OBVIOUS
<1>0. /\ loss \in [Conns -> LossType] /\ socket \in [Conns -> {"unused", "open", "closed", "lost", "done"}]
      /\ client \in [Users -> Conns \cup {None}] /\ UserOf \in [Conns -> Users] /\ None \notin Conns
  BY ConnAssumption DEF TypeOK, LossType
<1>1. CASE UNCHANGED vars
  BY <1>1 DEF vars, connVars, LossInv
<1>2. CASE LossKept
  BY <1>2 DEF LossKept, LossInv
<1>3. ASSUME NEW c \in Conns, Register(c)
      PROVE  LossInv'
  <2>1. /\ socket[c] = "unused" /\ socket' = [socket EXCEPT ![c] = "open"]
        /\ client' = [client EXCEPT ![UserOf[c]] = c]
        /\ \A d \in Conns : loss'[d] = IF d = client[UserOf[c]] THEN At("read", None) ELSE loss[d]
    BY <1>3 DEF Register
  <2>2. At("read", None).pc = "read"
    BY DEF At
  <2>3. ASSUME NEW u \in Users, client'[u] # None
        PROVE  UserOf[client'[u]] = u /\ socket'[client'[u]] \in {"open", "closed", "lost"}
    BY <1>0, <2>1, <2>3 DEF LossInv
  <2>4. ASSUME NEW d \in Conns
        PROVE  loss'[d].pc = "none" <=> socket'[d] = "unused" \/ client'[UserOf[d]] = d
    <3>1. CASE d = c
      <4>1. loss[c].pc = "none" /\ client[UserOf[c]] # c
        BY <1>0, <2>1 DEF LossInv
      <4> QED
        BY <1>0, <2>1, <3>1, <4>1
    <3>2. CASE d = client[UserOf[c]] /\ d # c
      <4>1. UserOf[d] = UserOf[c] /\ socket[d] # "unused"
        BY <1>0, <3>2 DEF LossInv
      <4> QED
        BY <1>0, <2>1, <2>2, <3>2, <4>1
    <3>3. CASE d # client[UserOf[c]] /\ d # c
      <4>1. client'[UserOf[d]] = d <=> client[UserOf[d]] = d
        BY <1>0, <2>1, <3>3
      <4> QED
        BY <1>0, <2>1, <3>3, <4>1 DEF LossInv
    <3> QED
      BY <3>1, <3>2, <3>3
  <2> QED
    BY <2>3, <2>4 DEF LossInv
<1>4. ASSUME NEW c \in Conns, LoseSocket(c)
      PROVE  LossInv'
  BY <1>0, <1>4 DEF LoseSocket, LossInv
<1>5. ASSUME NEW c \in Conns, Unregister(c)
      PROVE  LossInv'
  <2>1. CASE client[UserOf[c]] # c
    BY <1>0, <1>5, <2>1 DEF Unregister, LossInv
  <2>2. CASE client[UserOf[c]] = c
    <3>1. /\ socket' = [socket EXCEPT ![c] = "done"] /\ client' = [client EXCEPT ![UserOf[c]] = None]
          /\ \E p \in {"leave", "read"} : loss' = [loss EXCEPT ![c] = At(p, None)]
      BY <1>5, <2>2 DEF Unregister
    <3>2. loss'[c].pc # "none" /\ \A d \in Conns \ {c} : loss'[d] = loss[d]
      BY <1>0, <3>1 DEF At
    <3> QED
      BY <1>0, <2>2, <3>1, <3>2 DEF LossInv
  <2> QED
    BY <2>1, <2>2
<1> QED
  BY <1>1, <1>2, <1>3, <1>4, <1>5, OthersKeepLosses

(* client.go defers the Unregister, hub.go's Register evicts: either way,  *)
(* and never both, handleVoiceDisconnect is started for a lost connection. *)
THEOREM EveryLossIsHandled == Spec => []EveryLossHandled
<1>1. LossInv => EveryLossHandled
  <2> SUFFICES ASSUME LossInv, NEW c \in Conns
               PROVE  /\ socket[c] = "done" => loss[c].pc # "none"
                      /\ loss[c].pc # "none" => client[UserOf[c]] # c
    BY DEF EveryLossHandled
  <2>1. UserOf[c] \in Users /\ c # None
    BY ConnAssumption
  <2>2. client[UserOf[c]] = c => socket[c] \in {"open", "closed", "lost"}
    BY <2>1 DEF LossInv
  <2> QED
    BY <2>2 DEF LossInv
<1>2. TypeOK /\ [Next]_vars /\ LossInv => LossInv'
  BY NextLossInv
<1> QED
  BY <1>1, <1>2, InitLossInv, VoiceTyped, PTL DEF Spec

-----------------------------------------------------------------------------
(* The refinements.                                                        *)

(* What any step of any goroutine may do to calls and to the router.       *)
LEMMA StepKinds ==
  ASSUME TypeOK, HubInv, Next
  PROVE  \/ UNCHANGED <<sessionVars, session, channel>>
         \/ \E u \in Users : (\E l : LeaveVoice(u, l)) /\ UNCHANGED peerVars
         \/ \E s \in Sids : RunJoin(s)
         \/ RunSet
         \/ \E s \in Sids : (Leave(s) \/ LeaveReturns(s)) /\ UNCHANGED <<session, channel>>
<1> USE ConnAssumption DEF sessionVars, voiceVars, connVars, goVars
<1>1. CASE Environment
  BY <1>1 DEF Environment, Register, Send, LoseSocket, Negotiate, MediaDies
<1>2. CASE RunStep
  <2>1. ASSUME NEW c \in Conns, Unregister(c) \/ RefuseJoin(c) \/ TakeResume(c)
        PROVE  UNCHANGED <<sessionVars, session, channel>>
    BY <2>1 DEF Unregister, RefuseJoin, TakeResume
  <2>2. ASSUME NEW c \in Conns, TakeJoinOrLeave(c)
        PROVE  LeaveVoice(UserOf[c], loss) /\ UNCHANGED peerVars
    BY <2>2 DEF TakeJoinOrLeave
  <2>3. ASSUME RunLeaveReturns \/ RunJoinFails \/ RunDiscReturns
        PROVE  UNCHANGED <<sessionVars, session, channel>>
    BY <2>3 DEF RunLeaveReturns, RunJoinFails, RunDiscReturns
  <2> QED
    BY <1>2, <2>1, <2>2, <2>3 DEF RunStep
<1>3. ASSUME NEW c \in Conns, LossStep(c)
      PROVE  \/ UNCHANGED <<sessionVars, session, channel>>
             \/ (\E l : LeaveVoice(UserOf[c], l)) /\ UNCHANGED peerVars
  BY <1>3 DEF LossStep, DiscRead, DiscDetach, DiscArm, DiscLeave, TimerFires, ExpireCheck,
              ExpireLeave
<1>4. ASSUME NEW c \in Conns, ResumeStep(c)
      PROVE  \/ UNCHANGED <<sessionVars, session, channel>>
             \/ (\E l : LeaveVoice(UserOf[c], l)) /\ UNCHANGED peerVars
  BY <1>4 DEF ResumeStep, ResumeCheck, ResumeRouter, ResumeStop, ResumeExpireCheck,
              ResumeExpireLeave
<1>5. ASSUME NEW s \in Sids, NotifyCheck(s) \/ Age(s)
      PROVE  UNCHANGED <<sessionVars, session, channel>>
  BY <1>5 DEF NotifyCheck, Age
<1>6. ASSUME NEW s \in Sids, NotifyLeave(s)
      PROVE  peerUser[s] \in Users /\ LeaveVoice(peerUser[s], loss) /\ UNCHANGED peerVars
  BY <1>6 DEF NotifyLeave, TypeOK, SessionsTypeOK, HubInv, SessionsInv
<1>7. ASSUME NEW s \in Sids, RouterLeave(s)
      PROVE  (Leave(s) \/ LeaveReturns(s)) /\ UNCHANGED <<session, channel>>
  BY <1>7 DEF RouterLeave
<1>8. CASE SweepStep
  <2>1. ASSUME SweepRouter \/ SweepHub \/ SweepLeaveReturns \/ SweepDone
        PROVE  UNCHANGED <<sessionVars, session, channel>>
    BY <2>1 DEF SweepRouter, SweepHub, SweepLeaveReturns, SweepDone, others
  <2>2. ASSUME NEW u \in Users, SweepSuspect(u)
        PROVE  LeaveVoice(u, loss) /\ UNCHANGED peerVars
    BY <2>2 DEF SweepSuspect
  <2>3. ASSUME NEW s \in Sids, SweepOrphan(s)
        PROVE  \/ UNCHANGED <<sessionVars, session, channel>>
               \/ Leave(s) /\ UNCHANGED <<session, channel>>
    BY <2>3 DEF SweepOrphan, others, Leave, HubInv, SweepInv
  <2> QED
    BY <1>8, <2>1, <2>2, <2>3 DEF SweepStep
<1> QED
  BY <1>1, <1>2, <1>3, <1>4, <1>5, <1>6, <1>7, <1>8 DEF Next, NotifyStep

(* The user joins only when all of the user's sessions are given up.       *)
LEMMA RunMayJoin ==
  ASSUME TypeOK, HubInv, run.pc = "join"
  PROVE  run.conn \in Conns /\ run.ch \in Channels /\ MayJoin(UserOf[run.conn])
<1> USE NoneIsNotAnId, ConnAssumption DEF TypeOK, SessionsTypeOK
<1>1. run.conn \in Conns /\ run.ch \in Channels /\ channel[UserOf[run.conn]] = None
  BY DEF HubInv, RunInv
<1>2. UserOf[run.conn] \in Users /\ session[UserOf[run.conn]] = None
  BY <1>1 DEF HubInv, MapsAgree
<1>3. \A s \in Sids : life[s] # "joining"
  BY DEF HubInv, RunInv
<1>4. ASSUME NEW s \in Sids, peerUser[s] = UserOf[run.conn]
      PROVE  s \in condemned
  BY <1>2, <1>3, <1>4 DEF HubInv, SessionsInv, NoLeakedPeer, Peers
<1> QED
  BY <1>1, <1>3, <1>4 DEF MayJoin

(* The hub calls the router as SfuSessions asks: it joins for a user only  *)
(* after giving up all the user's earlier sessions, one Join at a time,    *)
(* gives up only live sessions, and leaves only sessions given up.         *)
THEOREM HubUsesRouterProperly == Spec => UsesRouterProperly
<1>1. Init => SessionsInit
  BY DEF Init
<1>2. VoiceInv /\ [Next]_vars => [SessionsNext]_sessionVars
  <2> SUFFICES ASSUME TypeOK, HubInv, Next PROVE [SessionsNext]_sessionVars
    BY DEF VoiceInv, HubInv, vars, sessionVars
  <2>1. ASSUME NEW u \in Users, NEW l, LeaveVoice(u, l), UNCHANGED peerVars
        PROVE  [SessionsNext]_sessionVars
    <3>1. condemned' = condemned \cup ({session[u]} \ {None})
      BY <2>1, LeaveVoiceEffect
    <3>2. CASE session[u] = None
      BY <2>1, <3>1, <3>2 DEF peerVars, sessionVars
    <3>3. CASE session[u] # None
      <4>1. session[u] \in Sids /\ life[session[u]] = "live"
        BY <3>3 DEF TypeOK, HubInv, HubSessionLive
      <4>2. Condemn(session[u])
        BY <2>1, <3>1, <3>3, <4>1 DEF Condemn, peerVars
      <4> QED
        BY <4>1, <4>2 DEF SessionsNext
    <3> QED
      BY <3>2, <3>3
  <2>2. ASSUME NEW s \in Sids, RunJoin(s) PROVE SessionsNext
    BY <2>2, RunMayJoin, ConnAssumption DEF RunJoin, SessionsNext
  <2>3. ASSUME RunSet PROVE SessionsNext
    BY <2>3 DEF RunSet, SessionsNext, HubInv, RunInv
  <2>4. ASSUME NEW s \in Sids, Leave(s) \/ LeaveReturns(s) PROVE SessionsNext
    BY <2>4 DEF SessionsNext
  <2> QED
    BY <2>1, <2>2, <2>3, <2>4, StepKinds
<1> QED
  BY <1>1, <1>2, VoiceInvHolds, PTL DEF Spec, UsesRouterProperly, SessionsSpec

(* Every user's calls follow one another as VoiceCall says: each session   *)
(* serves one call of one user, and none comes back after it has ended.    *)
THEOREM HubImplementsCalls == Spec => ImplementsCalls
<1> USE DEF Calls!callVars
<1>1. Init => Calls!CallInit
  BY DEF Init, SessionsInit, Calls!CallInit, Calls!NoCall, Call
<1>2. VoiceInv /\ [Next]_vars => [Calls!CallNext]_(Calls!callVars)
  <2>1. ASSUME UNCHANGED <<sessionVars, session, channel>> PROVE UNCHANGED Calls!callVars
    BY <2>1 DEF sessionVars, Call
  <2>2. ASSUME UNCHANGED vars PROVE UNCHANGED Calls!callVars
    BY <2>1, <2>2 DEF vars, voiceVars
  <2> SUFFICES ASSUME TypeOK, HubInv, Next PROVE [Calls!CallNext]_(Calls!callVars)
    BY <2>2 DEF VoiceInv, HubInv
  <2>3. ASSUME NEW u \in Users, NEW l, LeaveVoice(u, l)
        PROVE  [Calls!CallNext]_(Calls!callVars)
    <3>1. /\ channel'[u] = None
          /\ \A v \in Users : v # u => channel'[v] = channel[v] /\ session'[v] = session[v]
          /\ condemned' = condemned \cup ({session[u]} \ {None})
      BY <2>3, LeaveVoiceEffect
    <3>2. session'[u] = None
      BY <2>3, LeaveVoiceEffect
    <3>3. Call' = [Call EXCEPT ![u] = [ch |-> None, sid |-> None]]
      BY <3>1, <3>2 DEF Call
    <3>4. CASE channel[u] = None
      <4>1. session[u] = None
        BY <3>4 DEF HubInv, MapsAgree
      <4>2. Call' = Call
        BY <3>3, <3>4, <4>1 DEF Call
      <4> QED
        BY <3>1, <4>1, <4>2
    <3>5. CASE channel[u] # None
      <4>1. session[u] # None
        BY <3>5 DEF HubInv, MapsAgree
      <4>2. Call[u] = [ch |-> channel[u], sid |-> session[u]]
        BY DEF Call
      <4>3. Calls!Exit(u)
        BY <3>1, <3>3, <3>5, <4>1, <4>2 DEF Calls!Exit, Calls!NoCall
      <4> QED
        BY <4>3 DEF Calls!CallNext
    <3> QED
      BY <3>4, <3>5
  <2>4. ASSUME NEW s \in Sids, RunJoin(s) PROVE UNCHANGED Calls!callVars
    BY <2>4 DEF RunJoin, Join, voiceVars, Call
  <2>5. ASSUME RunSet PROVE Calls!CallNext
    <3> DEFINE u == UserOf[run.conn]
               s == run.sid
    <3>1. /\ run.conn \in Conns /\ u \in Users /\ s \in Sids /\ run.ch \in Channels
          /\ life[s] = "joining"
          /\ channel[u] = None /\ session[u] = None
          /\ session' = [session EXCEPT ![u] = s]
          /\ channel' = [channel EXCEPT ![u] = run.ch]
          /\ UNCHANGED condemned
      BY <2>5, ConnAssumption DEF RunSet, JoinReturns, HubInv, RunInv, MapsAgree
    <3> HIDE DEF u, s
    <3>2. s \notin condemned /\ \A v \in Users : session[v] # s
      BY <3>1, NoneIsNotAnId DEF HubInv, SessionsInv, HubSessionLive
    <3>3. Call' = [Call EXCEPT ![u] = [ch |-> run.ch, sid |-> s]]
      BY <3>1 DEF Call, TypeOK
    <3>4. Calls!Enter(u, run.ch, s)
      BY <3>1, <3>2, <3>3 DEF Calls!Enter, Calls!NoCall, Call
    <3> QED
      BY <3>1, <3>4 DEF Calls!CallNext
  <2>6. ASSUME NEW s \in Sids, Leave(s) \/ LeaveReturns(s), UNCHANGED <<session, channel>>
        PROVE  UNCHANGED Calls!callVars
    BY <2>6 DEF Leave, LeaveReturns, Call
  <2> QED
    BY <2>1, <2>3, <2>4, <2>5, <2>6, StepKinds
<1> QED
  BY <1>1, <1>2, VoiceInvHolds, PTL DEF Spec, ImplementsCalls, Calls!CallSpec
=============================================================================
