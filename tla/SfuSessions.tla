------------------------------ MODULE SfuSessions ------------------------------
(***************************************************************************)
(* What the SFU router promises about sessions, and what it asks of the    *)
(* hub (internal/service/sfu/router.go): the map r.peers and the life of   *)
(* its entries, without rooms.                                             *)
(*                                                                         *)
(*   "unborn"   no such session yet                                        *)
(*   "joining"  in r.peers, Join has not returned                          *)
(*   "live"     in r.peers, Join has returned                              *)
(*   "leaving"  deleted from r.peers, Leave has not returned               *)
(*   "gone"     Leave has returned                                         *)
(*                                                                         *)
(* SfuRouter implements this module; VoiceSession is built on it.          *)
(***************************************************************************)
CONSTANTS
    Users,      \* user IDs
    Channels,   \* voice channel IDs
    Sids,       \* session IDs: uuid.NewString never repeats, so a pool of fresh ones
    None        \* Go's missing map entry or nil pointer

ASSUME NoneIsNotAnId ==
    /\ None \notin Users
    /\ None \notin Channels
    /\ None \notin Sids

VARIABLES
    life,         \* Sids -> where the session is in its life
    peerUser,     \* Sids -> Peer.userID
    peerChannel,  \* Sids -> Peer.channelID
    condemned     \* sessions somebody has given up: Leave is, or will be, called

sessionVars == <<life, peerUser, peerChannel, condemned>>

SessionsTypeOK ==
    /\ life \in [Sids -> {"unborn", "joining", "live", "leaving", "gone"}]
    /\ peerUser \in [Sids -> Users \cup {None}]
    /\ peerChannel \in [Sids -> Channels \cup {None}]
    /\ condemned \in SUBSET Sids

SessionsInit ==
    /\ life = [s \in Sids |-> "unborn"]
    /\ peerUser = [s \in Sids |-> None]
    /\ peerChannel = [s \in Sids |-> None]
    /\ condemned = {}

(* r.peers: what peerBySession and LiveSessions see. *)
Peers == {s \in Sids : life[s] \in {"joining", "live"}}

(* Join enters a fresh session in r.peers, and returns. *)
Join(s, u, ch) ==
    /\ life[s] = "unborn"
    /\ life' = [life EXCEPT ![s] = "joining"]
    /\ peerUser' = [peerUser EXCEPT ![s] = u]
    /\ peerChannel' = [peerChannel EXCEPT ![s] = ch]
    /\ UNCHANGED condemned

JoinReturns(s) ==
    /\ life[s] = "joining"
    /\ life' = [life EXCEPT ![s] = "live"]
    /\ UNCHANGED <<peerUser, peerChannel, condemned>>

(* A goroutine has decided to leave s, and will call Leave(s). *)
Condemn(s) ==
    /\ life[s] = "live"
    /\ condemned' = condemned \cup {s}
    /\ UNCHANGED <<life, peerUser, peerChannel>>

(* Leave deletes the session from r.peers: of several calls, one does it,  *)
(* the others find nothing and return.                                     *)
Leave(s) ==
    /\ life[s] = "live"
    /\ s \in condemned
    /\ life' = [life EXCEPT ![s] = "leaving"]
    /\ UNCHANGED <<peerUser, peerChannel, condemned>>

LeaveReturns(s) ==
    /\ life[s] = "leaving"
    /\ life' = [life EXCEPT ![s] = "gone"]
    /\ UNCHANGED <<peerUser, peerChannel, condemned>>

(* The router's one user is the hub.  Join is only called from Hub.Run,    *)
(* hence one at a time, and for a user whose earlier sessions are given up *)
(* (joinVoiceChannel leaves the old call first).                           *)
MayJoin(u) ==
    /\ \A s \in Sids : life[s] # "joining"
    /\ \A s \in Sids : peerUser[s] = u => s \in condemned

SessionsNext ==
    \/ \E s \in Sids, u \in Users, ch \in Channels : MayJoin(u) /\ Join(s, u, ch)
    \/ \E s \in Sids : JoinReturns(s) \/ Condemn(s) \/ Leave(s) \/ LeaveReturns(s)

SessionsSpec == SessionsInit /\ [][SessionsNext]_sessionVars
=============================================================================
