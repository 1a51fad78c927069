------------------------------- MODULE SfuRouter -------------------------------
(***************************************************************************)
(* The SFU router's bookkeeping of sessions and rooms                      *)
(* (internal/service/sfu/router.go and room.go).                           *)
(*                                                                         *)
(* Router.Join and Router.Leave are not atomic: each releases r.mu before  *)
(* it touches the Room, which has a lock of its own.  Every critical       *)
(* section (r.mu or room.mu) is one action here, and the progress of the   *)
(* call that is working on a session is kept with the session:             *)
(*                                                                         *)
(*   "unborn"    no such session yet                                       *)
(*   "joining"   in r.peers, room.add still to come                        *)
(*   "live"      in r.peers, Join has returned                             *)
(*   "removing"  deleted from r.peers, room.remove still to come           *)
(*   "removed"   out of its room, the first room.isEmpty still to come     *)
(*   "reclaim"   saw the room empty, about to take r.mu for the re-check   *)
(*   "closing"   about to call peer.close                                  *)
(*   "gone"      Leave has returned                                        *)
(*                                                                         *)
(* A Room is an object: a room deleted from r.rooms is closed but whoever  *)
(* holds a pointer to it can still use it, so rooms have identities of     *)
(* their own (Rids) and members[r] is the peers map of room object r.      *)
(***************************************************************************)
CONSTANTS
    Users,      \* user IDs
    Channels,   \* voice channel IDs
    Sids,       \* session IDs: uuid.NewString never repeats, so a pool of fresh ones
    Rids,       \* Room objects, a pool of fresh ones
    None        \* Go's missing map entry / nil pointer

ASSUME NoneIsNotAnId ==
    /\ None \notin Users
    /\ None \notin Channels
    /\ None \notin Sids
    /\ None \notin Rids

VARIABLES
    stage,        \* Sids -> how far Join or Leave has come with the session
    peerUser,     \* Sids -> Peer.userID
    peerChannel,  \* Sids -> Peer.channelID
    peerRoom,     \* Sids -> Peer.room, the object Join looked up
    leaveRoom,    \* Sids -> Leave's local: the room it read from r.rooms
    rooms,        \* r.rooms: Channels -> the current room object
    members,      \* Room.peers: Rids -> (Users -> session of the peer stored)
    roomState,    \* Rids -> "unborn", "open", or "closed" once stopCh is closed
    condemned,    \* sessions for which somebody has decided to call Leave
    crashed       \* a panic nobody recovers has ended the process

routerVars == <<stage, peerUser, peerChannel, peerRoom, leaveRoom, rooms,
                members, roomState, condemned, crashed>>

Stages == {"unborn", "joining", "live", "removing", "removed", "reclaim",
           "closing", "gone"}

RouterTypeOK ==
    /\ stage \in [Sids -> Stages]
    /\ peerUser \in [Sids -> Users \cup {None}]
    /\ peerChannel \in [Sids -> Channels \cup {None}]
    /\ peerRoom \in [Sids -> Rids \cup {None}]
    /\ leaveRoom \in [Sids -> Rids \cup {None}]
    /\ rooms \in [Channels -> Rids \cup {None}]
    /\ members \in [Rids -> [Users -> Sids \cup {None}]]
    /\ roomState \in [Rids -> {"unborn", "open", "closed"}]
    /\ condemned \in SUBSET Sids
    /\ crashed \in BOOLEAN

RouterInit ==
    /\ stage = [s \in Sids |-> "unborn"]
    /\ peerUser = [s \in Sids |-> None]
    /\ peerChannel = [s \in Sids |-> None]
    /\ peerRoom = [s \in Sids |-> None]
    /\ leaveRoom = [s \in Sids |-> None]
    /\ rooms = [ch \in Channels |-> None]
    /\ members = [r \in Rids |-> [u \in Users |-> None]]
    /\ roomState = [r \in Rids |-> "unborn"]
    /\ condemned = {}
    /\ crashed = FALSE

(* r.peers: what peerBySession and LiveSessions see. *)
Peers == {s \in Sids : stage[s] \in {"joining", "live"}}

IsEmpty(r) == \A u \in Users : members[r][u] = None

-----------------------------------------------------------------------------
(* The critical section of Join under r.mu: find or create the channel's   *)
(* room, build the peer with a pointer to it, enter it in r.peers.         *)
JoinPeers(s, u, ch) ==
    /\ stage[s] = "unborn"
    /\ \E r \in Rids :
         /\ \/ rooms[ch] = r /\ UNCHANGED <<rooms, roomState>>
            \/ /\ rooms[ch] = None
               /\ roomState[r] = "unborn"
               /\ rooms' = [rooms EXCEPT ![ch] = r]
               /\ roomState' = [roomState EXCEPT ![r] = "open"]
         /\ peerRoom' = [peerRoom EXCEPT ![s] = r]
    /\ stage' = [stage EXCEPT ![s] = "joining"]
    /\ peerUser' = [peerUser EXCEPT ![s] = u]
    /\ peerChannel' = [peerChannel EXCEPT ![s] = ch]
    /\ UNCHANGED <<leaveRoom, members, condemned, crashed>>

(* room.add, after r.mu was released: stored under the USER's ID.          *)
JoinAdd(s) ==
    /\ stage[s] = "joining"
    /\ members' = [members EXCEPT ![peerRoom[s]][peerUser[s]] = s]
    /\ stage' = [stage EXCEPT ![s] = "live"]
    /\ UNCHANGED <<peerUser, peerChannel, peerRoom, leaveRoom, rooms, roomState,
                   condemned, crashed>>

(* Bug: no early return for a session that is not in r.peers any more.     *)
LeavePeersTwice(s) ==
    /\ stage[s] \in {"live", "gone"}
    /\ leaveRoom' = [leaveRoom EXCEPT ![s] = rooms[peerChannel[s]]]
    /\ stage' = [stage EXCEPT ![s] =
                   IF rooms[peerChannel[s]] = None THEN "closing" ELSE "removing"]
    /\ UNCHANGED <<peerUser, peerChannel, peerRoom, rooms, members, roomState,
                   condemned, crashed>>

(* Leave's first critical section: delete from r.peers, read r.rooms.      *)
LeavePeers(s) ==
    /\ stage[s] = "live"
    /\ leaveRoom' = [leaveRoom EXCEPT ![s] = rooms[peerChannel[s]]]
    /\ stage' = [stage EXCEPT ![s] =
                   IF rooms[peerChannel[s]] = None THEN "closing" ELSE "removing"]
    /\ UNCHANGED <<peerUser, peerChannel, peerRoom, rooms, members, roomState,
                   condemned, crashed>>

(* room.remove(peer.userID): whatever peer is stored under that user.      *)
LeaveRemove(s) ==
    /\ stage[s] = "removing"
    /\ members' = [members EXCEPT ![leaveRoom[s]][peerUser[s]] = None]
    /\ stage' = [stage EXCEPT ![s] = "removed"]
    /\ UNCHANGED <<peerUser, peerChannel, peerRoom, leaveRoom, rooms, roomState,
                   condemned, crashed>>

(* Bug: nothing looks whether the room has become empty.                   *)
LeaveKeepsRoom(s) ==
    /\ stage[s] = "removed"
    /\ stage' = [stage EXCEPT ![s] = "closing"]
    /\ UNCHANGED <<peerUser, peerChannel, peerRoom, leaveRoom, rooms, members,
                   roomState, condemned, crashed>>

(* Bug: waits for the room to become empty.                                *)
LeaveAwaitsEmpty(s) ==
    /\ stage[s] = "removed"
    /\ IsEmpty(leaveRoom[s])
    /\ stage' = [stage EXCEPT ![s] = "reclaim"]
    /\ UNCHANGED <<peerUser, peerChannel, peerRoom, leaveRoom, rooms, members,
                   roomState, condemned, crashed>>

(* The first isEmpty, without r.mu. *)
LeaveCheckEmpty(s) ==
    /\ stage[s] = "removed"
    /\ stage' = [stage EXCEPT ![s] =
                   IF IsEmpty(leaveRoom[s]) THEN "reclaim" ELSE "closing"]
    /\ UNCHANGED <<peerUser, peerChannel, peerRoom, leaveRoom, rooms, members,
                   roomState, condemned, crashed>>

(* The re-check under r.mu: delete the channel's entry and close the room. *)
(* Room.close closes stopCh: closing it a second time panics, on a         *)
(* goroutine that has no recover.                                          *)
LeaveReclaim(s) ==
    /\ stage[s] = "reclaim"
    /\ stage' = [stage EXCEPT ![s] = "closing"]
    /\ IF IsEmpty(leaveRoom[s])
         THEN /\ rooms' = [rooms EXCEPT ![peerChannel[s]] = None]
              /\ roomState' = [roomState EXCEPT ![leaveRoom[s]] = "closed"]
              /\ crashed' = (roomState[leaveRoom[s]] = "closed")
         ELSE UNCHANGED <<rooms, roomState, crashed>>
    /\ UNCHANGED <<peerUser, peerChannel, peerRoom, leaveRoom, members, condemned>>

(* peer.close: doClose is handed to the peer's own goroutine, Leave returns. *)
LeaveClose(s) ==
    /\ stage[s] = "closing"
    /\ stage' = [stage EXCEPT ![s] = "gone"]
    /\ leaveRoom' = [leaveRoom EXCEPT ![s] = None]
    /\ UNCHANGED <<peerUser, peerChannel, peerRoom, rooms, members, roomState,
                   condemned, crashed>>

(* The steps of a Leave that has started. *)
LeaveStep(s) ==
    \/ LeaveRemove(s)
    \/ LeaveCheckEmpty(s)
    \/ LeaveReclaim(s)
    \/ LeaveClose(s)

(* Some goroutine has decided to leave s and will call Leave(s). *)
Condemn(s) ==
    /\ stage[s] = "live"
    /\ condemned' = condemned \cup {s}
    /\ UNCHANGED <<stage, peerUser, peerChannel, peerRoom, leaveRoom, rooms,
                   members, roomState, crashed>>

-----------------------------------------------------------------------------
(* The router as its one user, the hub, drives it: Join is only called     *)
(* from Hub.Run, hence one at a time, and for a user whose earlier         *)
(* sessions are all given up (joinVoiceChannel leaves the old one first).  *)
(* Leave is called from any goroutine, once a session has been given up.   *)
MayJoin(u) ==
    /\ \A s \in Sids : stage[s] # "joining"
    /\ \A s \in Sids : peerUser[s] = u => s \in condemned

RouterNext ==
    /\ ~crashed
    /\ \/ \E s \in Sids, u \in Users, ch \in Channels : MayJoin(u) /\ JoinPeers(s, u, ch)
       \/ \E s \in Sids : JoinAdd(s)
       \/ \E s \in Sids : Condemn(s)
       \/ \E s \in condemned : LeavePeers(s)
       \/ \E s \in Sids : LeaveStep(s)

RouterSafeSpec == RouterInit /\ [][RouterNext]_routerVars

(* Goroutines are scheduled fairly: a call that started is not suspended   *)
(* for ever, and Leave is called for every session somebody gave up.       *)
RouterFairness ==
    \A s \in Sids :
        /\ WF_routerVars(~crashed /\ JoinAdd(s))
        /\ WF_routerVars(~crashed /\ s \in condemned /\ LeavePeers(s))
        /\ WF_routerVars(~crashed /\ LeaveStep(s))

RouterSpec == RouterSafeSpec /\ RouterFairness

-----------------------------------------------------------------------------
(* Properties that hold.                                                   *)

(* The rooms seen from outside: what SfuSessions promises to the hub.      *)
Life == [s \in Sids |->
           IF stage[s] \in {"removing", "removed", "reclaim", "closing"}
             THEN "leaving" ELSE stage[s]]

Sessions == INSTANCE SfuSessions WITH life <- Life

(* Whatever happens to rooms, a session lives the life SfuSessions gives it. *)
ImplementsSessions == Sessions!SessionsSpec

(* The rooms that run (an active-speaker loop, members that hear each      *)
(* other) are those r.rooms hands to the next joiner: no channel has two,  *)
(* and none is handed out after its loop was stopped.                      *)
OpenRoomsAreMapped ==
    /\ \A ch \in Channels : rooms[ch] # None => roomState[rooms[ch]] = "open"
    /\ \A r \in Rids : (roomState[r] = "open" /\ ~crashed) =>
                          \E ch \in Channels : rooms[ch] = r

(* Router.Leave's double isEmpty check leaks no room: an open room that    *)
(* nobody is in has a Join about to enter it or a Leave about to reclaim   *)
(* it, so its goroutine (runActiveSpeakerLoop) always ends.                *)
NoLeakedRoom ==
    \A r \in Rids :
        (roomState[r] = "open" /\ IsEmpty(r)) =>
            \E s \in Sids : \/ stage[s] = "joining" /\ peerRoom[s] = r
                            \/ stage[s] \in {"removed", "reclaim"} /\ leaveRoom[s] = r

(* Every session given up is torn down to the end: Router.Leave returns.   *)
CondemnedLeaves ==
    \A s \in Sids : (s \in condemned) ~> (stage[s] = "gone" \/ crashed)

-----------------------------------------------------------------------------
(* The inductive invariant behind OpenRoomsAreMapped and NoLeakedRoom.     *)

(* A peer that exists has a user, a channel and a room object; one being   *)
(* left has the room its Leave found, and as long as that room is open it  *)
(* is the one r.rooms has for the channel.                                 *)
PeersInv ==
    \A s \in Sids :
        /\ stage[s] = "unborn" <=> peerUser[s] = None
        /\ stage[s] # "unborn" => /\ peerChannel[s] \in Channels
                                  /\ peerRoom[s] \in Rids
                                  /\ roomState[peerRoom[s]] # "unborn"
        /\ stage[s] \in {"removing", "removed", "reclaim"} =>
              /\ leaveRoom[s] \in Rids
              /\ roomState[leaveRoom[s]] # "unborn"
              /\ (roomState[leaveRoom[s]] = "open" /\ ~crashed) =>
                    rooms[peerChannel[s]] = leaveRoom[s]

(* No room object serves two channels. *)
RoomsInv ==
    \A ch, dh \in Channels : (rooms[ch] # None /\ rooms[ch] = rooms[dh]) => ch = dh

RouterInv ==
    /\ RouterTypeOK
    /\ OpenRoomsAreMapped
    /\ NoLeakedRoom
    /\ PeersInv
    /\ RoomsInv

=============================================================================
