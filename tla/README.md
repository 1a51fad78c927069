# A TLA+ verification of mini_discord

mini_discord is a small Discord: a Go backend (PostgreSQL, Valkey/Redis, S3, a
WebSocket hub, an SFU built on pion/webrtc, web push, link previews) and a React
frontend. This directory holds TLA+ models of its core logic, the TLC
configurations that check them on small instances, and theorems about them that
the TLA+ proof system checks for all instances.

1. [Inventory](#1-inventory): the system's parts and what makes each correct
2. [Modules](#2-modules): how state and actions correspond to the code
3. [Runs](#3-runs): what is checked, with which bounds and which fairness
4. [Proofs](#4-proofs): what is proved, and along which argument
5. [Where code and comments disagree](#5-where-code-and-comments-disagree)
6. [Not modelled](#6-not-modelled)
7. [Plan](#7-plan)

Paths below are relative to `src/internal/` unless they say otherwise; `hub.go`
is `service/server/hub.go`, and the SFU lives in `service/sfu/`.

## 1. Inventory

### Backend, voice

**Hub: voice membership** (`hub.go` 320-620, 660-760, 2070-2520). State, all
guarded by `h.mu`: `clientsByUser`, `userVoiceChannel`, `sfuSessionByUser`,
`sfuJoinedAt`, `voiceParticipants`, `sfuGraceTimers`. Operations: register a
connection (evicting the user's previous one), unregister it, join and leave a
voice channel, `handleVoiceDisconnect` and its grace timer, `handleSfuResume`,
`OnSessionClosed`, `reconcileTick`. *Interaction:* `Hub.Run` is one goroutine fed
by channels, but grace timers, the router's callbacks, evicted clients, every
`sfu_*` command and the sweep run beside it and take `h.mu` for themselves; the
hub calls `Router.Join/Leave/Detach/Resume` without holding it. *Hard:* what is
read under one hold and acted on under the next; deadlines that race with a
reconnect; commands that outlive their connection. *Correct when:* the maps agree
with each other and with the router, no peer is forgotten, no goroutine leaves a
session that is in use, every lost connection leads to a resume or a leave.

**SFU router and rooms** (`service/sfu/router.go`, `room.go`). State: `r.peers` by
session, `r.rooms` by channel (under `r.mu`), each room's `peers` by user (under
`room.mu`) and its active-speaker goroutine. Operations: `Join`, `Leave`,
`Detach`, `Resume`, `HandleOffer/Answer/Candidate`, `SubscribeVideo`,
`SetPublishState`, `LiveSessions`, `Close`. *Hard:* `Join` and `Leave` each hold
two locks one after the other; the last leaver reclaims the room. *Correct when:*
one running room per channel, none leaked, none closed twice or entered after
closing, every `Leave` ends.

**SFU peers and tracks** (`service/sfu/peer.go`, `track.go`). State of a peer, owned
by its one goroutine: the PeerConnection, `negotiating`, `renegotiatePending`,
`detached`, `published`, `subs`; a command queue of 32. Each published track keeps
its subscribers under a lock. *Interaction:* peers tell each other to subscribe
and unsubscribe through their queues; pion calls `OnTrack` and state changes from
its own goroutines; offers and answers travel through the WebSocket, each
`sfu_*` command on a goroutine of its own. *Hard:* the server is meant to be the
only offerer after the client's first offer, one negotiation at a time; offers
and answers are lost with the WebSocket; a full queue drops commands, silently
but for a log line. *Correct when:* every change of a peer's subscriptions is
eventually offered, no negotiation is stuck, everyone in a room hears everyone,
a peer that has left gets and feeds nothing.

**Simulcast, loss, active speakers** (`simulcast.go`, `activespeaker.go`,
`track.go`). Per-subscriber layer choice with hysteresis, an RTP rewriter with
16- and 32-bit arithmetic, the loudest speaker of a room. *Hard:* two sources of
layer requests and two holds of one lock; wrap-around. *Correct when:* the newest
request wins, sequence numbers stay continuous across switches.

### Backend, everything else

**Hub: event delivery** (`hub.go` 440-526, 1000-1070, `client.go`). A bounded `Outbound`
queue per client, filled by `Hub.Run` and by goroutines beside it under a read hold of
`h.mu`, emptied by the client's writer, closed by `Hub.Run` under a write hold. Ordinary
events are dropped when it is full, critical voice events close the connection. *Hard:* the
connection that is cut off is in everybody's hands; a send on a closed channel is a panic.
*Correct when:* no client stays connected with a wrong picture of a call, nobody sends on a
closed queue, who is cut off can come back.

**Hub: commands** (`hub.go` 760-1000, 1400-2070): servers, channels, messages,
attachments, typing, unread state, DMs. *Hard:* messages with one-shot
attachments and a compensating delete; typing indicators across disconnects.

**Direct messages** (`storage/postgresql/dm.go`): one channel per pair in spite of
concurrent opens, hide and reveal.

**Storage with cache and single flight** (`storage/postgresql/user.go`,
`storage/cache`, `storage/single_flight`): read-through cache with invalidation,
shared loads. *Hard:* a slow read writes back what an update has invalidated; the
first caller's context is everybody's.

**Notifications and unread** (`storage/postgresql/notifications.go`): cursors that
should only move forward.

**Web push** (`service/push/sender.go`): a bounded queue, one aggregation window
per user and channel.

**Link previews** (`service/embed`): a job queue, three cache tiers, a
single-flight group, tokens for proxied images.

**Rate limiting** (`middleware/token_bucket.go`), **shutdown** (`lib/closer`),
**accounts, auth, mail, HTTP routes, object storage**: small or stateless.

### Frontend (`src/frontend/src/`)

JavaScript runs one task at a time, so nothing is torn; what interleaves is what
happens between two `await`s, two timers, two events, or a state update and the
render that makes it visible.

**ChatSocket** (`services/chatSocket.ts`): one pending command at a time, a queue
behind it, timeouts, reconnect. *Hard:* most answers carry no request id and are told
apart by their order; answers after the timeout; events that share a topic with an
answer. *Correct when:* an answer settles the command it is for, every call settles,
a lost connection comes back.

**Calls** (`services/sfuCallClient.ts` 190-690 and 950-1010, `hooks/useVoice.ts`): join,
leave, resume or rejoin when the WebSocket returns, a recovery loop with generations.
*Hard:* all of these may be under way at once, and every `await` may find the call
gone. *Correct when:* a left call stays left, nothing captured or connected gets out
of reach, a session that is dead is given up.

**Local media** (`sfuCallClient.ts` 1010-1340, `services/localCapture.ts`): the tracks of
microphone, camera and screen, noise suppression with a processing graph and
fallbacks, camera flip. *Correct when:* the muted are silent, a left call holds no
device, what is announced is what is sent.

**Remote video** (`sfuCallClient.ts` 690-950): subscriptions per user and source, debounce,
layers by active speaker, tiles. *Correct when:* a tile shows what is published, in the
right layer.

**Roster** (`useVoice.ts` 180-320, 560-641), **quality badge**
(`services/connectionQuality.ts`): who is in the call and in trouble, and how good the
connection is.

**Messages** (`hooks/useMessages.ts`, `components/MessageList.tsx`, `MessageInput.tsx`),
**unread state** (`hooks/useUnread.ts`): a tail or a window of a channel, walked by pages
while live messages come in; edits, drafts, uploads, recordings; coalesced read marks.

**Servers, conversations, search, typing** (`hooks/useServers.ts`, `useDMs.ts`,
`useMessageSearch.ts`, `useTypingEmitter.ts`, `useTypingIndicator.ts`): lists that several
requests, events and clicks write at once.

**Notifications and sign-in** (`services/notifications/`, `useNotificationSettings.ts`,
`services/authToken.ts`): one tab of many plays sounds, the rules exist once for a tab and
once for the server, push subscriptions are asynchronous and outlive a sign-out.

**Player, overlays** (`hooks/useMediaPlayer.ts`, `hooks/useBackDismiss.ts`): a media element
and an audio graph behind one volume; one history entry per overlay.

`PROJECT.json` lists each part with its status, and every hazard with the line at
which it bites.

## 2. Modules

```
   VoiceCall   <--- implements ---  VoiceSession  --- EXTENDS -->  SfuSessions
  (calls as users                   (the hub)                     (the router, as the
   know them)                                                      hub sees it)
                                                                        ^
                                     SfuRouter  ---- implements --------+
                                     (rooms and locks)

   SfuPeer     (the peers of one room: queues, negotiation, subscriptions)

   ChatSocket     (the frontend's connection: one command at a time)
   CallControl    (a client's calls: join, leave, resume, recover)

   MCMediaViews = LocalMedia | RemoteVideo | Quality | Player | Overlays
   MCChatViews  = MessageView | ReadMarks | Edits | Composer | NotifyRules | Tabs
                | HubDelivery  (the hub's events on their way to a connection)
   MCPeopleViews = ServerList | Conversations | Search | Account | VoiceRoster | Typing
```

| module | what it models |
|---|---|
| `SfuSessions` | the router as the hub relies on it: the life of a session, and what the router supposes of its caller |
| `SfuRouter` | `router.go` and `room.go`: every critical section of `Join` and `Leave`, rooms as objects with identities |
| `VoiceCall` | abstract: a user is in one call or none, each through a session of its own |
| `VoiceSession` | `hub.go`, `client.go`: voice membership, each goroutine with its own program counter |
| `SfuPeer` | `peer.go`, `track.go`, and the half of `router.go` that feeds them, with `sfuCallClient.ts` at the other end of a WebSocket that may be lost |
| `HubDelivery` | `pushToUsers`, `pushEvent`, `enqueueEvent` and `Run` of `hub.go`, with the reader and the writer of `client.go`: the `Outbound` queues |
| `ChatSocket` | `chatSocket.ts`, with the effect of `useServers.ts` that owns it and the hub at the other end |
| `CallControl` | the parts of `sfuCallClient.ts` and `useVoice.ts` that enter, keep and leave a call, with the hub's membership as seen by one user |
| `LocalMedia` | `localCapture.ts` and the part of `sfuCallClient.ts` that sends tracks |
| `RemoteVideo` | the part of `sfuCallClient.ts` that shows another user's camera and screen, with the hub's announcements and the peers' layers |
| `VoiceRoster` | participants and dimmed tiles of `useVoice.ts`, with the hub's events and snapshots |
| `Quality` | `connectionQuality.ts` and its monitor |
| `MessageView` | the list of `useMessages.ts`, with the hub's page queries |
| `Edits` | the editor of `MessageList.tsx`, the hub's `editMessage`, the list and the quotes |
| `Composer` | `MessageInput.tsx`: submits and voice recordings |
| `ReadMarks` | `useUnread.ts`, the hub's `mark_read` and `get_unread` |
| `ServerList` | `useServers.ts`, the hub's answers and voice events |
| `Conversations` | `useDMs.ts` over the rows of `dm.go` |
| `Search` | `useMessageSearch.ts` and `SearchPanel.tsx` |
| `Typing` | `useTypingEmitter.ts`, the hub's `handleTyping`, `useTypingIndicator.ts` |
| `NotifyRules` | `rules.ts`, `useNotificationSettings.ts`, and the policy of `push/sender.go` |
| `Tabs` | `notifications/leader.ts` |
| `Account` | `notifications/push.ts`, `authToken.ts`, sign-in and sign-out |
| `Player` | `useMediaPlayer.ts`, `playlistService.ts` |
| `Overlays` | `useBackDismiss.ts` over a browser's history |
| `MCVoiceSession`, `MCSfuPeer`, `MCChatSocket`, `MCCallControl` | who owns which connection, a speaker and a listener, which command is answered how |
| `MCMediaViews`, `MCChatViews`, `MCPeopleViews` | parts side by side: those of the frontend and, with the messages, `HubDelivery` |
| `VoiceSessionProofs`, `SfuPeerProofs`, `CallControlProofs`, `MessageViewProofs` | theorems and proofs about one module each |
| `ChatSocketProofs` | the same for both ends of a connection, `ChatSocket` and `HubDelivery` |
| `MediaProofs` | the same for `SfuRouter`, `LocalMedia`, `RemoteVideo`, `Quality`, `Player`, `Overlays` |
| `ChatProofs` | the same for `ReadMarks`, `Edits`, `Composer`, `NotifyRules`, `Tabs` |
| `PeopleProofs` | the same for `ServerList`, `Conversations`, `Search`, `Account`, `VoiceRoster`, `Typing` |

**Side by side.** The last three MC modules check parts that share no state. A variable
`part`, chosen in the initial state and never changed, says which part the behaviour is
of; the others keep their initial state. So a run has the sum of the parts' states and
not their product, every part is explored as if it were alone, and a part with several
initial states has them only in behaviours of its own.

**History variables.** Where the code leaves a hole that no property could survive (section
5 lists them), a Boolean with a name of its own (`strayed`, `raced`, `broken`, `crossed`,
...) records that the situation has arisen, as narrowly as the model can tell it, and
the property excepts exactly that. No guard reads one.

Lines of the source for every definition are in `PROJECT.json` under `map`.

### SfuRouter

`stage[s]` is the progress of the one `Join` or `Leave` that is working on session
`s`; each value is a point between two critical sections. `JoinPeers` is the part
of `Join` under `r.mu`, `JoinAdd` is `room.add`; `LeavePeers`, `LeaveRemove`,
`LeaveCheckEmpty`, `LeaveReclaim`, `LeaveClose` are the five parts of `Leave`. Rooms
have identities (`Rids`) because a pointer to a room outlives its entry in
`r.rooms`. `crashed` records the panic of a second `close(stopCh)`: the `go`
statements and timers that call `Leave` have no `recover`.

Environment: the hub calls `Join` from `Hub.Run` alone, one at a time, and only for
a user whose earlier sessions it has given up (`MayJoin`). That this is how the
hub behaves is not assumed: `VoiceSession` is shown to satisfy it
(`UsesRouterProperly`).

### VoiceSession

One action per critical section. A goroutine's position and its locals are the
value of a variable:

| goroutine | variable | actions |
|---|---|---|
| `Hub.Run` | `run` | `Register`, `Unregister`, `TakeJoinOrLeave`, `RunLeaveReturns`, `RunJoin`, `RunJoinFails`, `RunSet`, `TakeResume`, `RefuseJoin`, `RunDiscReturns` |
| `handleVoiceDisconnect`, its timer, `expireVoiceSession` | `loss[c]` | `DiscRead`, `DiscDetach`, `DiscArm`, `DiscLeave`, `TimerFires`, `ExpireCheck`, `ExpireLeave` |
| `handleSfuResume` | `resume[c]` | `ResumeCheck`, `ResumeRouter`, `ResumeStop`, `ResumeExpireCheck`, `ResumeExpireLeave` |
| `OnSessionClosed` | `media[s]` | `NotifyCheck`, `NotifyLeave` |
| `reconcileTick` | `sweep` | `SweepRouter`, `SweepHub`, `SweepSuspect`, `SweepOrphan`, `SweepLeaveReturns`, `SweepDone` |
| `Router.Leave` inside any of them | `life[s]`, `condemned` | `RouterLeave` |

`LeaveVoice(u, l)` is the one hold of `h.mu` in `leaveVoiceChannelInternal`, shared by
all of them. It takes a *user*, and that is where the races come from. The
`Router.Leave` that follows is a step of its own; a goroutine that must wait for it
(`Hub.Run`, the sweep) does.

Environment: connections open and are lost, gracefully or not; clients send
commands, which wait in the reader or the `Commands` buffer and may be executed
after their connection is gone; clients negotiate media; PeerConnections die.

Abstractions: `sfuJoinedAt` is the set `aged` of sessions at least one
`ReconcileInterval` old; mic and deafen state and all broadcasts are left out,
since no decision of these operations reads them; a channel that does not exist
or may not be entered, and a storage error, are `RefuseJoin`.

### SfuPeer

A peer's state belongs to its goroutine, which runs one command at a time, so one
command is one action (`RunHello` is `handleOffer` with `autoSubscribeToExisting`,
`RunTrack` is `handleOnTrack`, `RunClose` is `doClose`, and so on); everything that
`enqueue`s is an action of the caller. What is shared has locks of its own and
changes at a single point of a command: a track appears in `published` before its
publisher looks for listeners, so a peer that looks for tracks in the middle of
that finds it and is told of it again, which changes nothing. `neg[p]` holds the
three flags (`active` is `negotiating`, `pending` is `renegotiatePending`,
`detached`), the signaling state of the PeerConnection, and, as SDP is not
modelled, the subscriptions that the latest offer describes. Each of `SendOffer`,
`Schedule`, `Answered`, `Marked`, `Cleared` is the function of that name in
`peer.go` and gives the set of its outcomes: whether pion takes a second local
offer while one is outstanding, and whether an answer to an offer given up is
taken for one to the latest, are left open.

`wire[p]` is what travels between the client and the queue. The server's messages
to a client stay in order; the client's commands do not, since the hub handles
each `sfu_*` command on a goroutine of its own. A lost WebSocket takes all of the
server's messages and any of the client's. `Detach` follows a loss at any later
time, and `Resume` follows `Detach`.

Tracks are objects of one peer; `listeners` (a track's `subs`) and the keys of
`subs` go by user, as in the code, and do not tell a user's successive peers
apart.

Environment: a user's next peer joins after the last has left the room (see
`VoiceSession`); an eviction's late `Detach`, which may follow the `Resume`, is left
to `VoiceSession`; a client asks for video of others only, as the frontend does;
`AddTrack` and codec errors, which leave a peer unsubscribed, do not occur. ICE
candidates, announced publish states, key frames and layers are left out: no
decision modelled here reads them.

### HubDelivery

An event is a number: 0 is an ordinary one, n the n-th critical one meant for the
connection, whether or not it got into the queue. A push by a goroutine p (`Hub.Run` or one of
`Others`: callbacks of the SFU, searches, timers, readers that refuse a command) holds `h.mu` for
reading from `BeginPush` until its last recipient is served, and serves one recipient at a time:
`Enqueue`, `Drop`, or `FindFull` and, after whatever others do meanwhile, `CloseFull`. `Hub.Run` takes a
client from its channel (`TakeRegister`, `TakeUnregister`) and then waits for the write hold in
which it replaces, removes and closes (`RegisterClient`, `UnregisterClient`); while it waits no
new push begins, as with `sync.RWMutex`. `Greet` is the "connected" it pushes after. The writer takes an event in one
step (`TakeEvent`) and has it written or fails in another; a write counts as seen if the socket is
still open. Environment: clients dial, once per connection, and hang up; the network
cuts a connection at any time. What a removal leads to in the call is in `VoiceSession`.

### ChatSocket

`outcome[c]` is what became of a call of `sendCommand`: waiting, answered (and by
what), failed, timed out, closed, refused. `Issue` is `sendCommand`, `FlushQueue` sends the
head of the queue and arms its timer, `DeliverAnswer` is `onmessage` with its branches
(`error`, `ack`, a typed event), `OnOpen`, `OnClose`, `ConnectFails`, `Reconnect` and `Close` are
the life of the WebSocket. `Kind[c]` is how the hub answers `c`: on its Run loop without a
request id (`loop`), from a goroutine with one (`off`), or by an event that is also
broadcast (`typed`). `IssueRefused` and `promise = "poisoned"` are the throw of `resolveWsUrl`
inside the promise executor. The hub may answer, refuse, or not answer at all.

### CallControl

Every call of an async function of `SfuCallClient` or of a handler in `useVoice` is a
process: `Users` are clicks, `Nets` returns of the WebSocket, `Loops` recoveries. `at[p]`
is the await it has reached, and what follows that await is one action: `Joined`,
`Refused`, `Offered`, `Left`, `Resumed`, `NotResumed`, `Acquire`, `Wake`. The commands share
`cmds`, the queue of `ChatSocket`. `pcs` are the peer connections that are open,
`fresh` the loops whose `recoveryGeneration` is still current. The hub is what it is to
one user: `member`, the session it has, with `HubJoins`, `HubLeaves`, `HubTakesOther`
(resume and the rest) and `HubEnds`, after which a `sfu_session_closed` is on its way.

### The parts of a call

`LocalMedia` numbers tracks, captures and peer connections, so that an async function that
returns can be told from the call it was made for (`job[j]` is where it waits and what it
remembers). `RemoteVideo` has the hub's events in order on one path and the tracks that
offers bring on another; `want` is the layer the server feeds, `asks` are the
subscriptions under way. `RemoteLeaves` ends a session and tells nobody: what the listener is to hear of
it (`untold`: the end of each track, by the closing peer's goroutine, and `voice_user_left`,
by whoever has read the storage for it) and the feeds its own peer has still to end (`ending`) follow
in any order, at any later time, also after the user has joined again. `TrackArrives`
announces a source whatever its publish state, as `handleOnTrack` does. `VoiceRoster` gives
`handleVoiceDisconnect`, a resume and a leave of the peer a step each for what they change and for
what they push. `polled` says where the first snapshot stands that the hub *read* after the
last change of who is in: not yet taken, taken, shown; nothing of it looks at what the list shows.
`Quality` keeps all trackers made, since `getStats()` may answer for an old one.

### The parts of a chat

`MessageView`: ids are given in order, a page is computed by `GetMessages`,
`GetMessagesAfter`, `GetMessagesAround`; pages of jumps and of scrolling down are read beside
the Run loop (`ReadAside`, `AnswerAside`), so a live message may pass them. `pageSeen` is
what the last render knew. `Edits` has two messages, one quoting the other, and the three
orders in which an acknowledgement, an event and a page can come. `Composer` numbers texts,
files and submits; a submit is a closure over what it saw. `ReadMarks` keeps both directions of the
connection in order, the throttle and its timer, and counts; the hub may fail a `get_unread`, which
`useUnread` swallows. In both a message may find the client's queue full (`enqueueEvent`): its place in
the stream stays, with nothing in it (`lost`, `dropped`), which is what lets the models say
what has been missed. `ServerList`
has one other user joining and leaving voice channels and several syncs under way; a leaving is
told later than it happens (`departing`), and a snapshot is pushed later than it is read (`held`), with
room for a leaving's push in between; `deleted` are the ids that storage
will not give again, `Possible` is what it does not refuse, `Making` is `isCreatingServerRef`.
`Conversations` names a conversation by its peer. `Search`'s page is `<<search,
number>>`. `Typing`'s time goes in seconds. `NotifyRules` evaluates both
implementations on every message. `Tabs` keeps the module's state across a
dispose. `Account`'s flows are calls of `subscribeToPush` and `unsubscribeFromPush`, and a
request takes the token stored when it is sent. `Player` runs the effects that follow a
change of state in the same action; `Overlays` has a browser whose traversals happen later.

## 3. Runs

All runs set `CHECK_DEADLOCK FALSE`: clients may stop asking, users stop clicking, and the
pools of sessions, rooms, messages and losses run out.

| run | instance | checks | shows |
|---|---|---|---|
| `SfuRouter` | 2 users, 2 channels, 3 sessions, 2 rooms | `NoLeakedRoom`, `ImplementsSessions`, `CondemnedLeaves` | a joiner against two leavers, a room reclaimed under a joiner's feet, rooms of two channels |
| `VoiceEvict` | 1 user, 2 connections, 2 sessions, 2 commands | `EveryLossHandled`, `ImplementsCalls`, `UsesRouterProperly` | evictions, two losses, resumes by a later connection, a rejoin |
| `VoiceSweep` | 1 user, 1 connection, 2 sessions, 2 commands, sweep on | `SessionsMatchPeers`, `SweepRepairsDeadMedia` | the sweep's two snapshots against joins, leaves, a rejoin and all other goroutines |
| `VoiceGrace` | 1 user, 2 connections, 1 session, 2 commands | `GraceEnds` | grace timers replaced, stopped, dropped from the map, fired |
| `SfuPeer` | a speaker (microphone, camera) and a listener that asks for video once and loses its WebSocket once; queues of 2 | `NegotiationSound`, `ChangesAreOffered`, `EveryoneHears` | offers, answers and subscriptions against each other, against detach and resume, full queues, teardown |
| `ChatSocket` | one command of each kind, one loss, one expiry of the token | `AnswersFindTheirCommand`, `EveryCommandSettles`, `ReconnectsWhileTokenLasts` | answers late, missing and out of order, broadcasts in between, closes, failed connects |
| `CallControl` | 2 clicks, 1 return of the WebSocket, 1 recovery loop, 2 sessions, 2 losses, waits of 2 | `LeftMeansLeft`, `NothingOrphaned`, `DeadSessionIsLeft` | joins, leaves, resumes and recoveries side by side at every await |
| `MediaViews` | 3 tracks, 2 peer connections; the other user joins, switches, sends a first packet or speaks 4 times in all and leaves at any time, 1 new session of one's own; 2 trackers, 2 readings; 3 tracks to play; 3 overlays | `MutedIsSilent`, `DevicesFollow`, `RemoteVideoSettles`, `LevelIsEarned`, `PlayerObeys`, `OneEntryEach` | what the user captures, sees, and is told of it |
| `ChatViews` | 4 messages, pages of 1, 1 loss; 3 unread messages; 2 saves; 2 drafts and 2 boxes; 1 change of settings; 2 tabs, 3 elections; 2 connections of one user, 1 goroutine that pushes beside `Hub.Run`, queues of 1, 2 pushes and the greetings | `Contiguous`, `ReadStateSettles`, `EditsAreShown`, `DraftIsPosted`, `MicReleased`, `TabAndPushAgree`, `OneLeaderAfterARound`, `NoSilentLoss`, `ClientsAreHeld` | what surrounds the messages of a channel; full queues, slow and cut off clients, evictions and removals under pushes |
| `PeopleViews` | 3 syncs, and 3 of: 1 edit, 2 moves of the other user (who is in a call at first), 1 loss, 1 refusal; 2 peers; 2 searches' inputs, 3 pages, 4 commands; 2 accounts, 3 flows; 2 sessions and 2 detaches of the peer; 2 channels to type in | `ServerListSettles`, `ConversationStays`, `DMListRight`, `ResultsAreOneSearch`, `PushIsOwn`, `RosterSettles`, `TypingIsTold` | lists that requests, events and clicks write at once |
| `DeleteIsAcked` | as `ChatViews` | `DeleteIsAcked` | violated, see section 5 |
| `RecoveryEnds` | as `CallControl` | `RecoveryEnds` | violated, see section 5 |

**Why these bounds.** *Backend.* The goroutines of different users meet only in `h.mu`, in
the room and in the sweep: all voice maps are indexed by user, so one user's races
need one user, and the router's (which need two) are checked in `SfuRouter`. The
longest races found need a first session, a loss, and one command of the same or
a second connection. Everything that is not liveness is also proved for all
bounds. In `SfuPeer` a negotiation concerns one peer and what others post to
it: a listener with two tracks to subscribe to and a request of its own has all
three flags set in every combination, and one loss exercises each of the
hand-overs between them; a queue of 2 (32 in the code) overflows. In `HubDelivery` a queue
of 1 (256 in the code) is full after the greeting, so the first critical push may find it so; two may
be on their way at once, one of them in the writer's hand. *Frontend.*
A race of two async functions needs two of them and one event to undo what the
first assumed, and an exception that a history variable records needs one more step to
be seen: each bound is at least two of what races (sessions, syncs,
searches, submits, flows, tabs) and one of what interrupts (losses, errors,
expiries). Pages of 1 over 4 messages have every position of a
window: both ends open, one open, none. In `Typing` the proportions of the three clocks
are kept (`Throttle` < `Inactivity` < `Ttl`). `ChatSocket` needs three commands: one
that times out, one whose answer is taken for another's, one behind it. Symmetry (of
sessions, and of one user's connections) is used only in runs without liveness.

**Fairness.** Several specifications, each with as little as its question allows:

* `RouterSpec`: weak fairness of each step of a call that has begun, and of the
  `Leave` of a session given up. A Go goroutine that can run does, `r.mu` and
  `room.mu` are held for a few map operations, and every goroutine that condemns a
  session calls `Leave` next.
* `SweepSpec`: only `Hub.Run`, the sweep's ticker, time and the `Leave`s already
  decided are fair. `OnSessionClosed` and timers may never run, which is the case the
  sweep exists for (its comment: "safety net for missed OnSessionClosed").
* `GraceSpec`: only the disconnect's goroutine and its timer are fair.
* `FairPeerSpec`: a peer's goroutine runs, and a message on its way arrives or is
  answered, in spite of others. Nobody need join, send, ask or reconnect.
* `ChatSocket!FairSpec`: timers fire, frames that are there are delivered, a closed socket
  says so, an attempt to connect ends, and (strongly fair) one of infinitely many attempts
  succeeds. The hub owes nothing: it need not answer any command.
* `CallControl!FairSpec`: an async function whose await is over continues, a timer
  fires, the hub deals with the first command, a notice arrives. Users, the network and
  media owe nothing.

The three runs of side-by-side parts check safety only: `CutOffLeaves` in `HubDelivery` says of a client that
is cut off who will remove it, not when. What "settles" means there is said
as an implication of states: when nothing is on its way any more, what is shown is what is
stored.

## 4. Proofs

`VoiceSessionProofs` and, of the router, `MediaProofs` prove, for any finite or infinite sets of
users, channels, connections, sessions and rooms, assuming only that `None` is not
among them (`NoneIsNotAnId`) and that `UserOf` maps connections to users and
`MaxCommands` is a natural number (`ConnAssumption`). `SfuPeerProofs` does so for any
users and peers, assuming (`PeerAssumption`) that the audio and video sources are
distinct and finitely many (there are four) and that queues hold at least one
command. `ChatSocketProofs` does so for any commands, ways of answering them and topics of
broadcasts, assuming (`SocketAssumption`) that commands and topics have different names
and that the bounds are natural numbers; and, of the other end, for any users, connections,
pushing goroutines and events, assuming (`DeliveryAssumption`) that `UserOf` maps connections to users,
`NoConn` is none of them, `Run` is not one of `Others`, and a queue holds at least one event.
`CallControlProofs` does so for any clicks, returns,
loops, channels and sessions, assuming (`CallAssumption`) that these processes are different
ones, that 0 is no channel, and that a wait takes some time. `MessageViewProofs` does so for a page of
any size, any channel, and any messages, deletions and lost connections, assuming (`MessageAssumption`) that a page
holds at least one message and the channel begins with some number of them.

The parts of `MessageViewProofs`, `MediaProofs`, `ChatProofs` and `PeopleProofs` share no state, so each
theorem is about a specification of its own, the part alone (`MessageSpec`; `QualitySpec`, `MediaSpec`,
`PlayerSpec`, `RemoteSpec`, `OverlaySpec`; `TabSpec`, `RuleSpec`, `EditSpec`, `ComposerSpec`, `ReadSpec`;
`ServerSpec`, `DMSpec`, `SearchSpec`, `AccountSpec`, `TypingSpec`, `RosterSpec`). The runs check the same
formula in a behaviour of which the part is the one chosen. Numbers of tracks, sessions,
messages, submits, pages, flows, syncs and losses are arbitrary; `ServerList` keeps its two servers with
two channels each. What is assumed of constants is
that bounds are natural numbers, that a value standing for "none" is not one of the things
(`AccountAssumption`, `DMAssumption`, `ReadAssumption`), that a report of `getStats()` gives
each metric a level or none (`QualityAssumption`), that a player has a track
(`PlayerAssumption`), a box is mounted (`ComposerAssumption`) and a first sync is made (`ServerAssumption`), and, in `TypingAssumption`,
the one relation between delays on which `services/typing.ts` depends: the indicator's time
to live is between the throttle and the throttle plus the author's inactivity (6, 3 and 5
seconds there).

| theorem | says |
|---|---|
| `RouterInvHolds` | the inductive invariant of the router |
| `OpenRoomsStayMapped` | rooms that run are exactly those handed to the next joiner |
| `NoRoomLeaks` | the double `isEmpty` check leaks no room |
| `RouterImplementsSessions` | `SfuRouter` implements `SfuSessions` |
| `VoiceInvHolds`, `VoiceTyped` | the inductive invariant of voice membership |
| `MapsAlwaysAgree`, `SessionsAndPeersMatch` | its main conjuncts: the three maps agree, and the hub's sessions and the router's peers do, both ways |
| `HubUsesRouterProperly` | the hub drives the router as `SfuSessions` allows |
| `HubImplementsCalls` | `VoiceSession` implements `VoiceCall` |
| `PeerInvHolds`, `PeersTyped` | the inductive invariant of the peers; types and queue capacity |
| `NegotiationIsSound` | a subscription change is offered or owed, whatever the flags go through, and no loss, detach or resume leaves `negotiating` set for ever |
| `FeedsAreSubscribed` | tracks' listeners and peers' subscriptions agree in all interleavings |
| `SocketInvHolds` | the inductive invariant of the command queue and the frames on the connection |
| `AnswersMatch` | an answer settles the command it is for, until the order of a connection is broken; with a request id, always |
| `DeliveryInvHolds` | the inductive invariant of events on their way to connections |
| `NoneIsLost` | a client nobody cuts off gets every critical event, in order |
| `ClientsStayHeld` | nobody sends on a closed queue, none is closed twice, and whoever is registered has a reader or is being removed |
| `TabInvHolds` | the inductive invariant of the tabs' election |
| `OneTabLeads` | after a round of heartbeats at most one tab leads |
| `EveryLossIsHandled` | each connection that is done with has its disconnect handled, and no other |
| `CallInvHolds` | the inductive invariant of a client's calls |
| `ALeftCallIsLeft`, `NothingIsOrphaned` | a left call leaves nothing behind, and nothing captured or connected gets out of reach |
| `QualityInvHolds` | the inductive invariant of the quality trackers |
| `BadgeIsEarned` | the badge is never better than either of its tracker's last two samples |
| `MediaInvHolds` | the inductive invariant of captured, sent and announced tracks |
| `AMutedMicrophoneIsSilent`, `DevicesFollowTheCall` | the muted are silent; a left call holds no device, and what is announced is sent |
| `RemoteInvHolds` | the inductive invariant of another user's video |
| `TheTileSettles` | once all has arrived the tile shows what is published, in the layer meant |
| `PlayerInvHolds` | the inductive invariant of the media player |
| `ThePlayerObeys` | the player is heard, and goes on, as its buttons say |
| `OverlayInvHolds` | the inductive invariant of overlays and history entries |
| `EachHasItsEntry` | when nothing is under way there is one history entry for each open overlay |
| `RuleInvHolds` | the inductive invariant of the notification settings |
| `DecisionsAgree` | the tab and the push sender decide alike |
| `MessageInvHolds` | the inductive invariant of a channel's list and the wire under it |
| `TheListIsContiguous` | the list is a stretch of the channel without a hole |
| `EditInvHolds` | the inductive invariant of edits and the frames that tell of them |
| `EditsAreRight` | no row goes back behind an acknowledged edit, and rows settle to what is stored |
| `ComposerInvHolds` | the inductive invariant of the message box |
| `DraftsArePosted`, `TheMicIsReleased` | a draft is never just gone nor posted twice; no microphone stays on |
| `ReadInvHolds` | the inductive invariant of marks, messages, pages and counters |
| `TheReadStateSettles` | what is seen is read on the server, and the badge counts the rest |
| `SearchInvHolds` | the inductive invariant of the search panel |
| `OneSearchIsShown` | what is shown are the first pages of one search |
| `AccountInvHolds` | the inductive invariant of a browser used by several accounts |
| `PushIsOnesOwn` | who was told notifications are on has the browser's endpoint |
| `TypingInvHolds` | the inductive invariant of typing indicators |
| `WhoTypesIsShown` | who typed a moment ago is shown, and nowhere but where he types |
| `DMInvHolds` | the inductive invariant of the list of conversations |
| `ConversationsAreRight` | with nothing on its way the list is what storage has visible |
| `RosterInvHolds` | the inductive invariant of a call's participants |
| `TheRosterSettles` | within a poll the list is the hub's, and a tile dim when its user is in trouble |
| `ServerInvHolds` | the inductive invariant of the caller's servers and channels |
| `TheServersSettle` | the server chosen last is selected, and the lists show who is in a call |
| `ConversationsStayOpen` | nothing that arrives takes the user out of an open conversation |

**Router.** `OpenRoomsAreMapped` is not inductive: a `Leave` that is about to delete the
channel's entry must be known to delete the entry of *its* room. `PeersInv` says so
- while the room a `Leave` holds is open, it is the one in `r.rooms` - and
`RoomsInv` that no room serves two channels. `NoLeakedRoom` is carried by naming,
for each empty open room, the goroutine that will fill or re-check it; the case to
look at is `LeaveRemove`, whose own session becomes that witness.

**Hub.** `MapsAgree`, `HubSessionLive` and `NoLeakedPeer` need `RunInv` (only `Hub.Run`
joins, and while it does, the user is in no call: no other goroutine can put one
in), `SessionsInv` (a session on its way out was given up before) and `SweepInv`
(what the sweep is about to leave as an orphan was given up already, although it
was read from two snapshots taken apart: an old session that is not its user's
now has been its user's and was left). The lemma the rest hangs on is
`LeaveVoiceKeepsInv`: the one operation on the maps that every goroutine performs
keeps the invariant *whatever the goroutine believed it was leaving*, because it
condemns exactly the session it removes. `HubImplementsCalls` follows by mapping
`RunSet` to `Enter`, each `LeaveVoice` that finds a call to `Exit`, and everything
else to a stutter; the fresh session of `Enter` is one that is still "joining".
`EveryLossHandled` has an invariant apart, `LossInv`: a connection's disconnect has not been
started exactly as long as it is unused or its user's, so `Register` starts that of the
connection it replaces and `Unregister` that of the one it removes, and nobody starts a second.

**Peers.** `NothingForgotten` is nearly inductive by itself: one lemma for each of
`SendOffer`, `Schedule`, `Answered`, `Marked`, `Cleared` says that its outcomes owe
what they do not offer. `NeverStuck` is not. An offer made while the socket is
lost, or before the mark of a `Detach` has been taken from the queue, is never
delivered, and what saves the peer is the mark still to come. `LossMarked` says
that it does come: of a session that is detached, either the flag is set and no
clear is queued, or a mark is queued with no clear behind it. `Fresh` and `Kept`
say of each command that a negotiation active after it was either active before or
has a new offer and no detached flag; so the offer is on its way or, by
`LossMarked`, the mark is. `Outstanding` (while `negotiating`, the PeerConnection has
an offer outstanding) excludes the remaining case, a client that becomes able to
answer only after the offer was lost on it. A step of one peer's goroutine only
appends to the queues of others, and never a clear (`Grown`), which keeps all of
this (`Bystander`).

**Commands.** `AnswersFindTheirCommand` has an action property in it: a step that settles a
command does so by that command's own answer, unless `strayed`. It follows from
`InOrderInv`: until something strays, the connection carries one thing at most, the pending
command at the hub or its one answer, so an answer without a request id can only be that
command's. `IdleInv` (a connection begins with nothing pending and nothing on it) re-establishes
this when the next connection opens, which is when `strayed` is taken back; `EventsInv` says which
forms an event to a command can have, and with the guards in `handleSocketError` and in the ack
branch gives `TaggedAnswersMatch` even after something strayed. `TimersOwned` is kept by
`FlushSendsOne`, the lemma about `flushQueue` on which every action that settles a command
relies.

**Tabs.** `OneLeaderAfterARound` speaks of one moment, when the channels are empty; what
leads to it is `AnnouncedInv`: as long as a leader that has announced itself and one with a
larger id both lead, the heartbeat of the first waits on the channel of the second.
`HearsHeartbeat` may consume it only by giving way, `HearsLeaving` and the broadcasts take
nothing else away (`TailKeeps`, `BroadcastAdds`), and a tab that becomes leader again, or
enters, voids the announcements of the others. `IdsInv` is needed because two leaders with
one id would both stay: the model numbers elections, where the code takes the time of day
and a random part.

**Quality.** `LevelIsEarned` says nothing of the hysteresis' own memory, so `Earned` adds it:
the better level a tracker counts is its last sample (`times` is 1 whenever the last sample
is better than the level shown). `HysteresisEarns` is the one lemma about
`ApplyHysteresis`, whatever the sample; `BadgeInv` ties the badge to the tracker it was
last published from, which may be one replaced since; `WorstIsMeasured` says that `worst()`
returns one of its arguments and none worse is left.

**Calls.** `CallInv` says nothing but types once two calls have overlapped (`raced`) or a join or
its offer has failed (`refused`): section 5 says what happens then. Until then the client is `Tidy`: one
process at most is at an await (`OneAtATime`); the client holds the whole of a call or nothing of it
(`Whole`); whoever is at an await may rely on what he left there (`InPlace`); and when nobody is at
one, there is no call without its banner (`NothingLeftOver`). What is hard is
a recovery that wakes up: it finds its generation gone or a call to recover, because every
way out of a call goes through `Teardown`, which takes the generation away.

**Delivery.** `NeverPanics` needs two facts that each lock alone does not give: a push under way is
for connections that are registered *now* (`PushInv`), since nobody is registered or removed while one holds
`h.mu`; and who is registered is open (`RegisteredInv`), for which a connection must not come back to
`Hub.Run` once it has been there (`UnreadInv`, and `RunInv` for the one that `Hub.Run` has taken and not yet
entered). `NoSilentLoss` is carried by `QueueOf`: the numbers in the writer's hand and in the queue grow and are
above those seen (`InOrder`), and while the socket is not closed and nobody has found the queue full, every number
is among them (`Complete`). The gap between finding a queue full and closing the socket is why that is
said of pushes (`Uncut`), and why the property excepts the connection that is about to be closed. `CutOffLeaves`
has an invariant of its own, `HeldInv`: it adds the connection that `Hub.Run` is about to register, whose reader
may end meanwhile but cannot be taken until `Hub.Run` is free again.

**Local media.** `JobsInv`, `GraphInv` hold always: a job that waits remembers a track that
exists, and the raw track of a graph is that of a call. `MediaSound` holds until an async call
outlives its call or its connection (`strayed`, `staleFlip`): the microphone that is muted is
the one that is sent, the camera seen as on is the one sent and announced, and every device
that is on is held by the call or by the job that will attach it (`Held`).

**Remote video.** `RemoteVideoSettles` speaks of empty queues; `RemoteInv` says what the queues
promise. For each source: whether it will be hidden once the events have come (`Hides`); what
the server will feed once the commands are served (`WillFeed`); from announcement to track,
that what is on is seen, asked for, fed and has its track come (`OnIsSeen`, `OnIsAsked`, `AskedIsFed`,
`FedHasTrack`), each now or through something on its way; and that what is off has not been asked for
(`OffIsQuiet`). `SessionRight` keeps sessions apart: nothing of an old one outlives the "left" that waits, on the
connection or still to be pushed (`LeftUntold`). All that (`RemoteAgrees`) is given up when the user
joins before its leaving is told and done (`lateEnd`); only `RoomRight` is kept then, which is
what a new session of the listener, with no leaving left to tell, needs to start from: `ResetKeeps`
proves `RemoteAgrees` from it alone.

**Player.** `LoudInv`: before the graph is made the element follows the state, afterwards the
element is fixed and the gain follows. `TrackInv`: a shuffled order has no track twice and
the current one in it, which is why `next` at its end is the end of the list.

**Overlays.** A traversal asked for and not yet made is either the hook's own, which will be ignored, or a
step back of the user's, which will close an overlay. `Balanced`: they add up to `Due`, the entries needed when all
are made (for the overlays then open, and those that wait for the timer) less the entries there are. That a sequence
adds up to a number is said by the row of its partial sums (`AddsUp`), which an `Append` or a `Tail` carries on, so
no recursion is needed.

**Notification rules.** `TabAndPushAgree` is inductive but for one fact: a conversation has no
settings of a server, which the sender would read and the tab would not.

**List of messages.** `Contiguous` relates the list to the table and to what is still to come
(`ToCome`), so an answer must be known for what it is before it arrives. `AnswerRight` says it of every answer, on its
way or read aside: it holds what the table holds between its cursors, less, if it was read on the Run loop, what will
reach the client behind it. It is said of the messages *behind the answer* (`Behind`), not of those to come now, and so is not
touched when messages in front of it are taken. `StreamInv`: what is to come is the end of the stream of ids, with
none skipped (one a full queue dropped keeps its place), so a message to come is newer than any cursor, and
the first one that comes joins the tail where the list ends. `CommandInv`: one answer at a time is
on its way, to the head of the queue. `AskedInv`: a page asked for
at an end of the list starts at the cursor the list still has, and nobody asks twice, unless the list has been replaced since
(`stale`). A page read beside the Run loop needs no more than that when it does not reach the tail; `FitsTail` is what it needs
when it does, and without it the list counts as `broken`. The table's rows are put in order by
rank (`Ids`: the k-th has k - 1 below it), which `RankIsBijective` shows to be one.

**Edits.** Until an edit is told to nobody or not to this list (`doubtful`): what the frames say of a
message never goes back (`NeverOlder`), saves are applied in the order they were made
(`SavesInOrder`), the event comes right before its ack (`EventFirst`), and a row that is behind,
in the list or in a page on its way, has the event that mends it behind it (`RowRight`).

**Message box.** Every item is in the box, in a submit, posted or accounted for (`Kept`), and in two
of them only if the user submitted it twice (`DoubledRight`); submits are numbered, so that two with
equal contents are two. `RecorderInv` gives the four states of a recording that met no other.

**Read state.** Ids of a channel count 1, 2, ..., and the connection keeps its order, so of every
frame it is known how many messages of a channel have come before it: `Front`. The rest is said
with it. `Stream`: a page on its way was read at its front. `ThrottleRight` and `MarksRight`:
the last mark on its way, or the one the timer holds, is the one the client has promised
(`Promised`). `HeldRight`: a list that missed nothing holds all that is not on its way.
A dropped message keeps its place in that count, and voids what is said of the list and the counters when its place
comes by. `FetchRight`: counters on their way were counted at their front. `BadgeRight`: badge and promised mark
add up to what has been received. Every action either adds to one end of a queue or takes from the
other, and a few lemmas on `Front` (one for each) carry all of them.

**Search.** Of a search at most the next page is on its way (`OnePageOnItsWay`), and what is shown
are the first pages of the search the inputs say, which that page continues (`ShownAsWanted`).

**Accounts.** Until calls for different ends overlap (`crossed`), all calls under way serve one end,
and a subscription's request is for whoever is signed in and names the browser's endpoint
(`OneEnd`); so whoever was assured owns it, until a sign-out's call is under way (`Assured`).

**Typing.** `LastWord`: the last word on its way on a channel is what the author does there.
`ToldAlready`: where none is on its way, the viewer's timer is no older than the last message and the
last input allow; `TypingAssumption` is what carries this over the throttle.

**Conversations.** Commands are answered in order (`DMInOrder`), a close or a list before the
next command is sent (`DMAwaited`), so the last frame about a conversation says whether it is visible,
and where there is none the list is right (`DMFollows`).

**Roster.** `CallRight` says where one's own call stands, in the hub and on the screen: the answers to a join
and a leave come once, and `detached` and `resumed` come only in a call. With it, what waits on the connection and the
tile together (`Dims`) are dim exactly if the peer is in trouble, unless events overtook each other.

**Servers.** A sync asks for the servers and, when they have come, for the channels of each, behind
whatever other syncs have asked for meanwhile (`SyncsRight`): what a sync still lacks is on the
connection; requests for servers wait in the order of the syncs, and a request for channels is always of an earlier
sync than one for servers, so syncs finish in the order they started and the last that prefers a
server decides (`ChoiceRight`). `VoiceRight` says of the list on screen, of what each sync has
gathered and of the answer on its way that each *ends* where the caller is, once the voice events behind it have come
(`EndsIn`), those still to be pushed counted behind; so it does not matter which of them is shown. A
`voice_user_left` that is pushed after its user has joined again, or between a snapshot's reading and its push,
breaks that for the syncs begun so far: `stale` remembers how many, and a sync begun
later, when it is applied, makes it true again. Of a server that is being made nobody has heard
(`NewRight`), which is why its voice channel is right from the moment it exists. Conversations are
asked for before any channels on each connection (`TalkRight`), so a sync that would not find the open
one among its channels finds it there.

**Only model-checked.** The liveness properties (`CondemnedLeaves`, `GraceEnds`,
`SweepRepairsDeadMedia`, `ChangesAreOffered`, `EveryoneHears`, `EveryCommandSettles`,
`ReconnectsWhileTokenLasts`, `DeadSessionIsLeft`) need fairness and ENABLED and are
outside the prover's reach. Every safety property the runs check is proved. The counterexamples of the next
section are TLC's.

## 5. Where code and comments disagree

Two runs check what a comment or a document says, and TLC finds a behaviour of the
code that violates it. Quotations are under `findings` in `PROJECT.json`.

| run | the claim | what happens |
|---|---|---|
| `RecoveryEnds` | "Up to 3 automatic rejoin attempts with backoff" (`sfuCallClient.ts:636`), then "lost" | `rejoin` bumps `recoveryGeneration` in `teardownPeerConnection`, so after one failed attempt the loop takes itself for superseded (653-657); the branch that gives up (677-685) is never reached and the status stays "reconnecting" |
| `DeleteIsAcked` | `delete_message` is answered by an ack (`docs/api.md:117`) | `deleteMessage` (`hub.go:1727`) sends nothing when it succeeds; the client's queue stands still until the command times out, then it shows an error and reloads the list |

What follows was seen while modelling and has no run of its own: the models admit it, and a
history variable or the form of a property excepts it.

*Backend.*

* A resume keeps the session ID, so the comparison in `expireVoiceSession` (`hub.go:610`)
  cannot tell: a timer that fired before the resume stopped it ends the resumed session,
  though the comment at 595 says it guards against that.
* `OnSessionClosed` (`hub.go:398`) compares under one hold of `h.mu` and leaves by user under the
  next; a join in between is undone (`hub_voice_test.go:251` says it must not be). The sweep
  leaves its suspects in the same way, and an evicted connection's disconnect may arm its
  timer after the new connection's resume.
* A join still queued when its connection is unregistered (`hub.go:587`, 770) puts the user
  into a call nobody will end, though `docs/voice.md:111` promises a leave.
* Two leavers that both saw a room empty both reclaim it (`router.go:286`); the second
  `close` panics. A joiner that found the room before is added to it after it was closed
  (`router.go:115`), though `room.go:57-58` excludes both.
* Another peer's track makes the server offer before the client's first offer has arrived,
  which then fails (`peer.go:215`; `router.go:26` says "no glare").
* A subscriber whose `doSubscribe` is still queued subscribes to a track whose publisher has
  closed, and is never told (`peer.go:609`; the comment at 606 says all are).
* An expiry deletes the user's entry of `sfuGraceTimers` whatever timer it holds; the
  `Leave` of an old session removes the user's next session from the room (`room.go:71`); an
  answer to an offer given up may be applied to a newer one; a publisher's new track can be
  taken for its old one; a closing old peer removes its user's new peer from a track.
* A fresh session after a rejoin resets the user's mic and deafen status (`hub.go:2103`).
* `voice_user_left` is pushed after `Router.Leave` and two reads of the storage (`hub.go:2421-2442`), by
  an expiry, `OnSessionClosed` and the sweep beside the Run loop: it may come after the `voice_user_joined` of
  the same user's next session. Whoever is told so hides a user who is there until the next poll
  or sync, and loses the tile and the subscriptions of its new session until his own session is
  replaced (`sfuCallClient.ts:908-942`). It may also come between a snapshot's reading and its push.
* A feed is known by its user and source (`peer.go:503`): a subscription to a new track made before
  the old one's `doUnsubscribe` has run changes the old feed, which is then removed.
* A source's first packets announce it whatever its publish state (`peer.go:467`), so a camera that was
  switched off at once is shown as on, and black, to those who are there.
* An ordinary event that finds a client's queue full is dropped (`hub.go:1053`): a message so missed leaves a
  hole in the list and is not counted as unread, and no later answer tells.
* `editMessage` acknowledges an edit that it then tells nobody when the members cannot be
  listed (`hub.go:1795`). `OpenDMChannel` (`dm.go:31`) does not reveal a hidden conversation,
  though the comment at `dm.go:127` and `docs/api.md:207` speak as if opening did.

*Connection and calls.*

* `resolveWsUrl` throws inside the promise executor (`chatSocket.ts:639`): the connection's
  promise stays rejected, and every later attempt finds it and only sets the timer again,
  though the comment at 462 has it retried.
* An answer that comes after its command's timeout settles the next command without a
  request id, and so on, until the connection ends.
* A notice of a lost session that a resume's late answer overtakes is forgotten; a leave that
  overlaps a rejoin is undone by it; overlapping or refused joins leave a microphone or a
  peer connection behind; a failed offer leaves the client in a call the page does not show.
* A change of noise suppression, a camera start or a screen prompt that ends after the call
  was left and another joined ends up in that one, or keeps the device; a camera
  flip puts back a microphone that was replaced meanwhile; a screen share is not sent again
  after a rejoin.
* `getServerChannelsState` drops `detached` (`chatSocket.ts:1292`), though the comment at
  `useVoice.ts:579` merges it: a tile whose event was lost stays as it was.
* A video subscription refused before the track arrived is not repeated.
* One bad `getStats()` answer, all metrics missing, starts the hysteresis anew.

*Chat and notifications.*

* History is not reloaded after a reconnect, so messages and edits pushed meanwhile are
  missing; a refused jump marks the channel as loaded; a message between an answer and its
  render, or a page read off the Run loop, leaves a hole or an old text.
* A `get_unread` that fails is not repeated (`useUnread.ts:127`): the counters of before stay until the next
  connection.
* A read mark sent on a closed socket is recorded as sent; the rate limiter drops marks
  silently.
* An answer without any server (`useServers.ts:117`) wipes the lists and leaves an open
  conversation, every three seconds.
* `loadMore` does not bump `requestSeq`, though the comment at `useMessageSearch.ts:32` says so;
  a submit during a `loadMore` leaves `isLoadingMore` set.
* A failed send is swallowed and the box emptied (`MessageInput.tsx:426`); Enter pressed twice
  posts twice; files dropped during a send are wiped; selecting a voice channel while
  recording leaves the recorder running; the microphone button pressed twice leaks one.
* Closing the editor belongs to no message: a save that ends closes the editor of another
  message (`MessageList.tsx:367`).
* Signing out unsubscribes without a token (`useProfile.ts:229`); a sign-in during it loses the
  new account's subscription.
* Muting the player before its graph exists cannot be undone; mode "all" stops on a list of one.
* A typing indicator stays when the viewer's connection is lost over it
  (`useTypingIndicator.ts:67`).
* A message in a channel the tab does not list is judged as a conversation's.
* A forward gesture, or "back" while an entry is being released, breaks the count of
  history entries.

## 6. Not modelled

What no decision of a modelled operation reads: logs, metrics, diagnostics
(`SFUDiagnostics`), wording and JSON. What is pure I/O: SMTP, S3, HTTP fetching,
HTML parsing, web push delivery, TLS. What is stateless: request handlers over SQL,
JWT, validation. `Router.Close` and `Hub` shutdown run once, when the process ends.
RTP forwarding is pion's. The SQL is modelled by what its queries return where a view
depends on it, and left to the database elsewhere. Of the frontend: rendering, layout,
scrolling, gestures other than "back", text editing (mentions), equaliser and visualiser,
image viewer, forms; the arithmetic of `classify()`, of which a level remains; audio
elements and per-user volumes; who is online.

Simplifications inside modelled parts, which their properties do not speak of:

* A full queue drops an ordinary event in `HubDelivery`, `MessageView` and `ReadMarks`. The other views
  take the events of their connection as delivered: `sfu_track_published` and `sfu_track_unpublished`
  in `RemoteVideo`, `sfu_session_closed` in `CallControl` (not among the critical ones, `hub.go:1029-1040`),
  `voice_user_detached` and `voice_user_resumed` in `VoiceRoster` while connected, `dm_opened` in `Conversations`,
  `message_edited` in `Edits`. `DMListRight`, `RosterSettles`, `EditsAreShown` and `RemoteVideoSettles` say
  what holds as long as that does not happen; `DeadSessionIsLeft` likewise.
* A `voice_user_left` whose storage read fails goes to the other participants only (`hub.go:2427-2434`), a
  `voice_user_joined` whose read fails to nobody; both reads succeed here. Of one
  channel at most one `voice_user_left` waits to be pushed in `ServerList`; the Run loop's own join is
  one step with its push there, since nobody can tell a later one from a later join.
* A message to a conversation always reveals it and is announced by `dm_opened`; the hub skips that after a failed
  read (`hub.go:1598-1600`, 1629-1631). `get_messages` refused as malformed, and the errors of
  pages read aside, are one refusal. `handleTyping`'s silent returns are the loss of an event.
* In `SfuPeer` pion's calls succeed where `peer.go:335`, 413-422 and 511-522 have a branch for
  their failure. In `LocalMedia` a join's steps that touch local media are one (`useVoice.ts:337-339` awaits in
  between), and one change of mode is under way at a time. In `Player` the graph can be made
  whenever it is asked for (`useMediaPlayer.ts:152-160`). In `NotifyRules` the settings are loaded (`rules.ts:50`, 64).
  In `VoiceSession` a resume may be sent in any state of its media; the client sends it in fewer. In `Account` a
  browser's unsubscription is one await.
* `GraceEnds` takes a timer that anybody stopped for ended; whether it should have been stopped is for
  `ImplementsCalls`, and the case in which nobody arms another is in section 5.

## 7. Plan

In order; what exists is marked.

1. `SfuSessions`, `SfuRouter`, `VoiceCall`, `VoiceSession` and their proofs - **done**.
2. `SfuPeer` and its proofs - **done**.
3. The frontend: `ChatSocket` with its proof, `CallControl`, and the parts checked side by
   side - **done**.
4. Proofs of the safety properties of the frontend's parts - **done**.
5. `HubDelivery`: the bounded `Outbound` queue, critical and ordinary events, closing
   of slow clients, and its proof - **done**.
6. `HubMessages`: `sendMessage` with attachments and compensation, composed with
   `PushSender` (aggregation window) and the embed service's queue.
7. `UserCache` (read-through cache, single flight) and `DirectMessages` (two openers).
8. `SimulcastLayers` (layer requests, RTP rewriter modulo 2^w) and `TokenBucket` as
   pure algorithms against reference definitions.

What makes 6 to 8 worth modelling: `sendMessage` takes its attachments, one by one, before the
checks that may still refuse the message (`hub.go:1511`); a slow read begun before an update puts
the old user back into the cache (`user.go:82`); the loss monitor and the user each choose a layer between
two holds of `sub.mu` (`track.go:248`).

TLC's bounds for the planned modules: two clients or users, one or two channels,
queues of two or three, a handful of requests, with every bound a constant. New runs take
the place of old ones by putting backend parts side by side as the frontend's are.
