----------------------------- MODULE ServerList ------------------------------
(***************************************************************************)
(* Servers, channels and who talks in them: hooks/useServers.ts with the   *)
(* voice handlers of hooks/useVoice.ts and the list of conversations of    *)
(* hooks/useDMs.ts.                                                        *)
(*                                                                         *)
(* A sync asks for the servers, then for each server's channels, and sets  *)
(* everything when the last answer is in.  Several syncs overlap, and so   *)
(* do voice events, clicks and lost connections.  The socket carries one   *)
(* command at a time (ChatSocket), the hub answers in order; but a voice   *)
(* session that ends beside its Run loop (expireVoiceSession,              *)
(* OnSessionClosed, the sweep) is told of when nobody waits for it.        *)
(***************************************************************************)
EXTENDS Naturals, Sequences, FiniteSets, FiniteSetsExt

CONSTANTS
    MaxSyncs,       \* bound: syncs started
    MaxEdits,       \* bound: servers and channels made, joined or deleted
    MaxMoves,       \* bound: moves of the other user between voice channels
    MaxBreaks,      \* bound: connections lost
    MaxErrors,      \* bound: commands the hub refuses
    MaxEvents       \* bound: edits, moves, breaks and refusals together

ASSUME ServerAssumption == MaxSyncs \in Nat \ {0}

\* Two servers, each with a text and a voice channel, and one conversation.
Servers == {1, 2}
Text(s) == 10 * s + 1
Voice(s) == 10 * s + 2
Home(c) == c \div 10
TheDM == 99

VARIABLES
    members,        \* servers the user is a member of
    deleted,        \* servers that have been deleted
    channels,       \* channels that exist
    caller,         \* the voice channel the other user is in, or 0
    departing,      \* channels whose voice_user_left is not pushed yet
    held,           \* {a server's state, read and not pushed}, or {}
    stale,          \* syncs begun when one was pushed out of order: 1..stale
    linked, commands, asked,    \* the socket, its queue; the head is at the hub
    frames,         \* on their way to the client
    syncs,          \* syncs[j]: a sync under way, or NoSync
    started,        \* syncs started
    servers, shelf, \* servers and channelsByServer
    selectedServer, selectedChannel,
    shown,          \* voice channels the other user is shown in
    dms,            \* dmChannelIdsRef
    choice,         \* the server last preferred, 0 when it is gone
    spoilt,         \* a sync failed since
    lateVoice,      \* the voice list is older than an event, or a
                    \* voice_user_left was pushed after a later voice_user_joined
    edits, moves, breaks, errors

callVars == <<caller, departing, held, stale>>
hubVars == <<members, deleted, channels, callVars>>
linkVars == <<linked, commands, asked, frames>>
listVars == <<servers, shelf, selectedServer, selectedChannel, shown, dms>>
noteVars == <<choice, spoilt, lateVoice>>
limitVars == <<edits, moves, breaks, errors>>
serverVars == <<hubVars, linkVars, syncs, started, listVars, noteVars, limitVars>>

NoSync == [on |-> FALSE, prefers |-> 0, list |-> {}, got |-> {}, chans |-> {},
           voice |-> {}, late |-> FALSE]
Ask(kind, job, of) == [kind |-> kind, job |-> job, of |-> of]

ServerInit ==
    /\ members = {1} /\ deleted = {} /\ caller \in {0, Voice(1)}
    /\ departing = {} /\ held = {} /\ stale = 0
    /\ channels \in {{Text(1), Voice(1)}, {Text(1), Voice(1), Text(2), Voice(2)}}
    /\ linked = TRUE /\ asked = FALSE /\ frames = <<>>
    /\ commands = <<Ask("servers", 1, 0), Ask("dms", 0, 0)>>
    /\ syncs = [j \in 1..MaxSyncs |-> [NoSync EXCEPT !.on = (j = 1)]]
    /\ started = 1
    /\ servers = {} /\ shelf = {} /\ selectedServer = 0 /\ selectedChannel = 0
    /\ shown = {} /\ dms = {}
    /\ choice = 0 /\ spoilt = FALSE /\ lateVoice = FALSE
    /\ edits = 0 /\ moves = 0 /\ breaks = 0 /\ errors = 0

\* Bound: what happens besides syncs, clicks and selections.
MayHappen == edits + moves + breaks + errors < MaxEvents

-----------------------------------------------------------------------------
(* The hub *)

\* What storage does not refuse: ids are not used again.
Possible(ask) ==
    CASE ask.kind \in {"create", "join"} -> ask.of \notin members \union deleted
      [] ask.kind = "deleteServer" -> ask.of \in members
      [] ask.kind \in {"main", "voice", "channel"} -> Home(ask.of) \in members
      [] ask.kind = "deleteChannel" -> ask.of \in channels /\ Home(ask.of) \in members
      [] OTHER -> TRUE

\* Servers and channels as a command changes them.
Edited(ask) ==
    CASE ask.kind \in {"create", "join"} -> <<members \union {ask.of}, channels>>
      [] ask.kind = "deleteServer" ->
            <<members \ {ask.of}, {c \in channels : Home(c) # ask.of}>>
      [] ask.kind \in {"main", "voice", "channel"} -> <<members, channels \union {ask.of}>>
      [] ask.kind = "deleteChannel" -> <<members, channels \ {ask.of}>>
      [] OTHER -> <<members, channels>>

Answer(ask) ==
    CASE ask.kind = "servers" -> [kind |-> "answer", ok |-> TRUE, servers |-> members]
      [] ask.kind = "state" ->
            [kind |-> "answer", ok |-> TRUE, chans |-> {c \in channels : Home(c) = ask.of},
             voice |-> {caller} \intersect {c \in channels : Home(c) = ask.of}]
      [] OTHER -> [kind |-> "answer", ok |-> TRUE]

\* A command is carried out and answered in one turn of the Run loop.
HubAnswers ==
    /\ linked /\ commands # <<>> /\ ~asked /\ asked' = TRUE /\ Possible(Head(commands))
    /\ Head(commands).kind # "state"
    /\ members' = Edited(Head(commands))[1] /\ channels' = Edited(Head(commands))[2]
    /\ deleted' = deleted \union (members \ members')
    /\ frames' = Append(frames, Answer(Head(commands)))
    /\ UNCHANGED <<callVars, linked, commands, syncs, started, listVars, noteVars, limitVars>>

\* getServerChannels: what else the turn reads and builds lies between the look
\* at the calls and the push; a leave beside the Run loop may fit in.
HubReads ==
    /\ linked /\ commands # <<>> /\ ~asked /\ asked' = TRUE
    /\ Head(commands).kind = "state" /\ held' = {Answer(Head(commands))}
    /\ UNCHANGED <<members, deleted, channels, caller, departing, stale, linked, commands,
                   frames, syncs, started, listVars, noteVars, limitVars>>
HubPushes ==
    /\ \E state \in held : frames' = Append(frames, state)
    /\ held' = {}
    /\ UNCHANGED <<members, deleted, channels, caller, departing, stale, linked, commands,
                   asked, syncs, started, listVars, noteVars, limitVars>>

HubRefuses ==
    /\ linked /\ commands # <<>> /\ ~asked /\ asked' = TRUE
    /\ IF Possible(Head(commands)) THEN MayHappen /\ errors < MaxErrors /\ errors' = errors + 1
                                   ELSE errors' = errors
    /\ frames' = Append(frames, [kind |-> "answer", ok |-> FALSE])
    /\ UNCHANGED <<hubVars, linked, commands, syncs, started, listVars, noteVars,
                   edits, moves, breaks>>

\* To whom pushToUsers sends: the server's members who are online.
PushWord(kind, c) ==
    frames' = IF linked /\ Home(c) \in members
              THEN Append(frames, [kind |-> kind, of |-> c]) ELSE frames

\* The other user joins a voice channel, on the Run loop.
VoiceJoins(c) ==
    /\ MayHappen /\ moves < MaxMoves /\ moves' = moves + 1 /\ held = {}
    /\ caller = 0 /\ c \in channels \intersect {Voice(s) : s \in Servers} /\ caller' = c
    /\ PushWord("joined", c)
    /\ UNCHANGED <<members, deleted, channels, departing, held, stale, linked, commands, asked,
                   syncs, started, listVars, noteVars, edits, breaks, errors>>

\* leaveVoiceChannelInternal, on the Run loop or beside it: the push comes after
\* the router's Leave and two reads, however much happens meanwhile.  (One such
\* push at a time for a channel: a bound.)
VoiceLeaves(c) ==
    /\ MayHappen /\ moves < MaxMoves /\ moves' = moves + 1
    /\ caller = c /\ caller' = 0 /\ c \notin departing /\ departing' = departing \union {c}
    /\ UNCHANGED <<members, deleted, channels, held, stale, linkVars, syncs, started,
                   listVars, noteVars, edits, breaks, errors>>
TellMembers(c) ==
    /\ c \in departing /\ departing' = departing \ {c} /\ PushWord("left", c)
    /\ stale' = IF caller = c \/ \E state \in held : c \in state.voice THEN started ELSE stale
    /\ lateVoice' = (lateVoice \/ caller = c)
    /\ UNCHANGED <<members, deleted, channels, caller, held, linked, commands, asked, syncs,
                   started, listVars, choice, spoilt, limitVars>>

-----------------------------------------------------------------------------
(* A sync *)

\* The sync that starts here has the next number; it prefers a server or none.
StartSync(prefers, queue) ==
    /\ started < MaxSyncs /\ started' = started + 1
    /\ syncs' = [syncs EXCEPT ![started'] = [NoSync EXCEPT !.on = TRUE, !.prefers = prefers]]
    /\ commands' = Append(queue, Ask("servers", started', 0))
    /\ choice' = IF prefers # 0 THEN prefers ELSE choice
    /\ spoilt' = (spoilt /\ prefers = 0)

\* Every three seconds while the page is visible.
PeriodicSync ==
    /\ linked /\ StartSync(0, commands)
    /\ UNCHANGED <<hubVars, linked, asked, frames, listVars, lateVoice, limitVars>>

Answered(kinds) ==
    /\ frames # <<>> /\ Head(frames).kind = "answer" /\ Head(frames).ok
    /\ Head(commands).kind \in kinds
    /\ frames' = Tail(frames) /\ asked' = FALSE

\* No servers: everything is emptied, the selection with it.
WipeAll ==
    /\ servers' = {} /\ shelf' = {} /\ shown' = {}
    /\ selectedServer' = 0 /\ selectedChannel' = 0

ServersArrive ==
    /\ Answered({"servers"})
    /\ LET job  == Head(commands).job
           list == Head(frames).servers
       IN  IF list = {}
           THEN /\ WipeAll /\ syncs' = [syncs EXCEPT ![job] = NoSync]
                /\ commands' = Tail(commands)
                /\ choice' = 0 /\ lateVoice' = FALSE
           ELSE /\ syncs' = [syncs EXCEPT ![job].list = list]
                /\ commands' = Tail(commands)
                     \o [i \in 1..Cardinality(list) |->
                           Ask("state", job, CHOOSE s \in list :
                                                Cardinality({t \in list : t <= s}) = i)]
                /\ UNCHANGED <<servers, shelf, shown, selectedServer, selectedChannel,
                               choice, lateVoice>>
    /\ UNCHANGED <<hubVars, linked, started, dms, spoilt, limitVars>>

\* The preferred server, else the one selected by now, else the first.
SyncSelects(sync) ==
    IF sync.prefers \in sync.list THEN sync.prefers
    ELSE IF selectedServer \in sync.list THEN selectedServer ELSE Min(sync.list)

\* Bug: any channel that is not of the server is left.
KeepsChannelOfServer(active) == selectedChannel \in active

\* The open channel stays if it is of the server or a conversation.
KeepsChannel(active) == selectedChannel \in active \/ selectedChannel \in dms

FirstOf(S) == IF S = {} THEN 0 ELSE Min(S)

\* Bug: participants are added to those shown.
VoiceListMerged(sync) == shown' = shown \union sync.voice

\* The snapshots replace the participants shown.
VoiceListReplaced(sync) == shown' = sync.voice \intersect sync.chans

\* The last answer is in.
ApplySync(sync, job) ==
    /\ servers' = sync.list
    /\ shelf' = {<<Home(c), c>> : c \in sync.chans}
    /\ VoiceListReplaced(sync)
    /\ selectedServer' = SyncSelects(sync)
    /\ LET active == {c \in sync.chans : Home(c) = SyncSelects(sync)}
       IN  selectedChannel' = IF KeepsChannel(active) THEN selectedChannel ELSE FirstOf(active)
    /\ choice' = IF choice \in sync.list THEN choice ELSE 0
    /\ lateVoice' = (sync.late \/ job <= stale)

ChannelsArrive ==
    /\ Answered({"state"})
    /\ LET job  == Head(commands).job
           sync == [syncs[job] EXCEPT !.got = @ \union {Head(commands).of},
                                      !.chans = @ \union Head(frames).chans,
                                      !.voice = @ \union Head(frames).voice]
       IN  IF ~syncs[job].on
           THEN UNCHANGED <<servers, shelf, shown, selectedServer, selectedChannel, choice,
                            lateVoice, syncs>>
           ELSE IF sync.got = sync.list
           THEN ApplySync(sync, job) /\ syncs' = [syncs EXCEPT ![job] = NoSync]
           ELSE /\ syncs' = [syncs EXCEPT ![job] = sync]
                /\ UNCHANGED <<servers, shelf, shown, selectedServer, selectedChannel,
                               choice, lateVoice>>
    /\ commands' = Tail(commands)
    /\ UNCHANGED <<hubVars, linked, started, dms, spoilt, limitVars>>

\* A refused command fails its sync; the commands it has queued still go out.
Refused ==
    /\ frames # <<>> /\ Head(frames).kind = "answer" /\ ~Head(frames).ok
    /\ frames' = Tail(frames) /\ asked' = FALSE /\ commands' = Tail(commands)
    /\ LET job == Head(commands).job
       IN  syncs' = [j \in 1..MaxSyncs |-> IF j = job THEN NoSync ELSE syncs[j]]
    /\ spoilt' = TRUE
    /\ UNCHANGED <<hubVars, linked, started, listVars, choice, lateVoice, limitVars>>

-----------------------------------------------------------------------------
(* Events *)

Event(kind, c) ==
    /\ frames # <<>> /\ Head(frames).kind = kind /\ Head(frames).of = c
    /\ frames' = Tail(frames)

\* Voice events are applied at once; a sync that has a snapshot already will
\* put it over them.
VoiceArrives(c) ==
    /\ \/ Event("joined", c) /\ shown' = shown \union {c}
       \/ Event("left", c) /\ shown' = shown \ {c}
    /\ syncs' = [j \in 1..MaxSyncs |-> [syncs[j] EXCEPT !.late = @ \/ syncs[j].got # {}]]
    /\ UNCHANGED <<hubVars, linked, commands, asked, started, servers, shelf,
                   selectedServer, selectedChannel, dms, noteVars, limitVars>>

MessageIn(c) ==
    /\ MayHappen /\ moves < MaxMoves /\ moves' = moves + 1
    /\ linked /\ c \in channels /\ Home(c) \in members
    /\ frames' = Append(frames, [kind |-> "message", of |-> c])
    /\ UNCHANGED <<hubVars, linked, commands, asked, syncs, started, listVars, noteVars,
                   edits, breaks, errors>>

\* A message of a channel nobody lists puts one by that name under the selected
\* server, wherever it belongs.
MessageArrives(c) ==
    /\ Event("message", c)
    /\ shelf' = IF selectedServer = 0 \/ c \in dms \/ \E p \in shelf : p[2] = c
                THEN shelf ELSE shelf \union {<<selectedServer, c>>}
    /\ UNCHANGED <<hubVars, linked, commands, asked, syncs, started, servers,
                   selectedServer, selectedChannel, shown, dms, noteVars, limitVars>>

ConversationsArrive ==
    /\ Answered({"dms"}) /\ dms' = {TheDM} /\ commands' = Tail(commands)
    /\ UNCHANGED <<hubVars, linked, syncs, started, servers, shelf, selectedServer,
                   selectedChannel, shown, noteVars, limitVars>>

-----------------------------------------------------------------------------
(* The user *)

SelectServer(s) ==
    /\ s \in servers /\ selectedServer' = s
    /\ IF linked
       THEN StartSync(s, commands) /\ selectedChannel' = selectedChannel
       ELSE /\ selectedChannel' = FirstOf({p[2] : p \in {q \in shelf : q[1] = s}})
            /\ choice' = s /\ spoilt' = FALSE
            /\ UNCHANGED <<syncs, started, commands>>
    /\ UNCHANGED <<hubVars, linked, asked, frames, servers, shelf, shown, dms, lateVoice,
                   limitVars>>

SelectChannel(c) ==
    /\ <<selectedServer, c>> \in shelf \/ c \in dms
    /\ c # selectedChannel /\ selectedChannel' = c
    /\ UNCHANGED <<hubVars, linkVars, syncs, started, servers, shelf, selectedServer, shown,
                   dms, noteVars, limitVars>>

Edit(kind, of) ==
    /\ linked /\ MayHappen /\ edits < MaxEdits /\ edits' = edits + 1
    /\ commands' = Append(commands, Ask(kind, 0, of))
    /\ UNCHANGED <<hubVars, linked, asked, frames, syncs, started, listVars, noteVars,
                   moves, breaks, errors>>

\* One server at a time is made (isCreatingServerRef).
Making == \E i \in DOMAIN commands : commands[i].kind \in {"create", "main", "voice"}
CreateServer ==
    2 \notin members \union deleted /\ Text(2) \notin channels /\ ~Making /\ Edit("create", 2)
JoinServer == 2 \notin members /\ Text(2) \in channels /\ Edit("join", 2)
(* Restriction of the model: what holds the user's own call is not deleted.  *)
DeleteServer ==
    selectedServer # 0 /\ Home(caller) # selectedServer /\ Edit("deleteServer", selectedServer)
CreateChannel == selectedServer # 0 /\ Edit("channel", Text(selectedServer))
DeleteChannel(c) == <<selectedServer, c>> \in shelf /\ c # caller /\ Edit("deleteChannel", c)

\* What a handler does when its command is answered: a new server gets its two
\* channels first, and every edit ends in a sync.
EditAnswered(kind, of) ==
    /\ Answered({kind}) /\ Head(commands).of = of
    /\ CASE kind = "create" -> /\ commands' = Append(Tail(commands), Ask("main", 0, Text(of)))
                               /\ UNCHANGED <<syncs, started, choice, spoilt>>
         [] kind = "main"   -> /\ commands' = Append(Tail(commands),
                                                   Ask("voice", 0, Voice(Home(of))))
                               /\ UNCHANGED <<syncs, started, choice, spoilt>>
         [] kind = "join"   -> StartSync(of, Tail(commands))
         [] kind = "deleteServer" -> StartSync(0, Tail(commands))
         [] OTHER           -> StartSync(Home(of), Tail(commands))
    /\ UNCHANGED <<hubVars, linked, listVars, lateVoice, limitVars>>

EditKinds == {"create", "main", "voice", "join", "deleteServer", "channel", "deleteChannel"}

-----------------------------------------------------------------------------
(* The connection *)

\* All that was asked fails, events are lost, and the conversations are put away.
Break ==
    /\ linked /\ MayHappen /\ breaks < MaxBreaks /\ breaks' = breaks + 1 /\ linked' = FALSE
    /\ commands' = <<>> /\ asked' = FALSE /\ frames' = <<>> /\ held' = {}
    /\ syncs' = [j \in 1..MaxSyncs |-> NoSync] /\ dms' = {}
    /\ spoilt' = (spoilt \/ commands # <<>>)
    /\ lateVoice' = TRUE
    /\ UNCHANGED <<members, deleted, channels, caller, departing, stale, started, servers,
                   shelf, selectedServer, selectedChannel, shown, choice, edits, moves, errors>>

\* Back: a sync starts, and the conversations are asked for behind its first
\* command.
Restore ==
    /\ ~linked /\ started < MaxSyncs /\ started' = started + 1
    /\ syncs' = [syncs EXCEPT ![started'].on = TRUE]
    /\ commands' = <<Ask("servers", started', 0), Ask("dms", 0, 0)>> /\ linked' = TRUE
    /\ UNCHANGED <<hubVars, asked, frames, listVars, noteVars, limitVars>>

ServerNext ==
    \/ HubAnswers \/ HubReads \/ HubPushes \/ HubRefuses
    \/ PeriodicSync \/ ServersArrive \/ ChannelsArrive \/ Refused \/ ConversationsArrive
    \/ \E s \in Servers :
          \/ SelectServer(s)
          \/ \E c \in {Text(s), Voice(s)} :
                \/ VoiceJoins(c) \/ VoiceLeaves(c) \/ TellMembers(c) \/ VoiceArrives(c)
                \/ MessageIn(c) \/ MessageArrives(c)
                \/ SelectChannel(c) \/ DeleteChannel(c)
                \/ \E kind \in EditKinds, of \in {s, c} : EditAnswered(kind, of)
    \/ SelectChannel(TheDM) \/ CreateServer \/ JoinServer \/ DeleteServer \/ CreateChannel
    \/ Break \/ Restore

-----------------------------------------------------------------------------
(* Properties *)

\* However syncs overlap, when they are done the server on screen is the one
\* last asked for - clicked, joined or made - as long as it is there and no
\* command failed (useServers.ts reads the selection after the awaits).
LastChoiceWins ==
    commands = <<>> /\ ~spoilt /\ choice # 0 => selectedServer = choice

\* The participants shown are those of the hub once no event of them is on its
\* way or still to be pushed: snapshots and events add up to the same list.
\* Unless the sync applied last was overtaken by an event, the connection was
\* lost since, or a voice_user_left was pushed late - after its user had joined
\* again, or between the reading of a snapshot and its push: then until a sync
\* that has begun after it is done.
VoiceListRight ==
    linked /\ ~lateVoice /\ (\A i \in 1..Len(frames) : frames[i].kind \notin {"joined", "left"})
        => \A s \in servers \intersect members :
              Voice(s) \in channels \ departing =>
                  (Voice(s) \in shown <=> caller = Voice(s))

\* Once the syncs are done: the server last asked for, and who is in its call.
ServerListSettles == LastChoiceWins /\ VoiceListRight

\* What arrives never takes the user out of an open conversation, across lost
\* connections too: the conversations are back before the sync that would not
\* know this one (useServers.ts: "silently clobber a selected DM").  The answer
\* that there are no servers does it all the same, and after an answer that
\* is an error the order of what is under way is no longer known.
ConversationStays ==
    [][frames # <<>> /\ frames' = Tail(frames) /\ errors = 0 /\ servers' # {}
          => (selectedChannel = TheDM => selectedChannel' = TheDM)]_serverVars
=============================================================================
