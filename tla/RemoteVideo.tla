---------------------------- MODULE RemoteVideo -----------------------------
(***************************************************************************)
(* What a listener sees of one other user of a call: subscriptions to the  *)
(* camera and the screen, their quality, and the tile.                     *)
(* services/sfuCallClient.ts, with the events and answers of the hub       *)
(* (internal/service/server/hub.go, internal/service/sfu/peer.go).         *)
(*                                                                         *)
(* The hub's events arrive in order, offers among them; the track an offer *)
(* brings appears only when the signal queue has dealt with it.            *)
(***************************************************************************)
EXTENDS Naturals, Sequences, SequencesExt

CONSTANTS
    MaxMoves,       \* bound: how often the other user does something
    MaxResets       \* bound: how often the listener's session is replaced

ASSUME RemoteAssumption == MaxMoves \in Nat /\ MaxResets \in Nat

Sources == {"camera", "screen"}

VARIABLES
    present,        \* the other user's session, or 0
    on,             \* sources the other user has switched on
    unsaid,         \* sources it has said nothing of in this session
    active,         \* sources the listener was told of last as published
    tracked,        \* sources whose media the server has received
    untold,         \* what of a leaving is to be pushed yet
    ending,         \* feeds a leaving has still to end
    want,           \* want[s]: the quality the server feeds the listener
    events,         \* events on their way to the listener
    coming,         \* tracks of offers received, each with its session
    slot,           \* remoteVideoTracks: slot[s] a session, or 0
    tile,           \* remoteStreams has the user
    onScreen,       \* the video track in the tile, or <<>>
    hidden,         \* hiddenRemoteVideo
    subscribed,     \* subscribedVideo
    wishes,         \* pendingVideoSubscriptions
    debounce,       \* subscribeDebounceTimer is set
    loud,           \* activeSpeakers has the user
    asks,           \* sfu_subscribe_video commands, the first one pending
    joins, moves, resets,
    failedAsk,      \* a command failed
    lateTrack,      \* a track came after the listener had seen its user leave
    lateEnd         \* the user joined before all of its leaving was done

sourceVars == <<on, unsaid, active, tracked>>
leaveVars == <<untold, ending>>
roomVars == <<present, sourceVars, leaveVars, want>>
viewVars == <<slot, tile, onScreen, hidden>>
subVars == <<subscribed, wishes, debounce, loud, asks>>
history == <<failedAsk, lateTrack, lateEnd>>
boundVars == <<joins, moves, resets>>
remoteVars == <<roomVars, events, coming, viewVars, subVars, boundVars, history>>

RemoteInit ==
    /\ present = 0 /\ on = {} /\ unsaid = {} /\ active = {} /\ tracked = {}
    /\ untold = {} /\ ending = {}
    /\ want = [s \in Sources |-> "none"]
    /\ events = <<>> /\ coming = <<>>
    /\ slot = [s \in Sources |-> 0] /\ tile = FALSE /\ onScreen = <<>> /\ hidden = {}
    /\ subscribed = {} /\ wishes = {} /\ debounce = FALSE /\ loud = FALSE
    /\ asks = <<>>
    /\ joins = 0 /\ moves = 0 /\ resets = 0
    /\ failedAsk = FALSE /\ lateTrack = FALSE /\ lateEnd = FALSE

EmitOf(e, s, p) == events' = Append(events, [event |-> e, source |-> s, of |-> p])
Emit(e, s) == EmitOf(e, s, present)

-----------------------------------------------------------------------------
(* The other user and the server *)

(* The other user does something, as often as the bound allows.            *)
UserMoves == moves < MaxMoves /\ moves' = moves + 1

\* Whoever joins announces at once that the camera is off.
RemoteJoins ==
    /\ present = 0 /\ UserMoves
    /\ joins' = joins + 1 /\ present' = joins'
    /\ on' = {} /\ unsaid' = {"screen"} /\ active' = {} /\ tracked' = {}
    /\ Emit("unpublished", "camera")
    /\ lateEnd' = (lateEnd \/ untold # {} \/ ending # {})
    /\ UNCHANGED <<leaveVars, want, coming, viewVars, subVars, resets, failedAsk,
                   lateTrack>>

(* The listener still has the feed of a track that has ended.              *)
Stale(s) == \E feed \in ending : feed[1] = s

\* leaveVoiceChannelInternal ends the session at once.  The listeners hear of
\* it later, each track's end from the session's own goroutine (doClose) and
\* voice_user_left when the storage has been read, in any order.
RemoteLeaves ==
    /\ present # 0 /\ present' = 0
    /\ on' = {} /\ unsaid' = {} /\ active' = {} /\ tracked' = {}
    /\ untold' = untold \cup {<<what, present>> : what \in tracked \cup {"left"}}
    /\ LET feeds == {s \in Sources : want[s] # "none" /\ ~Stale(s)} IN
       ending' = ending \cup {<<s, present>> : s \in feeds}
    /\ UNCHANGED <<want, events, coming, viewVars, subVars, boundVars, history>>

TellOfLeaving(what, p) ==
    /\ <<what, p>> \in untold /\ untold' = untold \ {<<what, p>>}
    /\ IF what = "left" THEN EmitOf("left", "camera", p) ELSE EmitOf("unpublished", what, p)
    /\ UNCHANGED <<present, sourceVars, ending, want, coming, viewVars, subVars, boundVars,
                   history>>

\* doUnsubscribe, by the listener's goroutine.  It goes by the user and the
\* source, so until then a new track of them is taken for the old one.
EndFeed(s, p) ==
    /\ <<s, p>> \in ending \ untold /\ ending' = ending \ {<<s, p>>}
    /\ want' = [want EXCEPT ![s] = "none"]
    /\ UNCHANGED <<present, sourceVars, untold, events, coming, viewVars, subVars, boundVars,
                   history>>

\* sfu_publish_state
RemoteToggles(s) ==
    /\ present # 0 /\ UserMoves
    /\ unsaid' = unsaid \ {s}
    /\ IF s \in on
       THEN on' = on \ {s} /\ active' = active \ {s} /\ Emit("unpublished", s)
       ELSE on' = on \cup {s} /\ active' = active \cup {s} /\ Emit("published", s)
    /\ UNCHANGED <<present, tracked, leaveVars, want, coming, viewVars, subVars, joins, resets,
                   history>>

\* OnTrack: the first packets of a source announce it, whether it has been
\* switched on, or off again, or not.
TrackArrives(s) ==
    /\ present # 0 /\ s \notin tracked /\ UserMoves
    /\ tracked' = tracked \cup {s} /\ active' = active \cup {s}
    /\ Emit("published", s)
    /\ UNCHANGED <<present, on, unsaid, leaveVars, want, coming, viewVars, subVars, joins,
                   resets, history>>

SpeakerChanges ==
    /\ present # 0 /\ UserMoves
    /\ \E e \in {"speaks", "silent"} : Emit(e, "camera")
    /\ UNCHANGED <<roomVars, coming, viewVars, subVars, joins, resets, history>>

\* The server executes the pending command: a first subscription brings a
\* renegotiation.  Without a track there is nothing to subscribe to, and the
\* command is never answered.
ServeAsk ==
    /\ asks # <<>> /\ Head(asks).got = "nothing"
    /\ LET a == Head(asks) IN
       IF a.source \in tracked
       THEN /\ want' = [want EXCEPT ![a.source] = a.quality]
            /\ IF want[a.source] = "none" THEN Emit("offer", a.source)
                                          ELSE UNCHANGED events
            /\ asks' = [asks EXCEPT ![1].got = "ack"]
       ELSE /\ asks' = [asks EXCEPT ![1].got = "timeout"]
            /\ UNCHANGED <<want, events>>
    /\ UNCHANGED <<present, sourceVars, leaveVars, coming, viewVars, subscribed, wishes,
                   debounce, loud, boundVars, history>>

-----------------------------------------------------------------------------
(* Subscriptions *)

\* qualityFor
QualityFor(s, speaks) == IF s = "screen" \/ speaks THEN "high" ELSE "low"

AskForVideo(s, first, speaks) ==
    [source |-> s, quality |-> QualityFor(s, speaks), first |-> first, got |-> "nothing"]

\* flushPendingSubscriptions, 300 ms after the first wish
FlushPendingSubscriptions ==
    /\ debounce /\ debounce' = FALSE /\ wishes' = {}
    /\ asks' = asks \o SetToSeq({AskForVideo(s, TRUE, loud) : s \in wishes})
    /\ subscribed' = subscribed \cup wishes
    /\ UNCHANGED <<roomVars, events, coming, viewVars, loud, boundVars, history>>

\* The pending command settles; a failed first subscription is forgotten.
SettleAsk ==
    /\ asks # <<>> /\ Head(asks).got # "nothing" /\ asks' = Tail(asks)
    /\ failedAsk' = (failedAsk \/ Head(asks).got = "timeout")
    /\ subscribed' = IF Head(asks).got = "timeout" /\ Head(asks).first
                     THEN subscribed \ {Head(asks).source} ELSE subscribed
    /\ UNCHANGED <<roomVars, events, coming, viewVars, wishes, debounce, loud,
                   boundVars, lateTrack, lateEnd>>

-----------------------------------------------------------------------------
(* The tile *)

\* reconcileRemoteVideo: the screen before the camera, nothing that is paused.
Desired(slots, paused) ==
    IF slots["screen"] # 0 /\ "screen" \notin paused THEN <<"screen", slots["screen"]>>
    ELSE IF slots["camera"] # 0 /\ "camera" \notin paused
    THEN <<"camera", slots["camera"]>> ELSE <<>>

\* The view is given the stream with what is to be seen of the user, or told
\* that the user is gone.
ShowTile(slots, paused) == tile' = TRUE /\ onScreen' = Desired(slots, paused)
DropTile ==
    slot' = [s \in Sources |-> 0] /\ tile' = FALSE /\ onScreen' = <<>> /\ hidden' = {}

\* refreshRemoteVideo, after hiddenRemoteVideo has become "paused"
RefreshTile(paused) ==
    /\ hidden' = paused
    /\ onScreen' = IF tile THEN Desired(slot, paused) ELSE onScreen
    /\ UNCHANGED <<slot, tile>>

\* handleTrack
OnTrack ==
    /\ coming # <<>> /\ coming' = Tail(coming)
    /\ slot' = [slot EXCEPT ![Head(coming)[1]] = Head(coming)[2]]
    /\ ShowTile(slot', hidden) /\ UNCHANGED hidden
    /\ lateTrack' = (lateTrack \/ (Head(coming)[2] # present
                       /\ (\A word \in untold : word[1] # "left")
                       /\ \A i \in DOMAIN events : events[i].event # "left"))
    /\ UNCHANGED <<roomVars, events, subVars, boundVars, failedAsk, lateEnd>>

\* handleTrackPublished
TrackPublished(s) ==
    /\ RefreshTile(hidden \ {s})
    /\ IF s \in subscribed
       THEN UNCHANGED <<wishes, debounce>>
       ELSE wishes' = wishes \cup {s} /\ debounce' = TRUE
    /\ UNCHANGED <<subscribed, loud, asks>>

\* handleTrackUnpublished
TrackUnpublished(s) == RefreshTile(hidden \cup {s}) /\ UNCHANGED subVars

(* Bug: what was subscribed stays so when the user leaves. *)
VoiceUserLeftKeeps ==
    /\ DropTile
    /\ wishes' = {}
    /\ UNCHANGED <<subscribed, debounce, loud, asks>>

\* handleVoiceUserLeft
VoiceUserLeft ==
    /\ DropTile
    /\ subscribed' = {} /\ wishes' = {}
    /\ UNCHANGED <<debounce, loud, asks>>

\* handleActiveSpeakers: a camera that is subscribed is asked for again.
ActiveSpeakers(speaks) ==
    /\ loud' = speaks
    /\ asks' = IF speaks # loud /\ "camera" \in subscribed
               THEN Append(asks, AskForVideo("camera", FALSE, speaks)) ELSE asks
    /\ UNCHANGED <<viewVars, subscribed, wishes, debounce>>

Deliver ==
    /\ events # <<>> /\ events' = Tail(events)
    /\ LET e == Head(events) IN
       \/ e.event = "published" /\ TrackPublished(e.source)
       \/ e.event = "unpublished" /\ TrackUnpublished(e.source)
       \/ e.event = "left" /\ VoiceUserLeft
       \/ e.event = "speaks" /\ ActiveSpeakers(TRUE)
       \/ e.event = "silent" /\ ActiveSpeakers(FALSE)
       \/ e.event = "offer" /\ UNCHANGED <<viewVars, subVars>>
    /\ coming' = IF Head(events).event = "offer"
                 THEN Append(coming, <<Head(events).source, Head(events).of>>) ELSE coming
    /\ UNCHANGED <<roomVars, boundVars, history>>

\* The listener's session is replaced: teardownPeerConnection forgets it all,
\* commands under way fail, and the new session gets a snapshot of what has
\* not been said to be off (publishedVideoTrackInfos).
Reset ==
    /\ resets < MaxResets /\ resets' = resets + 1
    /\ want' = [s \in Sources |-> "none"] /\ ending' = {} /\ coming' = <<>>
    /\ DropTile
    /\ subscribed' = {} /\ wishes' = {} /\ debounce' = FALSE /\ loud' = FALSE
    /\ asks' = <<>>
    /\ active' = active \cap (on \cup unsaid)
    /\ events' = SetToSeq({[event |-> "published", source |-> s, of |-> present]
                          : s \in active' \cap tracked})
    /\ lateEnd' = (lateEnd /\ untold # {})
    /\ UNCHANGED <<present, on, unsaid, tracked, untold, joins, moves, failedAsk,
                   lateTrack>>

-----------------------------------------------------------------------------
RemoteNext ==
    \/ RemoteJoins \/ RemoteLeaves \/ SpeakerChanges \/ ServeAsk
    \/ \E s \in Sources : RemoteToggles(s) \/ TrackArrives(s)
    \/ \E word \in untold : TellOfLeaving(word[1], word[2])
    \/ \E feed \in ending : EndFeed(feed[1], feed[2])
    \/ FlushPendingSubscriptions \/ SettleAsk \/ OnTrack \/ Deliver \/ Reset

-----------------------------------------------------------------------------
(* Properties *)

Arrived ==
    /\ untold = {} /\ ending = {}
    /\ events = <<>> /\ coming = <<>> /\ asks = <<>> /\ ~debounce

\* When everything has arrived, the tile of a user in the call shows the
\* screen if it was published last, else the camera if it was, else nothing,
\* with the tracks of the user's present session; unless a command failed, or
\* a track was late (handleTrack makes a tile even for a user who has left),
\* or the user joined again before all of its leaving was told and done and
\* the listener has had the same session since.
TileIsRight ==
    Arrived /\ present # 0 /\ ~failedAsk /\ ~lateTrack /\ ~lateEnd /\ active \subseteq tracked
        => onScreen = Desired([s \in Sources |-> IF s \in active THEN present ELSE 0], {})

\* The layer the server feeds is the one for a speaker exactly if the client
\* holds the user for a speaker, however subscriptions, their answers and
\* changes of speakers interleaved; unless a command failed or a joining
\* overtook what was left of a leaving.
QualityFollows ==
    Arrived /\ ~failedAsk /\ ~lateEnd /\ want["camera"] # "none"
        => want["camera"] = QualityFor("camera", loud)

\* Once all has arrived the tile shows the right tracks in the right layer.
RemoteVideoSettles == TileIsRight /\ QualityFollows
=============================================================================
