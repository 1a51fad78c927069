----------------------------- MODULE LocalMedia ------------------------------
(***************************************************************************)
(* What the user captures in a call: microphone, camera and screen.        *)
(* services/sfuCallClient.ts with services/localCapture.ts, under the      *)
(* buttons of hooks/useVoice.ts.                                           *)
(*                                                                         *)
(* Four calls of async functions may be under way at once: a change of     *)
(* noise suppression, a camera start, a camera flip, a screen share.  Each *)
(* action is what one does between two awaits.  Meanwhile the user mutes   *)
(* and unmutes, leaves, joins, and the client rejoins on its own.          *)
(***************************************************************************)
EXTENDS Naturals, FiniteSets

CONSTANTS
    MaxTracks,      \* bound: tracks captured or made
    MaxSenders      \* bound: peer connections opened

ASSUME MediaAssumption == MaxTracks \in Nat /\ MaxSenders \in Nat

Tracks == 1..MaxTracks
Jobs == {"mode", "camera", "flip", "screen"}

VARIABLES
    made,           \* tracks so far; 0 stands for no track
    live, enabled,  \* tracks not stopped; tracks that are not muted
    feeds,          \* feeds[t]: the raw track an RNNoise track is made from
    capture,        \* number of the call that owns this.capture, or 0
    raw,            \* LocalCapture.rawTrack
    graph,          \* the track the RNNoise graph puts out, or 0
    mode,           \* LocalCapture.mode
    localMic, localCam,     \* the tracks of localStream
    senders,        \* number of the peer connection, 0 between calls
    opened,         \* peer connections so far
    sentMic, sentCam, sentScreen,   \* what its senders hold
    screen,         \* screenStream
    cameraEnabled,
    told,           \* what the server believes of the camera
    micOn, deaf, micBefore,         \* isMicEnabled, isDeafened of useVoice
    job,            \* job[j]: where j waits and what it remembers
    strayed,        \* an async call outlived the call or the connection
    staleFlip       \* a flip put back a microphone replaced meanwhile

trackVars == <<made, live, enabled, feeds>>
captureVars == <<capture, raw, graph, mode, localMic, localCam>>
senderVars == <<senders, opened, sentMic, sentCam, sentScreen, told>>
buttonVars == <<micOn, deaf, micBefore>>
mediaVars == <<trackVars, captureVars, senderVars, screen, cameraEnabled,
               buttonVars, job, strayed, staleFlip>>

Idle == [at |-> "idle", of |-> 0, via |-> 0, mic |-> 0, cam |-> 0, track |-> 0]

MediaInit ==
    /\ made = 0 /\ live = {} /\ enabled = {} /\ feeds = [t \in Tracks |-> 0]
    /\ capture = 0 /\ raw = 0 /\ graph = 0 /\ mode = "browser"
    /\ localMic = 0 /\ localCam = 0
    /\ senders = 0 /\ opened = 0
    /\ sentMic = 0 /\ sentCam = 0 /\ sentScreen = 0 /\ told = FALSE
    /\ screen = 0 /\ cameraEnabled = FALSE
    /\ micOn = TRUE /\ deaf = FALSE /\ micBefore = TRUE
    /\ job = [j \in Jobs |-> Idle] /\ strayed = FALSE /\ staleFlip = FALSE

\* j waits for a prompt, a promise or a device, and remembers the capture, the
\* senders and the tracks it found.
Start(j, at) ==
    job' = [job EXCEPT ![j] = [at |-> at, of |-> capture, via |-> senders,
                               mic |-> localMic, cam |-> localCam, track |-> 0]]
Proceed(j, at, t) == job' = [job EXCEPT ![j].at = at, ![j].track = t]
End(j) == job' = [job EXCEPT ![j] = Idle]
Waits(j, at) == job[j].at = at

\* getUserMedia or getDisplayMedia delivers the next track.
Captures(t) ==
    /\ made < MaxTracks /\ t = made + 1 /\ made' = t

\* The connection j remembers is still the one in use.
Attached(j) == job[j].via = senders

-----------------------------------------------------------------------------
(* Calls *)

\* join() captures a microphone, through RNNoise or not, or fails to and only
\* listens.  restoreCameraState announces that the camera is off.
JoinCall ==
    /\ capture = 0 /\ opened < MaxSenders /\ made + 2 <= MaxTracks
    /\ opened' = opened + 1 /\ senders' = opened' /\ capture' = opened'
    /\ \E mic, clean \in BOOLEAN :
          /\ clean => mic /\ mode = "rnnoise"
          /\ made' = made + (IF clean THEN 2 ELSE IF mic THEN 1 ELSE 0)
          /\ live' = live \cup (made + 1)..made'
          /\ enabled' = enabled \cup (made + 1)..made'
          /\ raw' = IF mic THEN made + 1 ELSE 0
          /\ graph' = IF clean THEN made' ELSE 0
          /\ feeds' = IF clean THEN [feeds EXCEPT ![made'] = raw'] ELSE feeds
          /\ localMic' = IF clean THEN graph' ELSE raw'
    /\ sentMic' = localMic' /\ localCam' = 0 /\ sentCam' = 0 /\ sentScreen' = 0
    /\ cameraEnabled' = FALSE /\ told' = FALSE
    /\ micOn' = TRUE /\ deaf' = FALSE
    /\ UNCHANGED <<mode, screen, micBefore, job, strayed, staleFlip>>

\* The RNNoise graph is taken apart; its raw track goes on.
DisposeGraph == graph' = 0

\* leave(): what the client knows of is stopped.
LeaveCall ==
    /\ capture # 0
    /\ live' = live \ {raw, localMic, localCam, screen}
    /\ capture' = 0 /\ raw' = 0 /\ DisposeGraph /\ localMic' = 0 /\ localCam' = 0
    /\ senders' = 0 /\ sentMic' = 0 /\ sentCam' = 0 /\ sentScreen' = 0
    /\ screen' = 0 /\ cameraEnabled' = FALSE /\ told' = FALSE
    /\ micOn' = TRUE /\ deaf' = FALSE
    /\ UNCHANGED <<made, enabled, feeds, mode, opened, micBefore, job, strayed,
                   staleFlip>>

\* restoreCameraState; an unannounced source counts as active.
RestoreCameraState == told' = (cameraEnabled /\ localCam # 0)

\* rejoin() with a new session: new senders take the tracks of localStream.
\* The screen is not attached again.
RejoinCall ==
    /\ senders # 0 /\ opened < MaxSenders
    /\ opened' = opened + 1 /\ senders' = opened'
    /\ sentMic' = localMic /\ sentCam' = localCam /\ sentScreen' = 0
    /\ RestoreCameraState
    /\ UNCHANGED <<trackVars, captureVars, screen, cameraEnabled, buttonVars,
                   job, strayed, staleFlip>>

-----------------------------------------------------------------------------
(* Mute and deafen *)

\* setMicrophoneEnabled acts on localStream only.
SetMicrophoneEnabled(on) ==
    enabled' = IF on THEN enabled \cup ({localMic} \ {0}) ELSE enabled \ {localMic}

OnlyButtons == UNCHANGED <<made, live, feeds, captureVars, senderVars, screen,
                           cameraEnabled, job, strayed, staleFlip>>

ToggleMicrophone ==
    /\ capture # 0 /\ ~deaf
    /\ micOn' = ~micOn /\ SetMicrophoneEnabled(micOn')
    /\ UNCHANGED <<deaf, micBefore>> /\ OnlyButtons

ToggleDeafen ==
    /\ capture # 0 /\ deaf' = ~deaf
    /\ micBefore' = IF deaf THEN micBefore ELSE micOn
    /\ micOn' = (deaf /\ micBefore) /\ SetMicrophoneEnabled(micOn')
    /\ OnlyButtons

-----------------------------------------------------------------------------
(* Noise suppression *)

(* Bug: a new track is never muted. *)
SwapMicTrackLive(next, L, E) ==
    /\ enabled' = E \cup {next}
    /\ localMic' = next /\ sentMic' = IF senders # 0 THEN next ELSE sentMic
    /\ live' = L \ (IF localMic \in {next, raw'} THEN {} ELSE {localMic})

\* swapMicTrack(next), with L live and E enabled: the mute state is carried
\* over, and the previous track is stopped unless it is the raw one.
SwapMicTrack(next, L, E) ==
    /\ enabled' = IF localMic = 0 \/ localMic \in enabled THEN E \cup {next}
                                                          ELSE E \ {next}
    /\ localMic' = next /\ sentMic' = IF senders # 0 THEN next ELSE sentMic
    /\ live' = L \ (IF localMic \in {next, raw'} THEN {} ELSE {localMic})

\* setNoiseSuppressionMode: remembered for the next call; setMode begins if
\* there is a microphone.
StartMode ==
    /\ job["mode"] = Idle
    /\ mode' = IF mode = "browser" THEN "rnnoise" ELSE "browser"
    /\ IF raw = 0 THEN UNCHANGED job
       ELSE job' = [job EXCEPT !["mode"] = [Idle EXCEPT
                      !.at = "constrain", !.of = capture, !.track = raw]]
    /\ UNCHANGED <<trackVars, capture, raw, graph, localMic, localCam, senderVars,
                   screen, cameraEnabled, buttonVars, strayed, staleFlip>>

MyCapture == job["mode"].of = capture
ModeChanges ==
    /\ strayed' = (strayed \/ ~MyCapture)
    /\ UNCHANGED <<capture, mode, localCam, senders, opened, sentCam, sentScreen,
                   told, screen, cameraEnabled, buttonVars, staleFlip>>

\* The raw track is t now: the old graph is disposed of, and a new one built
\* in mode "rnnoise".
ContinueWith(t, L, E) ==
    /\ raw' = IF MyCapture THEN t ELSE raw
    /\ IF MyCapture THEN DisposeGraph ELSE UNCHANGED graph
    /\ UNCHANGED feeds /\ ModeChanges
    /\ IF mode = "rnnoise"
       THEN /\ Proceed("mode", "build", t)
            /\ live' = L /\ enabled' = E /\ UNCHANGED <<localMic, sentMic>>
       ELSE End("mode") /\ SwapMicTrack(t, L, E)

\* applyConstraints succeeds or, on some browsers, does not.
ModeConstrained ==
    Waits("mode", "constrain") /\ UNCHANGED made
    /\ ContinueWith(job["mode"].track, live, enabled)
ModeRefused ==
    /\ Waits("mode", "constrain") /\ Proceed("mode", "reacquire", job["mode"].track)
    /\ UNCHANGED <<trackVars, captureVars, senderVars, screen, cameraEnabled,
                   buttonVars, strayed, staleFlip>>

\* A new microphone takes the place of the old one, or cannot be had.
ModeReacquired ==
    /\ Waits("mode", "reacquire")
    /\ \E t \in Tracks :
          /\ Captures(t)
          /\ ContinueWith(t, (live \cup {t}) \ {job["mode"].track}, enabled \cup {t})

\* The graph is ready, or the raw track has to do.
ModeBuilt ==
    /\ Waits("mode", "build") /\ End("mode") /\ ModeChanges
    /\ \/ \E t \in Tracks :
             /\ Captures(t)
             /\ feeds' = [feeds EXCEPT ![t] = job["mode"].track]
             /\ graph' = IF MyCapture THEN t ELSE graph
             /\ UNCHANGED raw
             /\ SwapMicTrack(t, live \cup {t}, enabled \cup {t})
       \/ /\ UNCHANGED <<made, feeds, raw, graph>>
          /\ SwapMicTrack(job["mode"].track, live, enabled)

\* checkWatchdogFallback: the graph is given up for the raw track.
FallsBack == graph # 0 /\ DisposeGraph

\* applyCaptureWatchdog: the graph's AudioContext has been suspended for long.
Watchdog ==
    /\ FallsBack
    /\ UNCHANGED <<made, feeds, raw, capture, mode, localCam, senders, opened,
                   sentCam, sentScreen, told, screen, cameraEnabled, buttonVars,
                   job, strayed, staleFlip>>
    /\ SwapMicTrack(raw, live, enabled)

-----------------------------------------------------------------------------
(* Camera *)

CameraChanges == UNCHANGED <<feeds, capture, raw, graph, mode, senders, opened,
                             sentMic, sentScreen, screen, buttonVars>>
NoChange == UNCHANGED <<captureVars, senderVars, screen, cameraEnabled, buttonVars>>

StartCamera ==
    /\ job["camera"] = Idle /\ job["flip"] = Idle
    /\ ~cameraEnabled /\ capture # 0 /\ localMic # 0
    /\ Start("camera", "prompt")
    /\ UNCHANGED <<trackVars, strayed, staleFlip>> /\ NoChange

\* A prompt is declined.
Declined(j) ==
    /\ Waits(j, "prompt") /\ End(j)
    /\ UNCHANGED <<trackVars, strayed, staleFlip>> /\ NoChange

\* The camera is there; a user who is in no call any more is noticed.
CameraGranted ==
    /\ Waits("camera", "prompt")
    /\ \E t \in Tracks :
          /\ Captures(t)
          /\ IF capture = 0 \/ localMic = 0
             THEN End("camera") /\ UNCHANGED live
             ELSE Proceed("camera", "attach", t) /\ live' = live \cup {t}
    /\ UNCHANGED <<enabled, feeds, strayed, staleFlip>> /\ NoChange

\* sender.replaceTrack resolves, or rejects: the connection was closed.
CameraAttached ==
    /\ Waits("camera", "attach") /\ End("camera")
    /\ IF Attached("camera")
       THEN /\ localCam' = job["camera"].track /\ sentCam' = localCam'
            /\ cameraEnabled' = TRUE /\ told' = TRUE
            /\ UNCHANGED strayed
       ELSE strayed' = TRUE /\ UNCHANGED <<localCam, sentCam, cameraEnabled, told>>
    /\ UNCHANGED <<made, live, enabled, localMic, staleFlip>> /\ CameraChanges

(* Bug: the camera's light stays on. *)
ReleaseCameraSoftly ==
    /\ sentCam' = 0 /\ localCam' = 0 /\ UNCHANGED live

\* releaseCameraTrack
ReleaseCameraTrack ==
    /\ sentCam' = 0 /\ localCam' = 0
    /\ live' = live \ {localCam}

\* setCameraEnabled(false), by the button or because the device went away,
\* which may also happen while the user is asked for the other camera.
StopCamera ==
    /\ cameraEnabled /\ job["camera"] = Idle
    /\ ReleaseCameraTrack
    /\ cameraEnabled' = FALSE /\ told' = FALSE
    /\ UNCHANGED <<made, enabled, localMic, job, strayed, staleFlip>> /\ CameraChanges

StartFlip ==
    /\ job["flip"] = Idle /\ screen = 0
    /\ senders # 0 /\ localMic # 0 /\ localCam # 0
    /\ Start("flip", "prompt")
    /\ UNCHANGED <<trackVars, strayed, staleFlip>> /\ NoChange

FlipGranted ==
    /\ Waits("flip", "prompt")
    /\ \E t \in Tracks : Captures(t) /\ Proceed("flip", "attach", t) /\ live' = live \cup {t}
    /\ UNCHANGED <<enabled, feeds, strayed, staleFlip>> /\ NoChange

\* The new stream is made from the tracks the flip began with.
FlipAttached ==
    /\ Waits("flip", "attach") /\ End("flip")
    /\ IF Attached("flip")
       THEN /\ localMic' = job["flip"].mic
            /\ localCam' = job["flip"].track /\ sentCam' = localCam'
            /\ live' = live \ {job["flip"].cam}
            /\ staleFlip' = (staleFlip \/ localMic # localMic'
                                       \/ localCam # job["flip"].cam)
       ELSE /\ live' = live \ {job["flip"].track}
            /\ UNCHANGED <<localMic, localCam, sentCam, staleFlip>>
    /\ UNCHANGED <<made, enabled, cameraEnabled, told, strayed>> /\ CameraChanges

-----------------------------------------------------------------------------
(* Screen *)

StartScreen ==
    /\ job["screen"] = Idle /\ job["flip"] = Idle
    /\ senders # 0 /\ localMic # 0 /\ screen = 0
    /\ Start("screen", "prompt")
    /\ UNCHANGED <<trackVars, strayed, staleFlip>> /\ NoChange

ScreenGranted ==
    /\ Waits("screen", "prompt")
    /\ \E t \in Tracks :
          Captures(t) /\ Proceed("screen", "attach", t) /\ live' = live \cup {t}
          /\ screen' = t
    /\ strayed' = (strayed \/ ~Attached("screen"))
    /\ UNCHANGED <<enabled, feeds, captureVars, senderVars, cameraEnabled, buttonVars,
                   staleFlip>>

ScreenAttached ==
    /\ Waits("screen", "attach") /\ End("screen")
    /\ IF Attached("screen")
       THEN sentScreen' = job["screen"].track /\ UNCHANGED strayed
       ELSE strayed' = TRUE /\ UNCHANGED sentScreen
    /\ UNCHANGED <<trackVars, captureVars, senders, opened, sentMic, sentCam, told,
                   screen, cameraEnabled, buttonVars, staleFlip>>

\* stopScreenShare, by the button or by the browser's own.
StopScreen ==
    /\ screen # 0 /\ job["screen"] = Idle
    /\ screen' = 0 /\ live' = live \ {screen}
    /\ sentScreen' = 0
    /\ UNCHANGED <<made, enabled, feeds, captureVars, senders, opened, sentMic,
                   sentCam, told, cameraEnabled, buttonVars, job, strayed, staleFlip>>

-----------------------------------------------------------------------------
MediaNext ==
    \/ JoinCall \/ LeaveCall \/ RejoinCall \/ ToggleMicrophone \/ ToggleDeafen
    \/ StartMode \/ ModeConstrained \/ ModeRefused \/ ModeReacquired \/ ModeBuilt
    \/ Watchdog
    \/ \E j \in Jobs : Declined(j)
    \/ StartCamera \/ CameraGranted \/ CameraAttached \/ StopCamera
    \/ StartFlip \/ FlipGranted \/ FlipAttached
    \/ StartScreen \/ ScreenGranted \/ ScreenAttached \/ StopScreen

-----------------------------------------------------------------------------
(* Properties *)

\* What the server gets from the microphone is sound.
Heard ==
    /\ sentMic \in live \cap enabled
    /\ feeds[sentMic] # 0 => feeds[sentMic] \in live \cap enabled /\ graph = sentMic

\* A user who is shown as muted is not heard, through changes of the track
\* behind the microphone, watchdogs and rejoins; until a change of noise
\* suppression ends up in another call than its own, or a flip of the camera
\* puts back a microphone that was replaced while the prompt was up.
MutedIsSilent ==
    sentMic # 0 /\ ~micOn /\ ~staleFlip /\ ~strayed => ~Heard

\* A call that was left leaves no device open, unless an answer to a prompt
\* came after the call it was for, or a flip put back what had been stopped.
DevicesReleased ==
    capture = 0 /\ (\A j \in Jobs : job[j] = Idle) /\ ~strayed /\ ~staleFlip
        => \A t \in live : feeds[t] # 0

\* The server believes of the camera what is the case: others show its tile
\* exactly while a track is sent, whatever session it was announced to.
AnnouncedIsTrue == senders # 0 /\ ~strayed /\ ~staleFlip => (told <=> sentCam # 0)

\* Devices, tracks and what others are told of them go together: a left call
\* holds no device, a camera that sends is announced and no other is.
DevicesFollow == DevicesReleased /\ AnnouncedIsTrue

(***************************************************************************)
(* Why: what was captured is held by the call or by the job that waits     *)
(* with it, and what is sent and told follows what is held.                *)
(***************************************************************************)

JobStates == [at : {"idle", "prompt", "constrain", "reacquire", "build", "attach"}, of : Nat,
              via : Nat, mic : Nat, cam : Nat, track : Nat]

TracksTypeOK ==
    /\ made \in 0..MaxTracks
    /\ live \subseteq 1..made /\ enabled \subseteq 1..made
    /\ feeds \in [Tracks -> 0..made]

HeldTypeOK ==
    /\ raw \in 0..made /\ graph \in 0..made /\ localMic \in 0..made /\ localCam \in 0..made
    /\ sentMic \in 0..made /\ sentCam \in 0..made /\ sentScreen \in 0..made
    /\ screen \in 0..made

CallTypeOK ==
    /\ opened \in Nat /\ capture \in 0..opened /\ senders \in 0..opened
    /\ mode \in {"browser", "rnnoise"}
    /\ cameraEnabled \in BOOLEAN /\ told \in BOOLEAN
    /\ micOn \in BOOLEAN /\ deaf \in BOOLEAN /\ micBefore \in BOOLEAN
    /\ strayed \in BOOLEAN /\ staleFlip \in BOOLEAN

MediaTypeOK ==
    /\ TracksTypeOK /\ HeldTypeOK /\ CallTypeOK
    /\ job \in [Jobs -> JobStates]

\* A job that waits remembers tracks and connections there have been.
JobRight(j, k) ==
    /\ k.at = "idle" => k = Idle
    /\ k.of <= opened /\ k.via <= opened
    /\ k.mic <= made /\ k.cam <= made /\ k.track <= made
    /\ j # "mode" /\ k # Idle => k.at \in {"prompt", "attach"} /\ k.via # 0
    /\ j = "mode" /\ k # Idle => k.at \in {"constrain", "reacquire", "build"} /\ k.of # 0
    /\ k.at \in {"attach", "constrain", "reacquire", "build"} => k.track # 0
    /\ j = "flip" /\ k # Idle => k.cam # 0

JobsInv ==
    /\ capture = 0 <=> senders = 0
    /\ \A j \in Jobs : JobRight(j, job[j])

\* A graph has its raw track, which is that of a call, and a change of noise suppression works on the
\* raw track of the capture it began with.
GraphInv ==
    /\ (graph # 0 => raw # 0) /\ (raw # 0 => capture # 0)
    /\ job["mode"] # Idle /\ job["mode"].of = capture => job["mode"].track = raw

\* The microphone the user mutes is the one that is sent.
MicInv ==
    /\ sentMic = localMic
    /\ raw = 0 <=> localMic = 0
    /\ localMic # 0 => capture # 0 /\ (localMic \in enabled <=> micOn)

\* The camera the user sees as on is the one that is sent and announced.
CamInv ==
    /\ sentCam = localCam
    /\ cameraEnabled <=> localCam # 0
    /\ told <=> localCam # 0
    /\ localCam # 0 => capture # 0
    /\ job["camera"] # Idle => ~cameraEnabled

\* No device is on that nothing in the client knows of.
Brings(j, t) == Waits(j, "attach") /\ job[j].track = t
Held(t) == t \in {raw, localMic, localCam, screen} \/ Brings("camera", t) \/ Brings("flip", t)

DevicesInv ==
    /\ screen # 0 => capture # 0
    /\ Waits("screen", "prompt") => screen = 0
    /\ \A t \in live : feeds[t] = 0 => Held(t)

MediaSound == MicInv /\ CamInv /\ DevicesInv

MediaInv ==
    /\ MediaTypeOK /\ JobsInv /\ GraphInv
    /\ ~strayed /\ ~staleFlip => MediaSound

=============================================================================
