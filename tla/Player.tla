------------------------------- MODULE Player -------------------------------
(* The player of audio and video attachments (hooks/useMediaPlayer.ts,     *)
(* services/playlistService.ts, controls of components/MediaPlayer.tsx).   *)
(* Volume goes through the media element until boost, equaliser or         *)
(* visualiser need a Web Audio graph, and through the graph's gain for     *)
(* good from then on.  The end of a track, the buttons and the list choose *)
(* the next index; the element plays on only when an effect sees a new     *)
(* track.  Volume is in halves, boost single or double.  The effects that  *)
(* follow a change of state run before the next event.                     *)
EXTENDS Naturals, Sequences, SequencesExt

CONSTANT MaxTracksOf    \* bound: a player has one to so many tracks

ASSUME PlayerAssumption == MaxTracksOf \in Nat \ {0}

VARIABLES
    queue,          \* number of tracks; a player keeps the tracks it got
    index,          \* currentTrackIndex, from 0
    order, shuffled,        \* shuffleOrderRef, state.shuffle
    loopMode,
    playing,        \* the element is not paused
    position,       \* "start", "late" (past three seconds) or "end"
    volume, boost, muted,   \* state of the hook
    extras,         \* eqEnabled, visualizerEnabled
    routed,         \* the graph exists
    elVolume, elMuted, gain,        \* what the element and the graph do
    mutedFirst      \* the element was muted when the graph was made

loudVars == <<volume, boost, muted, extras, routed, elVolume, elMuted, gain, mutedFirst>>
trackVarsOfPlayer == <<queue, index, order, shuffled, loopMode, playing, position>>
playerVars == <<loudVars, trackVarsOfPlayer>>

PlayerInit ==
    /\ queue \in 1..MaxTracksOf /\ index = 0
    /\ order = <<>> /\ shuffled = FALSE /\ loopMode = "off"
    /\ playing = FALSE /\ position = "start"
    /\ volume = 2 /\ boost = 1 /\ muted = FALSE /\ extras = {}
    /\ routed = FALSE /\ elVolume = 2 /\ elMuted = FALSE /\ gain = 2
    /\ mutedFirst = FALSE

-----------------------------------------------------------------------------
(* Loudness.                                                               *)

\* Bug: the graph is only used while something needs it.
ApplyVolumeUnrouted(v, b, m, fx) ==
    IF b > 1 \/ fx # {}
    THEN /\ routed' = TRUE /\ elVolume' = 2 /\ gain' = (IF m THEN 0 ELSE v * b)
         /\ mutedFirst' = (mutedFirst \/ (~routed /\ elMuted))
         /\ UNCHANGED elMuted
    ELSE elVolume' = v /\ elMuted' = m /\ UNCHANGED <<routed, gain, mutedFirst>>

(* The effect on volume, boost, muted, eqEnabled and visualizerEnabled.    *)
ApplyVolume(v, b, m, fx) ==
    IF routed \/ b > 1 \/ fx # {}
    THEN /\ routed' = TRUE /\ elVolume' = 2 /\ gain' = (IF m THEN 0 ELSE v * b)
         /\ mutedFirst' = (mutedFirst \/ (~routed /\ elMuted))
         /\ UNCHANGED elMuted
    ELSE elVolume' = v /\ elMuted' = m /\ UNCHANGED <<routed, gain, mutedFirst>>

SetLoudness(v, b, m, fx) ==
    /\ volume' = v /\ boost' = b /\ muted' = m /\ extras' = fx
    /\ IF <<v, b, m, fx>> = <<volume, boost, muted, extras>>
       THEN UNCHANGED <<routed, elVolume, elMuted, gain, mutedFirst>>
       ELSE ApplyVolume(v, b, m, fx)
    /\ UNCHANGED trackVarsOfPlayer

SetVolume(v) == SetLoudness(v, boost, muted /\ v = 0, extras)
SetBoost(b) == SetLoudness(volume, b, muted, extras)
ToggleMute == SetLoudness(volume, boost, ~muted, extras)
ToggleExtra(x) ==
    SetLoudness(volume, boost, muted, (extras \ {x}) \union ({x} \ extras))

-----------------------------------------------------------------------------
(* Tracks.                                                                 *)

Straight == [i \in 1..queue |-> i - 1]
ActiveOrder == IF shuffled /\ Len(order) = queue THEN order ELSE Straight
Place(i) == CHOOSE p \in 1..queue : ActiveOrder[p] = i
Stop == queue       \* getNextIndex and getPreviousIndex return null

GetNextIndex ==
    IF Place(index) < queue THEN ActiveOrder[Place(index) + 1]
    ELSE IF loopMode = "all" THEN ActiveOrder[1] ELSE Stop

GetPreviousIndex ==
    IF Place(index) > 1 THEN ActiveOrder[Place(index) - 1]
    ELSE IF loopMode = "all" THEN ActiveOrder[queue] ELSE Stop

(* playTrackAt, and the effect that loads and plays a track that is new.   *)
PlayTrackAt(i) ==
    /\ index' = i
    /\ IF i = index THEN UNCHANGED <<playing, position>>
       ELSE playing' \in BOOLEAN /\ position' = "start"     \* play() may be refused

StopPlaying == playing' = FALSE /\ position' = "start" /\ UNCHANGED index

NextTrack == IF GetNextIndex = Stop THEN StopPlaying ELSE PlayTrackAt(GetNextIndex)

SameList == UNCHANGED <<queue, order, shuffled, loopMode>> /\ UNCHANGED loudVars

PressNext == NextTrack /\ SameList
PressStop == StopPlaying /\ SameList

PressPrevious ==
    /\ IF position # "start" THEN position' = "start" /\ UNCHANGED <<index, playing>>
       ELSE IF GetPreviousIndex = Stop THEN UNCHANGED <<index, playing, position>>
       ELSE PlayTrackAt(GetPreviousIndex)
    /\ SameList

TogglePlay ==
    /\ playing' = ~playing
    /\ position' = IF position = "end" /\ ~playing THEN "start" ELSE position
    /\ UNCHANGED index /\ SameList

Seek(to) == position' = to /\ UNCHANGED <<index, playing>> /\ SameList

(* onEnded: the element has paused at the end.                             *)
TrackEnds ==
    IF loopMode = "one" THEN playing' \in BOOLEAN /\ position' = "start" /\ UNCHANGED index
    ELSE IF GetNextIndex = index
         THEN playing' = FALSE /\ position' = "end" /\ UNCHANGED index
         ELSE NextTrack

PlaysOn == playing /\ position = "start" /\ position' = "late"
           /\ UNCHANGED <<index, playing>> /\ SameList
Ended == playing /\ position = "late" /\ TrackEnds /\ SameList

CycleLoopMode ==
    /\ loopMode' = CASE loopMode = "off" -> "all" [] loopMode = "all" -> "one" [] OTHER -> "off"
    /\ UNCHANGED <<queue, index, order, shuffled, playing, position>> /\ UNCHANGED loudVars

ToggleShuffle ==
    /\ shuffled' = ~shuffled
    /\ order' \in IF shuffled THEN {<<>>}
                  ELSE {<<index>> \o rest : rest \in SetToSeqs((0..queue - 1) \ {index})}
    /\ UNCHANGED <<queue, index, loopMode, playing, position>> /\ UNCHANGED loudVars

PlayerNext ==
    \/ \E v \in 0..2 : SetVolume(v)
    \/ \E b \in 1..2 : SetBoost(b)
    \/ ToggleMute
    \/ \E x \in {"equalizer", "visualizer"} : ToggleExtra(x)
    \/ PressNext \/ PressStop \/ PressPrevious \/ TogglePlay
    \/ \E to \in {"start", "late"} : Seek(to)
    \/ PlaysOn \/ Ended \/ CycleLoopMode \/ ToggleShuffle

-----------------------------------------------------------------------------
Loudness == IF elMuted THEN 0 ELSE elVolume * (IF routed THEN gain ELSE 2)

(* What is heard is what the controls say, through every change from the   *)
(* element to the graph, except after a mute that came before the graph:   *)
(* the element stays muted, since only the branch without a graph unmutes. *)
LoudnessIsSet ==
    /\ ~mutedFirst => Loudness = (IF muted THEN 0 ELSE 2 * volume * boost)
    /\ mutedFirst => Loudness = 0

(* A track that has ended never just sits there: it is rewound, repeated   *)
(* or followed by another.  Except for the one track of an attachment in   *)
(* mode "all": the next index is the same, so no effect plays it again.    *)
EndIsHandled == position = "end" => ~playing /\ queue = 1

(* The player does what its controls say, of the volume and of the end.    *)
PlayerObeys == LoudnessIsSet /\ EndIsHandled
=============================================================================
