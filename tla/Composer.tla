------------------------------ MODULE Composer ------------------------------
(* The message box (components/MessageInput.tsx) and handleSend of         *)
(* hooks/useMessages.ts.  A submit is a closure: it uploads the files and  *)
(* sends to the channel it saw when the form was submitted, and empties    *)
(* the box when it is done, whatever the box holds by then.  The box is    *)
(* not keyed by channel: it survives a change of text channel, and is      *)
(* unmounted while a voice channel is selected.  A text or a file is an    *)
(* item; texts have a legal length and files a legal type and size.  What  *)
(* the box refuses while offline are steps the user does not take.         *)
EXTENDS Naturals, Sequences, FiniteSets

CONSTANTS
    MaxItems,       \* bound: texts typed and files added
    MaxMounts,      \* bound: mounts of the box
    MaxBusy         \* bound: submits under way and recordings asked for, together

ASSUME ComposerAssumption == MaxItems \in Nat /\ MaxMounts \in Nat \ {0} /\ MaxBusy \in Nat

Channels == 1..2
VoiceSelected == 0

VARIABLES
    box,            \* number of the mounted box; selecting voice unmounts it
    text,           \* the item in the text field, 0 when empty
    files,          \* pendingFiles
    uploading,      \* uploadProgress is not null
    chosenChannel,  \* selectedChannelId, or VoiceSelected
    reply,          \* channel of replyToMessage, 0 without one
    submits,        \* calls of handleSubmit under way
    written,        \* items made so far
    posted,         \* item -> copies in the channel
    gone,           \* items the user removed, or lost in a way named below
    doubled         \* items submitted again while a submit held them

boxVars == <<box, text, files, uploading, chosenChannel, reply, submits, written,
             posted, gone, doubled>>

VARIABLES
    starts,         \* calls of startRecording under way
    homes,          \* homes[r]: the box in which recording r was asked for
    mics,           \* streams whose tracks are live
    streamRef, recorderRef,     \* the refs of each box, 0 is null
    running,        \* recorders started; a recorder is named by its stream
    stopping,       \* recorders stopped, onstop not run yet
    recording,      \* isRecording
    tangled         \* a recording was started over another, broke or outlived its box

recorderVars == <<starts, homes, mics, streamRef, recorderRef, running, stopping,
                  recording, tangled>>
composerVars == <<boxVars, recorderVars>>

ComposerInit ==
    /\ box = 1 /\ text = 0 /\ files = {} /\ uploading = FALSE
    /\ chosenChannel = 1 /\ reply = 0
    /\ submits = {} /\ written = 0 /\ posted = [i \in 1..MaxItems |-> 0]
    /\ gone = {} /\ doubled = {}
    /\ starts = {} /\ homes = <<>> /\ mics = {}
    /\ streamRef = [b \in 1..MaxMounts |-> 0] /\ recorderRef = [b \in 1..MaxMounts |-> 0]
    /\ running = {} /\ stopping = {} /\ recording = FALSE /\ tangled = FALSE

Mounted == chosenChannel # VoiceSelected
InBox == files \union ({text} \ {0})
Content(s) == s.files \union ({s.text} \ {0})

-----------------------------------------------------------------------------
(* Writing.                                                                *)

(* The user types into an empty field, or erases the text.                 *)
Type ==
    /\ Mounted /\ ~uploading /\ ~recording
    /\ IF text = 0 THEN written < MaxItems /\ written' = written + 1 /\ text' = written + 1
                        /\ UNCHANGED gone
       ELSE text' = 0 /\ gone' = gone \union {text} /\ UNCHANGED written
    /\ UNCHANGED <<box, files, uploading, chosenChannel, reply, submits, posted, doubled>>
    /\ UNCHANGED recorderVars

(* Dropped files are taken at any time, the picker's only when enabled.    *)
AddFile ==
    /\ Mounted /\ written < MaxItems
    /\ written' = written + 1 /\ files' = files \union {written + 1}
    /\ UNCHANGED <<box, text, uploading, chosenChannel, reply, submits, posted, gone,
                   doubled>>
    /\ UNCHANGED recorderVars

RemovePendingFile(f) ==
    /\ Mounted /\ files' = files \ {f} /\ gone' = gone \union {f}
    /\ UNCHANGED <<box, text, uploading, chosenChannel, reply, submits, written, posted,
                   doubled>>
    /\ UNCHANGED recorderVars

ChooseReply ==
    /\ Mounted /\ reply' \in {0, chosenChannel}
    /\ UNCHANGED <<box, text, files, uploading, chosenChannel, submits, written, posted,
                   gone, doubled>>
    /\ UNCHANGED recorderVars

-----------------------------------------------------------------------------
(* Sending.                                                                *)

(* Calls under way at once have different numbers: a text submitted twice  *)
(* is two calls.                                                           *)
Submit ==
    /\ Mounted /\ ~uploading /\ ~recording /\ InBox # {}
    /\ Cardinality(submits) + Len(homes) < MaxBusy
    /\ \E no \in 1..MaxBusy :
         LET s == [no |-> no, box |-> box, text |-> text, files |-> files, sent |-> {},
                   channel |-> chosenChannel, reply |-> reply,
                   phase |-> IF files # {} THEN "uploading" ELSE "sending"]
         IN  /\ {t \in submits : t.no = no} = {} /\ 1..no - 1 \subseteq {t.no : t \in submits}
             /\ submits' = submits \union {s}
    /\ uploading' = (files # {})
    /\ doubled' = doubled \union (InBox \intersect UNION {Content(s) : s \in submits})
    /\ UNCHANGED <<box, text, files, chosenChannel, reply, written, posted, gone>>
    /\ UNCHANGED recorderVars

\* Bug: a failed upload empties the box.
UploadEndsEmpty(s, done) ==
    /\ s.phase = "uploading"
    /\ IF done = {}
       THEN submits' = submits \ {s} /\ text' = 0 /\ files' = {} /\ UNCHANGED gone
       ELSE /\ submits' = (submits \ {s}) \union {[s EXCEPT !.sent = done, !.phase = "sending"]}
            /\ gone' = gone \union (s.files \ done) /\ UNCHANGED <<text, files>>
    /\ uploading' = (uploading /\ s.box # box)
    /\ UNCHANGED <<box, chosenChannel, reply, written, posted, doubled>>
    /\ UNCHANGED recorderVars

(* All uploads are settled.  The message is sent without the files that    *)
(* failed, which a toast names; without any upload it is not sent.         *)
UploadEnds(s, done) ==
    /\ s.phase = "uploading"
    /\ IF done = {}
       THEN submits' = submits \ {s} /\ UNCHANGED <<text, files, gone>>
       ELSE /\ submits' = (submits \ {s}) \union {[s EXCEPT !.sent = done, !.phase = "sending"]}
            /\ gone' = gone \union (s.files \ done) /\ UNCHANGED <<text, files>>
    /\ uploading' = (uploading /\ s.box # box)
    /\ UNCHANGED <<box, chosenChannel, reply, written, posted, doubled>>
    /\ UNCHANGED recorderVars

(* handleSend: the hub takes the items or not.  A failure is an error line *)
(* and is swallowed; only an ack clears the reply.                         *)
HandleSend(items, taken, told) ==
    /\ posted' = [i \in DOMAIN posted |-> posted[i] + IF taken /\ i \in items THEN 1 ELSE 0]
    /\ reply' = IF told THEN 0 ELSE reply

(* The server takes a reply in the channel of its target only.  The box is *)
(* emptied whether the send succeeded, failed or timed out.                *)
SendEnds(s, taken, told) ==
    /\ s.phase = "sending"
    /\ taken => s.reply \in {0, s.channel}
    /\ told => taken
    /\ HandleSend(s.sent \union ({s.text} \ {0}), taken, told)
    /\ LET added == IF s.box = box /\ Mounted THEN InBox \ Content(s) ELSE {}
           lost == IF taken THEN {} ELSE s.sent \union ({s.text} \ {0})
       IN  gone' = gone \union added \union lost
    /\ IF s.box = box /\ Mounted THEN text' = 0 /\ files' = {} ELSE UNCHANGED <<text,
                                                                                files>>
    /\ submits' = submits \ {s}
    /\ UNCHANGED <<box, uploading, chosenChannel, written, doubled>>
    /\ UNCHANGED recorderVars

-----------------------------------------------------------------------------
(* Selecting another channel.  Nothing stops a recording.                  *)

SelectText(c) ==
    /\ c # chosenChannel /\ chosenChannel' = c
    /\ Mounted \/ box < MaxMounts
    /\ box' = IF Mounted THEN box ELSE box + 1
    /\ UNCHANGED <<text, files, uploading, reply, submits, written, posted, gone, doubled>>
    /\ UNCHANGED recorderVars

SelectVoice ==
    /\ Mounted /\ chosenChannel' = VoiceSelected
    /\ gone' = gone \union InBox
    /\ text' = 0 /\ files' = {} /\ uploading' = FALSE
    /\ recording' = FALSE
    /\ tangled' = (tangled \/ mics # {} \/ starts # {})
    /\ UNCHANGED <<box, reply, submits, written, posted, doubled>>
    /\ UNCHANGED <<starts, homes, mics, streamRef, recorderRef, running, stopping>>

-----------------------------------------------------------------------------
(* Recording.                                                              *)

(* The button stays enabled until isRecording is set, two awaits later.    *)
StartRecording ==
    /\ Mounted /\ ~uploading /\ ~recording
    /\ Cardinality(submits) + Len(homes) < MaxBusy
    /\ homes' = Append(homes, box)
    /\ starts' = starts \union {[stream |-> Len(homes) + 1, phase |-> "asks"]}
    /\ tangled' = (tangled \/ starts # {} \/ stopping # {})
    /\ UNCHANGED <<mics, streamRef, recorderRef, running, stopping, recording>>
    /\ UNCHANGED boxVars

Here(r) == homes[r] = box /\ Mounted

Granted(s) ==
    /\ s.phase = "asks"
    /\ starts' = (starts \ {s}) \union {[s EXCEPT !.phase = "resumes"]}
    /\ mics' = mics \union {s.stream}
    /\ streamRef' = [streamRef EXCEPT ![homes[s.stream]] = s.stream]
    /\ recorderRef' = [recorderRef EXCEPT ![homes[s.stream]] = s.stream]
    /\ UNCHANGED <<homes, running, stopping, recording, tangled>> /\ UNCHANGED boxVars

Denied(s) ==
    /\ s.phase = "asks" /\ starts' = starts \ {s}
    /\ UNCHANGED <<homes, mics, streamRef, recorderRef, running, stopping, recording,
                   tangled>>
    /\ UNCHANGED boxVars

Begins(s) ==
    /\ s.phase = "resumes" /\ s.stream \in mics
    /\ starts' = starts \ {s}
    /\ running' = running \union {s.stream}
    /\ recording' = (recording \/ Here(s.stream))
    /\ UNCHANGED <<homes, mics, streamRef, recorderRef, stopping,
                   tangled>> /\ UNCHANGED boxVars

(* AudioContext or MediaRecorder throw: the stream is not given back.      *)
BeginFails(s) ==
    /\ s.phase = "resumes"
    /\ starts' = starts \ {s} /\ tangled' = TRUE
    /\ UNCHANGED <<homes, mics, streamRef, recorderRef, running, stopping, recording>>
    /\ UNCHANGED boxVars

\* Bug: the bar closes and the recorder runs on.
StopRecordingHidden ==
    /\ Mounted /\ recording /\ recording' = FALSE
    /\ UNCHANGED <<running, stopping>>
    /\ UNCHANGED <<starts, homes, mics, streamRef, recorderRef,
                   tangled>> /\ UNCHANGED boxVars

StopRecording ==
    /\ Mounted /\ recording /\ recording' = FALSE
    /\ running' = running \ {recorderRef[box]}
    /\ stopping' = stopping \union ({recorderRef[box]} \intersect running)
    /\ UNCHANGED <<starts, homes, mics, streamRef, recorderRef,
                   tangled>> /\ UNCHANGED boxVars

(* recorder.onstop, after stop() or once its tracks have ended: gives back *)
(* the stream the ref of its box holds by now.                             *)
Stopped(r) ==
    /\ r \in stopping \union (running \ mics)
    /\ stopping' = stopping \ {r} /\ running' = running \ {r}
    /\ mics' = mics \ {streamRef[homes[r]]}
    /\ streamRef' = [streamRef EXCEPT ![homes[r]] = 0]
    /\ IF Here(r) /\ written < MaxItems
       THEN written' = written + 1 /\ files' = files \union {written + 1}
       ELSE UNCHANGED <<written, files>>       \* too long, or no box to put it in
    /\ UNCHANGED <<starts, homes, recorderRef, recording, tangled>>
    /\ UNCHANGED <<box, text, uploading, chosenChannel, reply, submits, posted, gone,
                   doubled>>

ComposerNext ==
    \/ Type \/ AddFile \/ ChooseReply \/ Submit \/ SelectVoice
    \/ \E f \in files : RemovePendingFile(f)
    \/ \E s \in submits :
         \/ \E done \in SUBSET s.files : UploadEnds(s, done)
         \/ \E taken, told \in BOOLEAN : SendEnds(s, taken, told)
    \/ \E c \in Channels : SelectText(c)
    \/ StartRecording \/ StopRecording
    \/ \E s \in starts : Granted(s) \/ Denied(s) \/ Begins(s) \/ BeginFails(s)
    \/ \E r \in 1..Len(homes) : Stopped(r)

-----------------------------------------------------------------------------
(* What the user wrote is in the box, in a submit or in the channel, and   *)
(* in the channel once.  The ways it is lost are the ones in `gone`: taken *)
(* out by the user, a failed upload or send, added while a send was under  *)
(* way, unmounted.  Only a second submit during a send posts it again.     *)
DraftIsPosted ==
    /\ \A i \in 1..written :
         \/ i \in InBox \union gone
         \/ posted[i] > 0
         \/ \E s \in submits : i \in Content(s)
    /\ \A i \in 1..written : posted[i] > 1 => i \in doubled

(* The microphone is held only while a recording starts, runs or ends,     *)
(* and the stop button reaches it.                                         *)
MicReleased ==
    tangled \/ (mics # {} =>
                  /\ mics = {streamRef[box]}
                  /\ starts # {} \/ stopping # {} \/ (recording /\ running = {recorderRef[box]}))
=============================================================================
