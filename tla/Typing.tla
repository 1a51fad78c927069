-------------------------------- MODULE Typing --------------------------------
(***************************************************************************)
(* "... is typing": what an author's useTypingEmitter sends, what the hub  *)
(* passes on, and what another member's useTypingIndicator shows.  Time    *)
(* goes in steps of one second.  Nothing of this is acknowledged or        *)
(* repeated, on either connection.                                         *)
(***************************************************************************)
EXTENDS Naturals, Sequences

CONSTANTS
    Channels,
    Throttle, Inactivity, Ttl,  \* services/typing.ts, in seconds
    MaxWay                      \* bound: events on the way, on each connection

ASSUME TypingAssumption ==
    /\ 0 \notin Channels
    /\ Throttle \in Nat \ {0} /\ Inactivity \in Nat \ {0} /\ Ttl \in Nat /\ MaxWay \in Nat
    /\ Throttle <= Ttl /\ Ttl <= Throttle + Inactivity

VARIABLES
    selected,       \* the author's channel, 0 without one
    composing,         \* activeRef, and with it the inactivity timer
    sinceInput, sinceSent,      \* seconds, at most Inactivity and Throttle
    online, registered,         \* the author's connection, and the hub's record of it
    emitted,             \* the author's commands the hub has not handled
    typing,         \* typingChannelByUser, or 0
    pushed,           \* events on the way to the viewer
    watching,       \* the viewer's isConnected: the listener is subscribed
    shownIn,          \* channels whose typingByChannel lists the author
    ticking, age,   \* the viewer's timers
    heard           \* nothing was lost since ShownNowhere

authorVars == <<selected, composing, sinceInput, sinceSent>>
viewerVars == <<watching, shownIn, ticking, age>>
typingVars == <<authorVars, online, registered, emitted, typing, pushed, viewerVars, heard>>

TypingInit ==
    /\ selected = 0 /\ composing = FALSE
    /\ sinceInput = Inactivity /\ sinceSent = Throttle
    /\ online = TRUE /\ registered = TRUE /\ emitted = <<>> /\ typing = 0 /\ pushed = <<>>
    /\ watching = TRUE /\ shownIn = {} /\ ticking = {} /\ age = [c \in Channels |-> 0]
    /\ heard = FALSE

TypingEvent(c, start) == [channel |-> c, start |-> start]

-----------------------------------------------------------------------------
(* The author *)

\* sendTyping: without an open socket nothing is sent.
SendTyping(c, start) ==
    /\ Len(emitted) < MaxWay
    /\ emitted' = IF online THEN Append(emitted, TypingEvent(c, start)) ELSE emitted

\* stop: by an empty text, the inactivity timer, a blur or a sent message.
StopEmitting ==
    /\ composing /\ composing' = FALSE /\ sinceSent' = Throttle
    /\ SendTyping(selected, FALSE)
    /\ heard' = (heard /\ online)

StopTyping ==
    /\ StopEmitting /\ UNCHANGED <<selected, sinceInput, online, registered, typing,
                                   pushed, viewerVars>>

\* Another channel: the effect's cleanup stops the old one.
ChangeChannel(c) ==
    /\ c # selected /\ selected' = c
    /\ IF composing THEN StopEmitting ELSE UNCHANGED <<composing, sinceSent, emitted,
                                                       heard>>
    /\ UNCHANGED <<sinceInput, online, registered, typing, pushed, viewerVars>>

ShownNowhere == emitted = <<>> /\ pushed = <<>> /\ ticking = {}

\* onInput, of a text that is not blank.
OnInput ==
    /\ selected # 0 /\ composing' = TRUE /\ sinceInput' = 0
    /\ IF ~composing \/ sinceSent = Throttle
         THEN /\ sinceSent' = 0 /\ SendTyping(selected, TRUE)
              /\ heard' = (online /\ watching /\ (heard \/ ShownNowhere))
         ELSE UNCHANGED <<sinceSent, emitted, heard>>
    /\ UNCHANGED <<selected, online, registered, typing, pushed, viewerVars>>

-----------------------------------------------------------------------------
(* The hub *)

Push(e) == /\ Len(pushed) < MaxWay
           /\ pushed' = IF watching THEN Append(pushed, e) ELSE pushed

\* handleTyping
HandleTyping ==
    /\ emitted # <<>> /\ emitted' = Tail(emitted)
    /\ typing' = IF Head(emitted).start THEN Head(emitted).channel ELSE 0
    /\ Push(Head(emitted))
    /\ UNCHANGED <<authorVars, online, registered, viewerVars, heard>>

\* The author's connection goes, and perhaps commands with it.
LoseAuthor ==
    /\ online /\ online' = FALSE
    /\ \E n \in 0..Len(emitted) : emitted' = SubSeq(emitted, 1, n)
    /\ heard' = FALSE
    /\ UNCHANGED <<authorVars, registered, typing, pushed, viewerVars>>

\* unregisterClient, stopTypingOnDisconnect: a command may still be queued.
Unregister ==
    /\ ~online /\ registered /\ registered' = FALSE /\ typing' = 0
    /\ IF typing # 0 THEN Push(TypingEvent(typing, FALSE)) ELSE UNCHANGED pushed
    /\ UNCHANGED <<authorVars, online, emitted, viewerVars, heard>>

\* A new connection.  One that evicts the old stops nobody's typing.
AuthorReturns ==
    /\ ~online /\ online' = TRUE /\ registered' = TRUE
    /\ UNCHANGED <<authorVars, emitted, typing, pushed, viewerVars, heard>>

-----------------------------------------------------------------------------
(* The viewer *)

\* Bug: a user who is listed already is not looked at again.
ShowOnce(c) ==
    /\ shownIn' = shownIn \union {c} /\ ticking' = ticking \union {c}
    /\ age' = IF c \in shownIn THEN age ELSE [age EXCEPT ![c] = 0]

\* typing_start: the running timer is replaced.
Show(c) ==
    /\ shownIn' = shownIn \union {c} /\ ticking' = ticking \union {c}
    /\ age' = [age EXCEPT ![c] = 0]

\* clearUser, by typing_stop or the timer.
ClearUser(c) ==
    shownIn' = shownIn \ {c} /\ ticking' = ticking \ {c} /\ age' = [age EXCEPT ![c] = 0]

OnTyping ==
    /\ pushed # <<>> /\ pushed' = Tail(pushed)
    /\ IF Head(pushed).start THEN Show(Head(pushed).channel) ELSE ClearUser(Head(pushed).channel)
    /\ UNCHANGED <<authorVars, online, registered, emitted, typing, watching, heard>>

ShownLongEnough(c) ==
    /\ c \in ticking /\ age[c] = Ttl /\ ClearUser(c)
    /\ UNCHANGED <<authorVars, online, registered, emitted, typing, pushed, watching,
                   heard>>

\* The effect's cleanup clears the timers and leaves typingByChannel as it is.
LoseViewer ==
    /\ watching /\ watching' = FALSE /\ pushed' = <<>> /\ heard' = FALSE
    /\ ticking' = {} /\ age' = [c \in Channels |-> 0]
    /\ UNCHANGED <<authorVars, online, registered, emitted, typing, shownIn>>

ViewerReturns ==
    /\ ~watching /\ watching' = TRUE
    /\ UNCHANGED <<authorVars, online, registered, emitted, typing, pushed, shownIn,
                   ticking, age, heard>>

-----------------------------------------------------------------------------
AtMost(limit, n) == IF n < limit THEN n + 1 ELSE n

\* A second goes by; timers may be late.
Second ==
    /\ sinceInput' = AtMost(Inactivity, sinceInput)
    /\ sinceSent' = AtMost(Throttle, sinceSent)
    /\ age' = [c \in Channels |-> IF c \in ticking THEN AtMost(Ttl, age[c]) ELSE 0]
    /\ UNCHANGED <<selected, composing, online, registered, emitted, typing, pushed,
                   watching,
                   shownIn, ticking, heard>>

TypingNext ==
    \/ StopTyping \/ OnInput \/ \E c \in Channels \union {0} : ChangeChannel(c)
    \/ HandleTyping \/ LoseAuthor \/ Unregister \/ AuthorReturns
    \/ OnTyping \/ LoseViewer \/ ViewerReturns \/ \E c \in Channels : ShownLongEnough(c)
    \/ Second

-----------------------------------------------------------------------------
(* Properties *)

\* While nothing is lost and nothing on the way (useTypingEmitter, the hub's
\* handleTyping, useTypingIndicator): an author who typed less than Ttl -
\* Throttle seconds ago is shown, and is shown nowhere but where he types.
\* A channel that is shown without a timer is the exception: the viewer's
\* connection was lost over it, and nothing clears it but that author.
TypingIsTold ==
    heard /\ emitted = <<>> /\ pushed = <<>> =>
        /\ composing /\ sinceInput < Ttl - Throttle => selected \in shownIn
        /\ \A c \in shownIn \intersect ticking : composing /\ c = selected

(***************************************************************************)
(* Why it is told: what is on its way, the oldest first, says of every     *)
(* channel what the author does there, or the viewer shows it already.     *)
(***************************************************************************)

TypingEvents == [channel : Channels, start : BOOLEAN]

TypingTypeOK ==
    /\ selected \in Channels \union {0} /\ composing \in BOOLEAN
    /\ (composing => selected # 0)
    /\ heard \in BOOLEAN /\ online \in BOOLEAN /\ watching \in BOOLEAN
    /\ sinceInput \in 0..Inactivity /\ sinceSent \in 0..Throttle
    /\ emitted \in Seq(TypingEvents) /\ pushed \in Seq(TypingEvents)
    /\ typing \in Channels \union {0}
    /\ shownIn \subseteq Channels /\ ticking \subseteq Channels /\ age \in [Channels -> 0..Ttl]

OnTheWay == pushed \o emitted

Untold(c, way) == \A i \in DOMAIN way : way[i].channel # c

LastOf(c, i, way) == way[i].channel = c /\ \A j \in DOMAIN way : way[j].channel = c => j <= i

\* The last word on every channel says whether the author types there.
LastWord(way) ==
    \A i \in DOMAIN way :
        LastOf(way[i].channel, i, way) =>
            way[i].start = (composing /\ selected = way[i].channel)

\* Where nothing more is to be said, the author is not shown but where he
\* types, and there with a timer no older than his last input and his last
\* message allow.
Shows(c) == c \in shownIn /\ c \in ticking
ToldAlready(way) ==
    /\ \A c \in Channels : Untold(c, way) /\ Shows(c) => composing /\ c = selected
    /\ composing /\ Untold(selected, way) =>
           /\ sinceSent < Throttle => Shows(selected) /\ age[selected] <= sinceSent
           /\ sinceInput < Ttl - Throttle =>
                  Shows(selected) /\ age[selected] < sinceInput + Throttle

TypingInv ==
    /\ TypingTypeOK
    /\ heard => online /\ watching /\ LastWord(OnTheWay) /\ ToldAlready(OnTheWay)

=============================================================================
