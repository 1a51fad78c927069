------------------------------ MODULE ReadMarks ------------------------------
(***************************************************************************)
(* Unread counters and read marks: hooks/useUnread.ts, the fire-and-forget *)
(* mark_read and get_unread of the hub and their SQL.                      *)
(*                                                                         *)
(* The messages are those of other users: one's own count for neither      *)
(* side.  Both directions of the connection keep their order.              *)
(***************************************************************************)
EXTENDS Naturals, Sequences

CONSTANTS
    TextChannels,
    MaxIds,         \* bound: messages of a channel
    MaxCuts         \* bound: connections lost

\* 0 is the id of no channel.
ASSUME ReadAssumption == 0 \notin TextChannels /\ {MaxIds, MaxCuts} \subseteq Nat

VARIABLES
    newest,         \* newest[c]: messages saved in c; ids count from 1
    lastRead,       \* channel_reads
    missed,         \* a message of c did not reach the client
    connected, up, down,    \* the socket and what is on it, each way
    dropped,        \* messages in down a full queue had no room for: only
                    \* their places are there
    chosen, visible,        \* selectedChannelId (0: none), isPageVisible
    known,          \* lastMessageIdByChannel
    listed,         \* the channel's history is loaded
    count,          \* unreadByChannel
    waiting,        \* pendingByChannel, 0 when absent
    lastSent,       \* lastSentByChannel
    recent,         \* the last mark went less than two seconds ago
    timer,          \* the throttled send is armed
    lostMark,       \* a mark was sent to nobody, or refused by the limiter
    staleCount,     \* the counters come from before a mark, or miss a message
    cuts

readServer == <<newest, lastRead, missed>>
readWire == <<connected, up, down, dropped, cuts>>
readView == <<chosen, visible, listed>>
throttle == <<waiting, lastSent, recent, timer, lostMark>>
readVars == <<readServer, readWire, readView, known, count, throttle, staleCount>>

Zero == [c \in TextChannels |-> 0]
None == [c \in TextChannels |-> FALSE]
FetchCounts == [kind |-> "unread"]
Mark(c, id) == [kind |-> "mark", of |-> c, id |-> id]
FetchHistory(c) == [kind |-> "history", of |-> c]

ReadInit ==
    /\ newest \in [TextChannels -> 0..1] /\ lastRead = Zero /\ missed = None
    /\ connected = TRUE /\ up = <<FetchCounts>> /\ down = <<>> /\ dropped = {}
    /\ cuts = 0
    /\ chosen = 0 /\ visible = TRUE /\ listed = None
    /\ known = Zero /\ count = Zero
    /\ waiting = Zero /\ lastSent = Zero /\ recent = None /\ timer = None
    /\ lostMark = None /\ staleCount = FALSE

Has(frames, kind) == \E i \in 1..Len(frames) : frames[i].kind = kind
Refreshing == Has(up, "unread") \/ Has(down, "counts")

-----------------------------------------------------------------------------
(* Sending a mark *)

\* sendNow with sendMarkRead: what is sent on a closed socket counts as sent.
SendNow(c, id) ==
    /\ waiting' = [waiting EXCEPT ![c] = 0]
    /\ timer' = [timer EXCEPT ![c] = FALSE]
    /\ up' = IF connected THEN Append(up, Mark(c, id)) ELSE up
    /\ lastSent' = [lastSent EXCEPT ![c] = id]
    /\ recent' = [recent EXCEPT ![c] = TRUE]
    /\ lostMark' = [lostMark EXCEPT ![c] = @ \/ ~connected]

\* Bug: the timer already armed is left with the id it was armed for.
WaitForTimerOnce(c, id) ==
    /\ waiting' = IF timer[c] THEN waiting ELSE [waiting EXCEPT ![c] = id]
    /\ timer' = [timer EXCEPT ![c] = TRUE]
    /\ UNCHANGED <<up, lastSent, recent, lostMark>>

\* Less than two seconds after the last mark the id waits, and a newer one
\* takes its place.
WaitForTimer(c, id) ==
    /\ waiting' = [waiting EXCEPT ![c] = id]
    /\ timer' = [timer EXCEPT ![c] = TRUE]
    /\ UNCHANGED <<up, lastSent, recent, lostMark>>

ScheduleSend(c, id) ==
    \/ /\ id <= lastSent[c] /\ UNCHANGED <<up, throttle>>
    \/ /\ id > lastSent[c] /\ ~recent[c] /\ SendNow(c, id)
    \/ /\ id > lastSent[c] /\ recent[c] /\ WaitForTimer(c, id)

\* markChannelRead: the badge goes at once, whatever becomes of the mark.
MarkChannelRead(c, id) ==
    /\ count' = [count EXCEPT ![c] = 0]
    /\ staleCount' = (staleCount \/ Refreshing \/ missed[c])
    /\ ScheduleSend(c, id)

\* The two seconds are over.
Cools(c) ==
    /\ recent[c] /\ ~timer[c] /\ recent' = [recent EXCEPT ![c] = FALSE]
    /\ UNCHANGED <<readServer, readWire, readView, known, count, waiting, lastSent, timer,
                   lostMark, staleCount>>

TimerFires(c) ==
    /\ timer[c] /\ SendNow(c, waiting[c])
    /\ UNCHANGED <<readServer, connected, down, dropped, cuts, readView, known, count,
                   staleCount>>

\* flushChannel sends what waits and disarms the timer.
FlushChannel(c) ==
    IF c # 0 /\ waiting[c] # 0 THEN SendNow(c, waiting[c]) ELSE UNCHANGED <<up, throttle>>

-----------------------------------------------------------------------------
(* Messages *)

\* A new message goes to whoever is connected; with a full queue it is dropped.
SaveAndPush(c) ==
    /\ newest[c] < MaxIds /\ newest' = [newest EXCEPT ![c] = @ + 1]
    /\ down' = IF connected
               THEN Append(down, [kind |-> "message", of |-> c, id |-> newest[c] + 1])
               ELSE down
    /\ \/ dropped' = dropped
       \/ connected /\ dropped' = dropped \union {<<c, newest[c] + 1>>}
    /\ missed' = [missed EXCEPT ![c] = @ \/ ~connected]
    /\ UNCHANGED <<lastRead, connected, up, cuts, readView, known, count, throttle,
                   staleCount>>

Learns(c, id) == known' = [known EXCEPT ![c] = IF id > @ THEN id ELSE @]

\* The open channel of a visible page is read on the fly.
ReceiveRead(c) ==
    /\ c = chosen /\ visible /\ MarkChannelRead(c, Head(down).id)

\* Any other message adds to the badge.
CountsUnread(c) ==
    /\ c # chosen \/ ~visible
    /\ count' = [count EXCEPT ![c] = @ + 1] /\ UNCHANGED <<up, throttle, staleCount>>

MessageOf(c) ==
    down # <<>> /\ Head(down).kind = "message" /\ Head(down).of = c

ReceiveUnread(c) ==
    /\ MessageOf(c) /\ <<c, Head(down).id>> \notin dropped
    /\ down' = Tail(down) /\ Learns(c, Head(down).id)
    /\ ReceiveRead(c) \/ CountsUnread(c)
    /\ UNCHANGED <<readServer, connected, dropped, cuts, readView>>

\* The place of a message that was dropped goes by.
Misses(c) ==
    /\ MessageOf(c) /\ <<c, Head(down).id>> \in dropped
    /\ down' = Tail(down) /\ dropped' = dropped \ {<<c, Head(down).id>>}
    /\ missed' = [missed EXCEPT ![c] = TRUE] /\ staleCount' = TRUE
    /\ UNCHANGED <<newest, lastRead, connected, up, cuts, readView, known, count, throttle>>

\* The history of a channel: the effect on its length marks it if it is open.
\* Outside the effect known stands for the greater of the last id received and
\* the last id listed, which is what the effect takes.
ReceiveHistory(c) ==
    /\ down # <<>> /\ Head(down).kind = "page" /\ Head(down).of = c
    /\ down' = Tail(down) /\ listed' = [listed EXCEPT ![c] = TRUE]
    /\ Learns(c, Head(down).id)
    /\ IF c = chosen /\ visible /\ known'[c] > 0
       THEN MarkChannelRead(c, known'[c])
       ELSE UNCHANGED <<count, up, throttle, staleCount>>
    /\ missed' = [missed EXCEPT ![c] = FALSE]
    /\ UNCHANGED <<newest, lastRead, connected, dropped, cuts, chosen, visible>>

TakeCounts(counts) == count' = counts

ReceiveCounts ==
    /\ down # <<>> /\ Head(down).kind = "counts"
    /\ down' = Tail(down) /\ TakeCounts(Head(down).counts)
    /\ UNCHANGED <<readServer, connected, up, dropped, cuts, readView, known, throttle,
                   staleCount>>

\* The hub answers in order.  A mark has no answer, and the limiter may drop it.
\* A request may fail: no counters come then, and useUnread leaves it at that.
Serve ==
    /\ connected /\ up # <<>> /\ up' = Tail(up)
    /\ LET ask == Head(up)
       IN  \/ /\ ask.kind = "mark"
              /\ lastRead' = [lastRead EXCEPT ![ask.of] = IF ask.id > @ THEN ask.id ELSE @]
              /\ lostMark' = [lostMark EXCEPT ![ask.of] = FALSE] /\ down' = down
           \/ /\ ask.kind = "mark" /\ lastRead' = lastRead
              /\ lostMark' = [lostMark EXCEPT ![ask.of] = TRUE] /\ down' = down
           \/ /\ ask.kind = "unread"
              /\ down' = Append(down, [kind |-> "counts",
                            counts |-> [c \in TextChannels |-> newest[c] - lastRead[c]]])
              /\ UNCHANGED <<lastRead, lostMark>>
           \/ /\ ask.kind = "history"
              /\ down' = Append(down, [kind |-> "page", of |-> ask.of, id |-> newest[ask.of]])
              /\ UNCHANGED <<lastRead, lostMark>>
           \/ /\ ask.kind # "mark" /\ down' = down
              /\ UNCHANGED <<lastRead, lostMark>>
    /\ staleCount' = (staleCount \/ (Head(up).kind = "unread" /\ down' = down))
    /\ UNCHANGED <<newest, missed, connected, dropped, cuts, readView, known, count, waiting,
                   lastSent, recent, timer>>

-----------------------------------------------------------------------------
(* What the user does *)

\* The effect on the channel, the visibility and the length of the list.
LookAt(c) ==
    IF known[c] > 0 THEN MarkChannelRead(c, known[c])
    ELSE /\ count' = [count EXCEPT ![c] = 0] /\ UNCHANGED <<up, throttle>>
         /\ staleCount' = (staleCount \/ missed[c])

\* Switching channels is leaving one, whose throttled mark is sent, and opening
\* another.
OpenChannel(c) ==
    /\ chosen = 0 /\ chosen' = c
    /\ IF visible THEN LookAt(c) ELSE UNCHANGED <<count, up, throttle, staleCount>>
    /\ UNCHANGED <<readServer, connected, down, dropped, cuts, visible, listed, known>>

\* The badge is cleared and the history that would mark it read is not there.
Unlisted == chosen # 0 /\ ~listed[chosen]

LeaveChannel ==
    /\ chosen # 0 /\ chosen' = 0 /\ FlushChannel(chosen)
    /\ staleCount' = (staleCount \/ Unlisted)
    /\ UNCHANGED <<readServer, connected, down, dropped, cuts, visible, listed, known, count>>

\* Only the open channel can have a timer: flushAll flushes it.
HidePage ==
    /\ visible /\ visible' = FALSE /\ FlushChannel(chosen)
    /\ staleCount' = (staleCount \/ Unlisted)
    /\ UNCHANGED <<readServer, connected, down, dropped, cuts, chosen, listed, known, count>>

ShowPage ==
    /\ ~visible /\ visible' = TRUE
    /\ IF chosen # 0 THEN LookAt(chosen) ELSE UNCHANGED <<count, up, throttle, staleCount>>
    /\ UNCHANGED <<readServer, connected, down, dropped, cuts, chosen, listed, known>>

AskHistory ==
    /\ Unlisted /\ connected
    /\ ~\E i \in 1..Len(up) : up[i] = FetchHistory(chosen)
    /\ ~\E i \in 1..Len(down) : down[i].kind = "page" /\ down[i].of = chosen
    /\ up' = Append(up, FetchHistory(chosen))
    /\ UNCHANGED <<readServer, connected, down, dropped, cuts, readView, known, count, throttle,
                   staleCount>>

-----------------------------------------------------------------------------
(* The connection *)

CutOff ==
    /\ connected /\ cuts < MaxCuts /\ cuts' = cuts + 1 /\ connected' = FALSE
    /\ up' = <<>> /\ down' = <<>> /\ dropped' = {}
    /\ lostMark' = [c \in TextChannels |->
                      lostMark[c] \/ \E i \in 1..Len(up) : up[i].kind = "mark" /\ up[i].of = c]
    /\ missed' = [c \in TextChannels |->
                    missed[c] \/ \E i \in 1..Len(down) : down[i].kind = "message" /\ down[i].of = c]
    /\ UNCHANGED <<newest, lastRead, readView, known, count, waiting, lastSent, recent, timer,
                   staleCount>>

\* The counters are fetched again; the open channel is not marked again.
Reconnected ==
    /\ ~connected /\ connected' = TRUE /\ up' = <<FetchCounts>>
    /\ staleCount' = \E c \in TextChannels : timer[c]
    /\ UNCHANGED <<readServer, down, dropped, cuts, readView, known, count, throttle>>

ReadNext ==
    \/ \E c \in TextChannels :
          \/ Cools(c) \/ TimerFires(c) \/ SaveAndPush(c)
          \/ ReceiveUnread(c) \/ Misses(c) \/ ReceiveHistory(c) \/ OpenChannel(c)
    \/ ReceiveCounts \/ Serve \/ AskHistory
    \/ LeaveChannel \/ HidePage \/ ShowPage
    \/ CutOff \/ Reconnected

-----------------------------------------------------------------------------
(* Properties *)

\* Whatever was throttled, flushed or read on the fly, once nothing is on its
\* way the server has the last message the user sees, unless the mark for it
\* was lost (the throttle of useUnread.ts).
SeenIsRead ==
    \A c \in TextChannels :
        c = chosen /\ visible /\ connected /\ up = <<>> /\ ~timer[c] /\ ~lostMark[c]
            => lastRead[c] >= known[c]

\* Once nothing is on its way every badge shows what the server would count:
\* increments, marks and fetched counters agree (useUnread.ts: "the only moment
\* counters can genuinely drift is a dropped socket").  They drift all the same
\* until the next connection when a mark meets a fetch under way, a channel is
\* left before its history came, one that missed messages is opened, a message
\* found a full queue, or the fetch failed.
BadgesAgree ==
    /\ connected /\ up = <<>> /\ down = <<>> /\ ~staleCount /\ ~Unlisted
    /\ \A c \in TextChannels : ~timer[c] /\ ~lostMark[c]
    => \A c \in TextChannels : count[c] = newest[c] - lastRead[c]

\* What is seen is read on the server, and what is unread there is the badge.
ReadStateSettles == SeenIsRead /\ BadgesAgree
=============================================================================
