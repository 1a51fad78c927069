----------------------------- MODULE ChatSocket -----------------------------
(***************************************************************************)
(* The frontend's WebSocket client, frontend/src/services/chatSocket.ts,   *)
(* with the socket effect of hooks/useServers.ts that owns it and the hub  *)
(* at the other end of the connection.                                     *)
(*                                                                         *)
(* Commands are sent one at a time: one is pending, the others queue       *)
(* behind it.  A command settles when its answer arrives, when its timer   *)
(* (10 s) runs out or when the connection ends.  Only some handlers of the *)
(* hub echo the request id, so most answers are told apart by their order  *)
(* alone.  A lost connection is reopened by a timer.                       *)
(*                                                                         *)
(* JavaScript runs one task at a time: an event handler and the promise    *)
(* callbacks it triggers are one action.                                   *)
(***************************************************************************)
EXTENDS Naturals, Sequences, FiniteSets, SequencesExt

CONSTANTS
    Cmds,           \* calls of sendCommand, each made at most once
    Kind,           \* Kind[c]: how the hub answers c, see Kinds
    Topic,          \* Topic[c]: the event that answers a "typed" command
    Broadcasts,     \* topics the hub also sends on its own: dm_opened, and
                    \* all that only has listeners (messages, voice, typing)
    MaxLosses,      \* bound: how often a connection ends by itself
    MaxExpiries,    \* bound: how often the access token runs out
    None

(***************************************************************************)
(* loop:  handled on Hub.Run; "ack" or "error", neither with a request id  *)
(* off:   handled on a goroutine; "ack" or "error", both with its id; the  *)
(*        failure of an sfu_* command is "sfu_error", which answers none   *)
(* typed: answered by an event of its own, or by "error" without an id     *)
(***************************************************************************)
Kinds == {"loop", "off", "typed"}

ASSUME SocketAssumption ==
    /\ Kind \in [Cmds -> Kinds]
    /\ None \notin Cmds \cup Broadcasts /\ Cmds \cap Broadcasts = {}
    /\ MaxLosses \in Nat /\ MaxExpiries \in Nat

VARIABLES
    ready,          \* the WebSocket's readyState
    promise,        \* connectionPromise; "poisoned": rejected, never reset
    timer,          \* reconnectTimer is set
    closedByUser,
    pending,        \* the command sent and not settled, or None
    queue,          \* commands behind it
    armed,          \* commands whose timeout is running
    outcome,        \* outcome[c]: what became of c and, if answered, by what
    inbox,          \* commands on their way to the hub, or waiting there
    running,        \* commands being handled on goroutines
    down,           \* events on their way to the client
    strayed,        \* a command of this connection was settled by
                    \* something else than its own answer
    valid,          \* localStorage holds an access token that has not expired
    losses, expiries

socketVars == <<ready, promise, timer, closedByUser>>
commandVars == <<pending, queue, armed, outcome>>
hubVars == <<inbox, running, down>>
envVars == <<valid, losses, expiries>>
vars == <<socketVars, commandVars, hubVars, strayed, envVars>>

Tagged(c) == Kind[c] = "off"

\* An event that can settle a command: "ack", "error", or the event of a
\* topic.  "to" is the command it answers, which the client does not see
\* unless the event is tagged.
Event == [form : {"ack", "error", "topic"}, to : Cmds \cup {None},
          topic : {Topic[c] : c \in Cmds} \cup Broadcasts]

Settled == {"answered", "failed", "timeout", "closed", "refused"}
Outcome == [at : {"new", "waiting"} \cup Settled,
            by : Cmds \cup Broadcasts \cup {None}]

TypeOK ==
    /\ ready \in {"connecting", "open", "closing", "closed"}
    /\ promise \in {"none", "connecting", "poisoned"}
    /\ timer \in BOOLEAN /\ closedByUser \in BOOLEAN
    /\ pending \in Cmds \cup {None}
    /\ queue \in Seq(Cmds)
    /\ armed \subseteq Cmds
    /\ outcome \in [Cmds -> Outcome]
    /\ inbox \in Seq(Cmds)
    /\ running \subseteq Cmds
    /\ down \in Seq(Event)
    /\ strayed \in BOOLEAN /\ valid \in BOOLEAN
    /\ losses \in 0..MaxLosses /\ expiries \in 0..MaxExpiries

\* The page is mounted with a valid token and has called connect().
Init ==
    /\ ready = "connecting" /\ promise = "connecting"
    /\ timer = FALSE /\ closedByUser = FALSE
    /\ pending = None /\ queue = <<>> /\ armed = {}
    /\ outcome = [c \in Cmds |-> [at |-> "new", by |-> None]]
    /\ inbox = <<>> /\ running = {} /\ down = <<>>
    /\ strayed = FALSE /\ valid = TRUE
    /\ losses = 0 /\ expiries = 0

-----------------------------------------------------------------------------
(* Commands *)

Settle(c, how, from) == [outcome EXCEPT ![c] = [at |-> how, by |-> from]]

\* flushQueue, with p pending, q queued and the timers t running.
FlushQueue(p, q, t) ==
    IF ready' = "open" /\ p = None /\ q # <<>>
    THEN /\ pending' = Head(q)
         /\ queue' = Tail(q)
         /\ armed' = t \cup {Head(q)}
         /\ inbox' = Append(inbox, Head(q))
    ELSE /\ pending' = p /\ queue' = q /\ armed' = t
         /\ UNCHANGED inbox

\* sendCommand on a socket that is open ...
Issue(c) ==
    /\ outcome[c].at = "new" /\ ready = "open"
    /\ outcome' = Settle(c, "waiting", None)
    /\ UNCHANGED <<socketVars, running, down, strayed, envVars>>
    /\ FlushQueue(pending, Append(queue, c), armed)

\* ... and on one that is not.
IssueRefused(c) ==
    /\ outcome[c].at = "new" /\ ready # "open"
    /\ outcome' = Settle(c, "refused", None)
    /\ UNCHANGED <<socketVars, pending, queue, armed, hubVars, strayed, envVars>>

(* Bug: the queue waits for the next call. *)
TimeoutOnly(c) ==
    /\ c \in armed
    /\ UNCHANGED <<socketVars, queue, hubVars, envVars>>
    /\ outcome' = IF pending = None THEN outcome ELSE Settle(pending, "timeout", None)
    /\ strayed' = (strayed \/ pending # None)
    /\ armed' = armed \ {c, pending} /\ pending' = None

\* The 10 s timer of c runs out: whatever is pending is rejected.
Timeout(c) ==
    /\ c \in armed
    /\ UNCHANGED <<socketVars, running, down, envVars>>
    /\ IF pending = None
       THEN /\ armed' = armed \ {c}
            /\ UNCHANGED <<pending, queue, outcome, inbox, strayed>>
       ELSE /\ outcome' = Settle(pending, "timeout", None)
            /\ strayed' = TRUE
            /\ FlushQueue(None, queue, armed \ {c, pending})

(* Bug: an id is not compared. *)
TakenWithoutId(e) ==
    /\ pending # None
    /\ e.form = "topic" => Kind[pending] = "typed" /\ Topic[pending] = e.topic
    /\ e.form # "topic" => e.to # None

\* Whether the client takes the event e for the answer to what is pending:
\* an id must match when there is one, a topic must be the one asked for.
TakenForAnswer(e) ==
    /\ pending # None
    /\ IF e.form = "topic"
       THEN Kind[pending] = "typed" /\ Topic[pending] = e.topic
       ELSE e.to # None /\ Tagged(e.to) => e.to = pending

DeliverAnswer(e) ==
    /\ strayed' = (strayed \/ e.to # pending)
    /\ outcome' = Settle(pending,
                    IF e.form = "error" THEN "failed" ELSE "answered",
                    IF e.to = None THEN e.topic ELSE e.to)
    /\ FlushQueue(None, queue, armed \ {pending})

\* onmessage: an event may settle the pending command; what does not only
\* reaches listeners.
Deliver ==
    /\ down # <<>> /\ ready \in {"open", "closing"}
    /\ down' = Tail(down)
    /\ UNCHANGED <<socketVars, running, envVars>>
    /\ IF TakenForAnswer(Head(down))
       THEN DeliverAnswer(Head(down))
       ELSE UNCHANGED <<commandVars, inbox, strayed>>

-----------------------------------------------------------------------------
(* Connections *)

\* rejectAllPending
RejectAll ==
    /\ outcome' = [c \in Cmds |->
                     IF c = pending \/ Contains(queue, c)
                     THEN [at |-> "closed", by |-> None] ELSE outcome[c]]
    /\ pending' = None /\ queue' = <<>> /\ armed' = armed \ {pending}

\* What the hub knew of the connection goes with it.
HubForgets == inbox' = <<>> /\ running' = {} /\ down' = <<>>

\* onopen, and the continuation of connect(): "restored", or the end of the
\* socket effect's own await.
OnOpen ==
    /\ ready = "connecting"
    /\ ready' = "open" /\ promise' = "none"
    /\ strayed' = FALSE
    /\ FlushQueue(pending, queue, armed)
    /\ UNCHANGED <<timer, closedByUser, outcome, running, down, envVars>>

\* The connection begins to close: the hub closes it (a slow client) or the
\* network does.  Events that have arrived are still delivered, and the
\* client may or may not see CLOSING before onclose.
Lose ==
    /\ ready = "open" /\ losses < MaxLosses
    /\ losses' = losses + 1
    /\ ready' = "closing"
    /\ \E n \in 0..Len(down) : down' = SubSeq(down, 1, n)
    /\ inbox' = <<>> /\ running' = {}
    /\ UNCHANGED <<promise, timer, closedByUser, commandVars, strayed,
                   valid, expiries>>

\* onclose of a connection that was open
OnClose ==
    /\ ready = "closing" /\ down = <<>>
    /\ ready' = "closed" /\ promise' = "none"
    /\ timer' = TRUE
    /\ RejectAll
    /\ HubForgets
    /\ UNCHANGED <<closedByUser, strayed, envVars>>

(* Bug: only a connection that was open is reopened. *)
ConnectGivesUp ==
    /\ ready = "connecting"
    /\ ready' = "closed" /\ promise' = "none"
    /\ RejectAll
    /\ UNCHANGED <<timer, closedByUser, hubVars, strayed, envVars>>

\* onerror and onclose of a connection that never opened
ConnectFails ==
    /\ ready = "connecting"
    /\ ready' = "closed" /\ promise' = "none"
    /\ timer' = TRUE
    /\ RejectAll
    /\ UNCHANGED <<closedByUser, hubVars, strayed, envVars>>

\* The reconnect timer fires and calls connect(), which joins a connection
\* that is being made, or makes one.  Without a token resolveWsUrl throws
\* inside the promise: it is rejected, kept, and found there by every later
\* call.  A rejected connect() sets the timer again.
Reconnect ==
    /\ timer /\ ready = "closed"
    /\ IF promise = "none" /\ valid
       THEN ready' = "connecting" /\ promise' = "connecting" /\ timer' = FALSE
       ELSE promise' = "poisoned" /\ UNCHANGED <<ready, timer>>
    /\ UNCHANGED <<closedByUser, commandVars, hubVars, strayed, envVars>>

\* close(), when the page is left
Close ==
    /\ ~closedByUser
    /\ closedByUser' = TRUE /\ timer' = FALSE /\ promise' = "none"
    /\ ready' = "closed"
    /\ RejectAll
    /\ HubForgets
    /\ UNCHANGED <<strayed, envVars>>

-----------------------------------------------------------------------------
(* The hub and the user's other tabs *)

AckOf(c) ==
    [form |-> IF Kind[c] = "typed" THEN "topic" ELSE "ack",
     to |-> c, topic |-> Topic[c]]
ErrorOf(c) == [form |-> "error", to |-> c, topic |-> Topic[c]]

\* The events with which the hub may answer c.  There is none for an sfu_*
\* command that fails, and none when the Outbound queue is full.
Answers(c) == {<<>>, <<AckOf(c)>>, <<ErrorOf(c)>>}

\* Hub.Run takes the next command: it answers, or starts a goroutine.
HubTakes ==
    /\ inbox # <<>> /\ ready = "open"
    /\ inbox' = Tail(inbox)
    /\ LET c == Head(inbox) IN
       IF Tagged(c)
       THEN running' = running \cup {c} /\ UNCHANGED down
       ELSE /\ \E a \in Answers(c) : down' = down \o a
            /\ UNCHANGED running
    /\ UNCHANGED <<socketVars, commandVars, strayed, envVars>>

HubFinishes(c) ==
    /\ c \in running /\ ready = "open"
    /\ running' = running \ {c}
    /\ \E a \in Answers(c) : down' = down \o a
    /\ UNCHANGED <<socketVars, commandVars, inbox, strayed, envVars>>

\* A message reveals a conversation: dm_opened, which nobody asked for.
HubBroadcasts(t) ==
    /\ ready = "open"
    /\ ~ \E i \in DOMAIN down : down[i].to = None
    /\ down' = Append(down, [form |-> "topic", to |-> None, topic |-> t])
    /\ UNCHANGED <<socketVars, commandVars, inbox, running, strayed, envVars>>

TokenExpires ==
    /\ valid /\ expiries < MaxExpiries
    /\ valid' = FALSE /\ expiries' = expiries + 1
    /\ UNCHANGED <<socketVars, commandVars, hubVars, strayed, losses>>

\* The user logs in again in another tab: localStorage is shared.
LoginElsewhere ==
    /\ ~valid /\ valid' = TRUE
    /\ UNCHANGED <<socketVars, commandVars, hubVars, strayed, losses, expiries>>

-----------------------------------------------------------------------------
Next ==
    \/ \E c \in Cmds : Issue(c) \/ IssueRefused(c) \/ Timeout(c) \/ HubFinishes(c)
    \/ Deliver \/ HubTakes
    \/ \E t \in Broadcasts : HubBroadcasts(t)
    \/ OnOpen \/ Lose \/ OnClose \/ ConnectFails \/ Reconnect \/ Close
    \/ TokenExpires \/ LoginElsewhere

Spec == Init /\ [][Next]_vars

(***************************************************************************)
(* The browser runs the tasks it has queued: timers that have run out, the *)
(* close event, the outcome of a connection attempt.  An attempt that is   *)
(* repeated for ever succeeds in the end.  The hub owes nothing.           *)
(***************************************************************************)
FairSpec ==
    /\ Spec
    /\ \A c \in Cmds : WF_vars(Timeout(c))
    /\ WF_vars(Deliver) /\ WF_vars(OnClose) /\ WF_vars(Reconnect)
    /\ WF_vars(OnOpen \/ ConnectFails) /\ SF_vars(OnOpen)

-----------------------------------------------------------------------------
(* Properties *)

\* A late answer that carries a request id never settles another command
\* (the guards in handleSocketError and in onmessage's ack branch).
TaggedAnswersMatch ==
    \A c \in Cmds :
        outcome[c].by \in Cmds /\ Tagged(outcome[c].by) => outcome[c].by = c

\* Answers without an id are told apart by their order.  That works as long
\* as every command of the connection was settled by its own answer: nothing
\* timed out, and no broadcast dm_opened came before the answer to open_dm.
\* Until then an answer belongs to the command that is pending, or is such a
\* broadcast.
InOrderUntilStrayed ==
    [][\A c \in Cmds :
         outcome'[c] # outcome[c] /\ outcome'[c].by \notin {None, c, Topic[c]}
            => strayed]_vars

\* The timer that runs is the pending command's: one left over from a
\* settled command would reject its successor early.
TimersOwned == armed = IF pending = None THEN {} ELSE {pending}

\* Answers find the command they are for: by request id, by order as long as
\* the order holds, and in the time of that command and no other's.
AnswersFindTheirCommand == [](TaggedAnswersMatch /\ TimersOwned) /\ InOrderUntilStrayed

\* What makes AnswersFindTheirCommand inductive.  The form of an event tells
\* whom it answers ...
EventsInv ==
    \A i \in DOMAIN down :
        /\ down[i].to = None => down[i].form = "topic" /\ down[i].topic \in Broadcasts
        /\ down[i].to # None /\ down[i].form = "topic" => ~ Tagged(down[i].to)

\* ... a connection starts with nothing under way and ends with nothing at
\* the hub ...
IdleInv ==
    /\ ready \in {"connecting", "closed"} => pending = None /\ down = <<>>
    /\ ready # "open" => inbox = <<>> /\ running = {}

\* ... and until something strays, what is under way is the pending command
\* or its answer, in one place.
InOrderInv ==
    ~ strayed =>
        /\ Len(inbox) <= 1 /\ \A i \in DOMAIN inbox : inbox[i] = pending
        /\ running \subseteq {pending}
        /\ \A i \in DOMAIN down : down[i].to \in {None, pending}
        /\ inbox # <<>> => running = {}
        /\ inbox # <<>> \/ running # {} => \A i \in DOMAIN down : down[i].to = None
        /\ \A i, j \in DOMAIN down : down[i].to # None /\ down[j].to # None => i = j

SocketInv ==
    TypeOK /\ TaggedAnswersMatch /\ TimersOwned /\ EventsInv /\ IdleInv /\ InOrderInv

\* A call that was made settles: with an answer, an error or a timeout, or
\* because the connection ended.
EveryCommandSettles ==
    \A c \in Cmds : outcome[c].at = "waiting" ~> outcome[c].at \in Settled

\* A lost connection comes back as long as the token lasts.
ReconnectsWhileTokenLasts ==
    ready = "closed" /\ ~closedByUser
        ~> ready = "open" \/ closedByUser \/ ~valid \/ promise = "poisoned"
=============================================================================
