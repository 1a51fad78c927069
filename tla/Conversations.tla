---------------------------- MODULE Conversations ----------------------------
(***************************************************************************)
(* The list of direct conversations: hooks/useDMs.ts and its callers in    *)
(* pages/ChatPage.tsx, over the rows of storage/postgresql/dm.go.         *)
(*                                                                         *)
(* One client of one user.  A conversation is named by the peer.  The hub  *)
(* answers one command at a time, in order, and its events share the       *)
(* connection with the answers.                                            *)
(***************************************************************************)
EXTENDS Naturals, Sequences, FiniteSets

CONSTANTS
    Peers,
    MaxOrders,      \* bound: commands the user gives
    MaxLetters,     \* bound: messages sent and conversations peers open
    MaxLosses,      \* bound: connections lost
    MaxRefusals     \* bound: commands the hub refuses

VARIABLES
    created,        \* peers with a dm_channels row
    unhidden,       \* peers whose conversation the user's dm_visibility row shows
    dmOnline, orders,\* the socket and its queue, whose head has been sent
    atHub, arriving,\* commands and frames on their way
    dmList,         \* dmChannels
    current,        \* the conversation selected, or NoPeer
    unrevealed,     \* listed since open_dm named them, and hidden in storage
    unsure,         \* an answer that failed may have left the list behind
    given, letters, losses, refusals

dmVars == <<created, unhidden, dmOnline, orders, atHub, arriving, dmList, current, unrevealed,
            unsure, given, letters, losses, refusals>>

NoPeer == 0

ASSUME DMAssumption == NoPeer \notin Peers

DMInit ==
    /\ created \in SUBSET Peers /\ unhidden = created /\ dmOnline = TRUE
    /\ orders = <<[kind |-> "list", peer |-> NoPeer, id |-> 0, selected |-> NoPeer,
                   listed |-> {}]>>
    /\ atHub = orders /\ arriving = <<>> /\ dmList = {} /\ current = NoPeer
    /\ unrevealed = {} /\ unsure = FALSE
    /\ given = 0 /\ letters = 0 /\ losses = 0 /\ refusals = 0

\* A conversation that exists is returned as it is, hidden or not.
OpenInStorage(p) ==
    /\ created' = created \union {p}
    /\ unhidden' = IF p \in created THEN unhidden ELSE unhidden \union {p}

Frame(kind, o) == [kind |-> kind, peer |-> o.peer, id |-> o.id, list |-> unhidden]

\* open_dm and a message push the same event; a list names what is visible.
DMAnswers ==
    /\ atHub # <<>> /\ atHub' = Tail(atHub)
    /\ LET o == Head(atHub)
       IN  \/ o.kind = "open" /\ OpenInStorage(o.peer)
              /\ arriving' = Append(arriving, Frame("opened", o))
           \/ o.kind = "close" /\ unhidden' = unhidden \ {o.peer} /\ UNCHANGED created
              /\ arriving' = Append(arriving, Frame("closed", o))
           \/ o.kind = "list" /\ UNCHANGED <<created, unhidden>>
              /\ arriving' = Append(arriving, Frame("listed", o))
    /\ UNCHANGED <<dmOnline, orders, dmList, current, unrevealed, unsure, given, letters, losses,
                   refusals>>

\* open_dm may fail after it has created the conversation.
DMRefuses ==
    /\ atHub # <<>> /\ refusals < MaxRefusals /\ refusals' = refusals + 1
    /\ atHub' = Tail(atHub) /\ arriving' = Append(arriving, Frame("error", Head(atHub)))
    /\ \/ UNCHANGED <<created, unhidden>>
       \/ Head(atHub).kind = "open" /\ OpenInStorage(Head(atHub).peer)
    /\ unsure' = (unsure \/ Head(atHub).kind = "list" \/ unhidden' # unhidden)
    /\ UNCHANGED <<dmOnline, orders, dmList, current, unrevealed, given, letters, losses>>

\* A message, whoever sends it, shows the conversation to both.
Letter(p) ==
    /\ p \in created /\ letters < MaxLetters /\ letters' = letters + 1
    /\ unhidden' = unhidden \union {p}
    /\ arriving' = IF dmOnline
                   THEN Append(arriving, Frame("opened", [peer |-> p, id |-> 0]))
                   ELSE arriving
    /\ unrevealed' = unrevealed \ {p}
    /\ UNCHANGED <<created, dmOnline, orders, atHub, dmList, current, unsure, given, losses,
                   refusals>>

\* The peer opens it: the user learns of it with the first message.
PeerOpens(p) ==
    /\ p \notin created /\ letters < MaxLetters /\ letters' = letters + 1
    /\ created' = created \union {p}
    /\ UNCHANGED <<unhidden, dmOnline, orders, atHub, arriving, dmList, current, unrevealed, unsure,
                   given, losses, refusals>>

Order(kind, p) == [kind |-> kind, peer |-> p, id |-> given', selected |-> current,
                   listed |-> dmList]

\* "Message" in a profile, and "Close conversation" in the menu, which knows
\* what was selected and listed when it was opened.
Give(kind, p) ==
    /\ dmOnline /\ given < MaxOrders /\ given' = given + 1
    /\ kind = "close" => p \in dmList
    /\ orders' = Append(orders, Order(kind, p))
    /\ atHub' = IF orders = <<>> THEN Append(atHub, Head(orders')) ELSE atHub
    /\ UNCHANGED <<created, unhidden, dmOnline, arriving, dmList, current, unrevealed, unsure,
                   letters, losses, refusals>>

SelectDM(p) ==
    /\ p \in dmList \ {current} /\ current' = p
    /\ UNCHANGED <<created, unhidden, dmOnline, orders, atHub, arriving, dmList, unrevealed, unsure,
                   given, letters, losses, refusals>>

Takes(kind) == arriving # <<>> /\ Head(arriving).kind = kind /\ arriving' = Tail(arriving)

\* The command sent is settled and the next one is sent.
SettleOrder ==
    /\ orders' = Tail(orders)
    /\ atHub' = IF Tail(orders) # <<>> THEN Append(atHub, Head(Tail(orders))) ELSE atHub

Awaits(kind) == orders # <<>> /\ Head(orders).kind = kind

\* Bug: a conversation that is not listed is not added.
UpsertKnown(p) == dmList

Upsert(p) == dmList \union {p}

\* Whoever caused it, it lists the conversation, and is taken for the reply to
\* an open_dm of this peer, which then selects it.
ConversationOpened ==
    /\ Takes("opened")
    /\ LET p == Head(arriving).peer
       IN  /\ dmList' = Upsert(p)
           /\ unrevealed' = unrevealed \union ({p} \ unhidden)
           /\ IF Awaits("open") /\ Head(orders).peer = p
              THEN SettleOrder /\ current' = p
              ELSE UNCHANGED <<orders, atHub, current>>
    /\ UNCHANGED <<created, unhidden, dmOnline, unsure, given, letters, losses, refusals>>

ListLoaded ==
    /\ Takes("listed") /\ Awaits("list") /\ SettleOrder
    /\ dmList' = Head(arriving).list /\ unsure' = FALSE /\ unrevealed' = {}
    /\ UNCHANGED <<created, unhidden, dmOnline, current, given, letters, losses, refusals>>

\* If it was selected when the menu opened, the first of the others listed
\* then is selected.
ConversationClosed ==
    /\ Takes("closed") /\ Awaits("close") /\ SettleOrder
    /\ LET o == Head(orders)
       IN  /\ dmList' = dmList \ {o.peer} /\ unrevealed' = unrevealed \ {o.peer}
           /\ current' \in IF o.selected # o.peer THEN {current}
                           ELSE IF o.listed = {o.peer} THEN {NoPeer} ELSE o.listed \ {o.peer}
    /\ UNCHANGED <<created, unhidden, dmOnline, unsure, given, letters, losses, refusals>>

\* An error names the command it refuses; one settled already is not there.
OrderRefused ==
    /\ Takes("error")
    /\ IF orders # <<>> /\ Head(orders).id = Head(arriving).id
       THEN SettleOrder ELSE UNCHANGED <<orders, atHub>>
    /\ UNCHANGED <<created, unhidden, dmOnline, dmList, current, unrevealed, unsure, given, letters,
                   losses, refusals>>

\* What was queued is rejected, what was on its way is lost, and the list goes.
DMLost ==
    /\ dmOnline /\ losses < MaxLosses /\ losses' = losses + 1 /\ dmOnline' = FALSE
    /\ orders' = <<>> /\ atHub' = <<>> /\ arriving' = <<>> /\ dmList' = {}
    /\ UNCHANGED <<created, unhidden, current, unrevealed, unsure, given, letters, refusals>>

DMRestored ==
    /\ ~dmOnline /\ dmOnline' = TRUE
    /\ orders' = <<[kind |-> "list", peer |-> NoPeer, id |-> 0, selected |-> NoPeer,
                    listed |-> {}]>>
    /\ atHub' = orders'
    /\ UNCHANGED <<created, unhidden, arriving, dmList, current, unrevealed, unsure, given, letters,
                   losses, refusals>>

DMNext ==
    \/ DMAnswers \/ DMRefuses
    \/ \E p \in Peers : Letter(p) \/ PeerOpens(p) \/ SelectDM(p)
                        \/ \E kind \in {"open", "close"} : Give(kind, p)
    \/ ConversationOpened \/ ListLoaded \/ ConversationClosed \/ OrderRefused
    \/ DMLost \/ DMRestored

-----------------------------------------------------------------------------
(* Properties *)

Quiet == dmOnline /\ orders = <<>> /\ atHub = <<>> /\ arriving = <<>> /\ ~unsure

\* When nothing is on its way the conversations listed are those the server
\* keeps visible, and those reopened on this connection: the answers, the
\* broadcasts of messages and the user's own commands, in any order, add up to
\* what a reload would show (useDMs.ts: "subscribing here alone keeps ... a
\* brand-new or previously-closed conversation in real time").
DMListRight == Quiet => dmList = unhidden \union unrevealed

(***************************************************************************)
(* Why the list is right: commands and what answers them keep their order, *)
(* and the last frame about a conversation says whether it is visible.     *)
(***************************************************************************)

ListCommands == [kind : {"list"}, peer : {NoPeer}, id : Nat, selected : Peers \union {NoPeer},
                 listed : SUBSET Peers]
PeerCommands == [kind : {"open", "close"}, peer : Peers, id : Nat, selected : Peers \union {NoPeer},
                 listed : SUBSET Peers]
Commands == ListCommands \union PeerCommands
NewsFrames == [kind : {"opened"}, peer : Peers, id : Nat, list : SUBSET Peers]
AnswerFrames == [kind : {"closed", "listed", "error"}, peer : Peers \union {NoPeer}, id : Nat,
                 list : SUBSET Peers]
Frames == NewsFrames \union AnswerFrames

DMTypeOK ==
    /\ unhidden \subseteq created /\ created \subseteq Peers /\ dmList \subseteq Peers
    /\ unrevealed \subseteq Peers /\ current \in Peers \union {NoPeer}
    /\ dmOnline \in BOOLEAN /\ unsure \in BOOLEAN /\ given \in Nat
    /\ orders \in Seq(Commands) /\ atHub \in Seq(Commands) /\ arriving \in Seq(Frames)

\* An answer, and not the news of a message or an open_dm.
IsAnswer(f) == f.kind # "opened"

Increasing(commands) ==
    \A i, j \in DOMAIN commands : i < j => commands[i].id < commands[j].id

\* Commands are numbered in the order they are given and answered in it.
DMInOrder ==
    /\ Increasing(orders) /\ Increasing(atHub)
    /\ \A i \in DOMAIN orders : orders[i].id <= given
    /\ \A j \in DOMAIN atHub : atHub[j].id <= given /\ (orders # <<>> => atHub[j].id <= orders[1].id)
    /\ \A i \in DOMAIN arriving : IsAnswer(arriving[i]) =>
           /\ arriving[i].id <= given /\ (orders # <<>> => arriving[i].id <= orders[1].id)
           /\ \A j \in DOMAIN atHub : arriving[i].id < atHub[j].id
           /\ \A j \in DOMAIN arriving : IsAnswer(arriving[j]) /\ i < j => arriving[i].id < arriving[j].id

\* A close or a list is answered before the next command is sent.
Settles(f, o) ==
    /\ o.id = f.id
    /\ f.kind = "closed" => o.kind = "close" /\ o.peer = f.peer
    /\ f.kind = "listed" => o.kind = "list"
DMAwaited ==
    /\ \A j \in DOMAIN atHub : atHub[j].kind # "open" => orders # <<>> /\ orders[1] = atHub[j]
    /\ \A i \in DOMAIN arriving : arriving[i].kind \in {"closed", "listed"} =>
           orders # <<>> /\ Settles(arriving[i], orders[1])

About(f, p) == f.kind = "listed" \/ (f.kind \in {"opened", "closed"} /\ f.peer = p)

\* The last frame about a conversation says whether it is visible.
Says(f, p, visible) ==
    /\ f.kind = "closed" => p \notin visible
    /\ f.kind = "listed" => (p \in f.list <=> p \in visible)
LastSays(frames, visible) ==
    \A p \in Peers, i \in DOMAIN frames :
        About(frames[i], p) /\ (\A j \in DOMAIN frames : j > i => ~About(frames[j], p))
            => Says(frames[i], p, visible)

\* Without one, and with no list asked for, the list is right.
NoWordOn(p) == \A i \in DOMAIN arriving : ~About(arriving[i], p)
ListAsked == \E j \in DOMAIN atHub : atHub[j].kind = "list"
DMFollows ==
    /\ LastSays(arriving, unhidden)
    /\ ~unsure /\ ~ListAsked =>
           \A p \in Peers : NoWordOn(p) => (p \in dmList <=> p \in unhidden \union unrevealed)

DMInv == DMTypeOK /\ (dmOnline => DMInOrder /\ DMAwaited /\ DMFollows)
                  /\ (~dmOnline => orders = <<>> /\ atHub = <<>> /\ arriving = <<>>)

=============================================================================
