-------------------------------- MODULE SfuPeer --------------------------------
(***************************************************************************)
(* The SFU's peers (internal/service/sfu/peer.go, track.go, and the half   *)
(* of router.go that feeds them): each peer's command queue, negotiation   *)
(* flags, subscriptions and teardown, with the client's half of the offer/ *)
(* answer exchange and the WebSocket in between.                           *)
(*                                                                         *)
(* A peer's state is changed by its run goroutine only, one command at a   *)
(* time; what another peer sees of it meanwhile (its published tracks, the *)
(* room) is behind locks and changes at single points of a command, so one *)
(* command is one action.  Everything else happens between commands.       *)
(*                                                                         *)
(* A track is the publishedTrack object of one peer for one source; a      *)
(* subscription is keyed by user and source (subKey), as are a track's     *)
(* subscribers by user: neither tells two peers of one user apart.         *)
(***************************************************************************)
EXTENDS Naturals, Sequences, FiniteSets

CONSTANTS
    Users,        \* user IDs
    Peers,        \* Peer objects, one for each session
    UserOf,       \* Peers -> Users: Peer.userID
    Audio,        \* sources of kind audio: every peer subscribes to them
    Video,        \* sources of kind video: subscribed to on request
    Sends,        \* Peers -> the sources its client has media for
    QueueCap,     \* capacity of Peer.commands (32 in the code)
    MaxRequests,  \* Peers -> bound: sfu_subscribe_video requests
    MaxLosses     \* Peers -> bound: lost WebSockets

ASSUME PeerAssumption ==
    /\ UserOf \in [Peers -> Users]
    /\ Audio \cap Video = {}
    /\ IsFiniteSet(Audio \cup Video)
    /\ Sends \in [Peers -> SUBSET (Audio \cup Video)]
    /\ QueueCap \in Nat \ {0}
    /\ MaxRequests \in [Peers -> Nat]
    /\ MaxLosses \in [Peers -> Nat]

Sources == Audio \cup Video
Tracks == Peers \X Sources

VARIABLES
    stage,      \* Peers -> "out", "in" the room and r.peers, "left"
    link,       \* Peers -> the WebSocket: "up", "lost", "down" once detached
    client,     \* Peers -> "new", "offered" (its initial offer), "settled"
                \*   (has the answer)
    wire,       \* Peers -> messages between client and queue, either way
    queue,      \* Peers -> Peer.commands
    neg,        \* Peers -> negotiating, renegotiatePending, detached, ...
    subs,       \* Peers -> Peer.subs: the tracks subscribed to
    streams,    \* Peers -> sources whose OnTrack was called
    published,  \* Peers -> sources in Peer.published
    listeners,  \* Tracks -> publishedTrack.subs: the users subscribed
    stopped,    \* peers whose doClose ran
    dropped,    \* peers that lost a command to a full queue
    requests,   \* Peers -> sfu_subscribe_video requests made
    losses      \* Peers -> WebSockets lost

envVars == <<stage, link, client, streams, requests, losses>>
peerVars == <<neg, subs, published, listeners, stopped>>
vars == <<envVars, wire, queue, peerVars, dropped>>

(* Offers are numbered, and so is each answer: the number is not in the    *)
(* code, and only tells what the SDP would.                                *)
Messages == [kind : {"hello", "welcome", "offer", "answer"}, no : Nat]

Commands ==
    [op : {"hello", "mark", "clear", "close"}]
      \cup [op : {"answer"}, no : Nat]
      \cup [op : {"sub", "want"}, track : Tracks]
      \cup [op : {"unsub"}, user : Users, source : Sources]
      \cup [op : {"track"}, source : Sources]

(* active is negotiating, pending renegotiatePending; signaling is the     *)
(* PeerConnection's: a local offer is outstanding, or not; no and described*)
(* are of the last offer made; error: the last negotiation step failed.    *)
Negotiations ==
    [active : BOOLEAN, pending : BOOLEAN, detached : BOOLEAN, error : BOOLEAN,
     signaling : {"stable", "offered"}, no : Nat, described : SUBSET Tracks]

PeerTypeOK ==
    /\ stage \in [Peers -> {"out", "in", "left"}]
    /\ link \in [Peers -> {"up", "lost", "down"}]
    /\ client \in [Peers -> {"new", "offered", "settled"}]
    /\ wire \in [Peers -> SUBSET Messages]
    /\ queue \in [Peers -> Seq(Commands)]
    /\ \A p \in Peers : Len(queue[p]) <= QueueCap
    /\ neg \in [Peers -> Negotiations]
    /\ subs \in [Peers -> SUBSET Tracks]
    /\ streams \in [Peers -> SUBSET Sources]
    /\ published \in [Peers -> SUBSET Sources]
    /\ listeners \in [Tracks -> SUBSET Users]
    /\ stopped \in SUBSET Peers
    /\ dropped \in SUBSET Peers
    /\ requests \in [Peers -> Nat]
    /\ losses \in [Peers -> Nat]

PeerInit ==
    /\ stage = [p \in Peers |-> "out"]
    /\ link = [p \in Peers |-> "up"]
    /\ client = [p \in Peers |-> "new"]
    /\ wire = [p \in Peers |-> {}]
    /\ queue = [p \in Peers |-> <<>>]
    /\ neg = [p \in Peers |-> [active |-> FALSE, pending |-> FALSE, detached |-> FALSE,
                               error |-> FALSE, signaling |-> "stable", no |-> 0,
                               described |-> {}]]
    /\ subs = [p \in Peers |-> {}]
    /\ streams = [p \in Peers |-> {}]
    /\ published = [p \in Peers |-> {}]
    /\ listeners = [t \in Tracks |-> {}]
    /\ stopped = {}
    /\ dropped = {}
    /\ requests = [p \in Peers |-> 0]
    /\ losses = [p \in Peers |-> 0]

-----------------------------------------------------------------------------
(* The room (Room.others) and the queue.                                   *)

Others(p) == {q \in Peers : stage[q] = "in" /\ UserOf[q] # UserOf[p]}

(* enqueue, of several commands in a row: what finds the queue full is lost. *)
Fit(q, more) ==
    IF Len(q) + Len(more) <= QueueCap THEN q \o more ELSE SubSeq(q \o more, 1, QueueCap)

(* Each peer r is given the commands more[r]; rest is queue, without the   *)
(* command that is running.  A stopped peer takes no more.                 *)
Post(rest, more) ==
    /\ queue' = [r \in Peers |-> IF r \in stopped THEN rest[r] ELSE Fit(rest[r], more[r])]
    /\ dropped' = dropped \cup
         {r \in Peers \ stopped : Len(rest[r]) + Len(more[r]) > QueueCap}

Nothing == [r \in Peers |-> <<>>]

Enqueue(p, cmd) == Post(queue, [Nothing EXCEPT ![p] = <<cmd>>])

-----------------------------------------------------------------------------
(* Negotiation: each operator is the set of records the step may lead to,  *)
(* s being the peer's subscriptions, which an offer describes.             *)

Deferred(n) == [n EXCEPT !.active = FALSE, !.pending = TRUE]

Failed(n) == [n EXCEPT !.active = FALSE, !.error = TRUE]

Offered(n, s) ==
    [n EXCEPT !.active = TRUE, !.error = FALSE, !.signaling = "offered",
              !.no = @ + 1, !.described = s]

(* sendOffer.  Whether pion takes a local offer while an earlier one is    *)
(* outstanding is left open.                                               *)
SendOffer(n, s) ==
    IF n.detached THEN {Deferred(n)}
    ELSE {Offered(n, s)} \cup (IF n.signaling = "stable" THEN {} ELSE {Failed(n)})

(* scheduleNegotiate. *)
Schedule(n, s) ==
    IF n.active THEN {[n EXCEPT !.pending = TRUE]} ELSE SendOffer(n, s)

(* scheduleNegotiate after each of several new subscriptions, in any order:*)
(* the first makes an offer, the others find it outstanding.               *)
ScheduleEach(n, s, new) ==
    IF new = {} THEN {n}
    ELSE UNION {UNION {IF new = {t} THEN {m} ELSE Schedule(m, s \cup new) :
                         m \in Schedule(n, s \cup {t})} : t \in new}

(* handleAnswer.  Without an outstanding offer it fails; the answer to an  *)
(* offer given up since may be taken for the one to the latest.            *)
Answered(n, no, s) ==
    LET m == [n EXCEPT !.active = FALSE, !.signaling = "stable"]
        taken == IF n.pending THEN SendOffer([m EXCEPT !.pending = FALSE], s) ELSE {m}
    IN  (IF n.signaling = "offered" THEN taken ELSE {})
          \cup (IF n.signaling = "stable" \/ no # n.no THEN {Failed(n)} ELSE {})

(* Bug: a negotiation in flight stays in flight.                           *)
MarkedActive(n) == [n EXCEPT !.detached = TRUE]

(* markDetached: a negotiation in flight is given up, and owed. *)
Marked(n) ==
    IF n.active THEN Deferred([n EXCEPT !.detached = TRUE]) ELSE [n EXCEPT !.detached = TRUE]

(* Bug: what was deferred while detached is not made up for.               *)
ClearedOnly(n, s) == {[n EXCEPT !.detached = FALSE]}

(* clearDetached: what is owed is offered now. *)
Cleared(n, s) ==
    IF n.pending THEN SendOffer([n EXCEPT !.detached = FALSE, !.pending = FALSE], s)
    ELSE {[n EXCEPT !.detached = FALSE]}

(* p's negotiation becomes n.  An offer reaches a connected client only;   *)
(* so do the other messages given.                                         *)
Negotiated(p, n, also) ==
    LET offer == {m \in {[kind |-> "offer", no |-> n.no]} : n.no # neg[p].no}
    IN  /\ neg' = [neg EXCEPT ![p] = n]
        /\ wire' = IF link[p] = "up" THEN [wire EXCEPT ![p] = @ \cup offer \cup also] ELSE wire

-----------------------------------------------------------------------------
(* Subscriptions.                                                          *)

SubKey(t) == <<UserOf[t[1]], t[2]>>

Subscribed(p, key) == {t \in subs[p] : SubKey(t) = key}

(* doSubscribe of each of the tracks: one whose key is taken only has its  *)
(* quality set, whatever track the key leads to.                           *)
DoSubscribe(p, tracks, also) ==
    LET new == {t \in tracks : Subscribed(p, SubKey(t)) = {}}
    IN  /\ \E n \in ScheduleEach(neg[p], subs[p], new) : Negotiated(p, n, also)
        /\ subs' = [subs EXCEPT ![p] = @ \cup new]
        /\ listeners' = [t \in Tracks |->
                           IF t \in new THEN listeners[t] \cup {UserOf[p]} ELSE listeners[t]]

(* Bug: no renegotiation.                                                  *)
DoUnsubscribeSilently(p, key) ==
    LET old == Subscribed(p, key)
    IN  /\ UNCHANGED <<neg, wire>>
        /\ subs' = [subs EXCEPT ![p] = @ \ old]
        /\ listeners' = [t \in Tracks |->
                           IF t \in old THEN listeners[t] \ {UserOf[p]} ELSE listeners[t]]

DoUnsubscribe(p, key) ==
    LET old == Subscribed(p, key)
    IN  /\ \/ old = {} /\ UNCHANGED <<neg, wire>>
           \/ old # {} /\ \E n \in Schedule(neg[p], subs[p] \ old) : Negotiated(p, n, {})
        /\ subs' = [subs EXCEPT ![p] = @ \ old]
        /\ listeners' = [t \in Tracks |->
                           IF t \in old THEN listeners[t] \ {UserOf[p]} ELSE listeners[t]]

-----------------------------------------------------------------------------
(* The commands, each run whole by Peer.run.                               *)

Runs(p, op) ==
    /\ p \notin stopped
    /\ queue[p] # <<>>
    /\ Head(queue[p]).op = op

Popped(p) == [queue EXCEPT ![p] = Tail(@)]

Done(p) == Post(Popped(p), Nothing)

(* Bug: what is published already is not subscribed to.                    *)
RunHelloAlone(p) ==
    /\ Runs(p, "hello")
    /\ \/ /\ neg[p].signaling = "stable"
          /\ DoSubscribe(p, {}, {[kind |-> "welcome", no |-> 0]})
       \/ /\ neg[p].signaling = "offered"
          /\ UNCHANGED <<neg, wire, subs, listeners>>
    /\ Done(p)
    /\ UNCHANGED <<envVars, published, stopped>>

(* handleOffer: if no offer of the server's is outstanding, answer, and    *)
(* subscribe to all audio in the room; else sfu_error, and nothing.        *)
RunHello(p) ==
    /\ Runs(p, "hello")
    /\ \/ /\ neg[p].signaling = "stable"
          /\ DoSubscribe(p, UNION {{q} \X (published[q] \cap Audio) : q \in Others(p)},
                         {[kind |-> "welcome", no |-> 0]})
       \/ /\ neg[p].signaling = "offered"
          /\ UNCHANGED <<neg, wire, subs, listeners>>
    /\ Done(p)
    /\ UNCHANGED <<envVars, published, stopped>>

RunAnswer(p) ==
    /\ Runs(p, "answer")
    /\ \E n \in Answered(neg[p], Head(queue[p]).no, subs[p]) : Negotiated(p, n, {})
    /\ Done(p)
    /\ UNCHANGED <<envVars, subs, listeners, published, stopped>>

RunMark(p) ==
    /\ Runs(p, "mark")
    /\ Negotiated(p, Marked(neg[p]), {})
    /\ Done(p)
    /\ UNCHANGED <<envVars, subs, listeners, published, stopped>>

RunClear(p) ==
    /\ Runs(p, "clear")
    /\ \E n \in Cleared(neg[p], subs[p]) : Negotiated(p, n, {})
    /\ Done(p)
    /\ UNCHANGED <<envVars, subs, listeners, published, stopped>>

(* subscribeToTrack, from a publisher ... *)
RunSub(p) ==
    /\ Runs(p, "sub")
    /\ DoSubscribe(p, {Head(queue[p]).track}, {})
    /\ Done(p)
    /\ UNCHANGED <<envVars, published, stopped>>

(* ... and SubscribeVideo, from the client: video that is published. *)
RunWant(p) ==
    /\ Runs(p, "want")
    /\ LET t == Head(queue[p]).track IN
         DoSubscribe(p, {x \in {t} : t[2] \in published[t[1]] \cap Video}, {})
    /\ Done(p)
    /\ UNCHANGED <<envVars, published, stopped>>

RunUnsub(p) ==
    /\ Runs(p, "unsub")
    /\ DoUnsubscribe(p, <<Head(queue[p]).user, Head(queue[p]).source>>)
    /\ Done(p)
    /\ UNCHANGED <<envVars, published, stopped>>

(* handleOnTrack: audio is given to everybody in the room. *)
RunTrack(p) ==
    /\ Runs(p, "track")
    /\ LET s == Head(queue[p]).source IN
         /\ published' = [published EXCEPT ![p] = @ \cup {s}]
         /\ Post(Popped(p), [r \in Peers |->
              IF s \in Audio /\ r \in Others(p) THEN <<[op |-> "sub", track |-> <<p, s>>]>>
              ELSE <<>>])
    /\ UNCHANGED <<envVars, wire, neg, subs, listeners, stopped>>

Orders(S) == {o \in [1..Cardinality(S) -> S] : \A i, j \in DOMAIN o : o[i] = o[j] => i = j}

(* p's tracks that a peer r of the room listens to: its user is subscribed.*)
Heard(p, r) == {s \in published[p] : stage[r] = "in" /\ UserOf[r] \in listeners[<<p, s>>]}

(* What r is told when p closes: of each of those, in a map's order.       *)
Unsubs(p, order) ==
    [r \in Peers |-> [i \in DOMAIN order[r] |->
                       [op |-> "unsub", user |-> UserOf[p], source |-> order[r][i]]]]

TellAll(p) ==
    \E order \in [Peers -> UNION {Orders(S) : S \in SUBSET published[p]}] :
        /\ \A r \in Peers : order[r] \in Orders(Heard(p, r))
        /\ Post([queue EXCEPT ![p] = <<>>], Unsubs(p, order))

(* doClose: nothing p had queued is run any more; subscribers are found by *)
(* user, in the room as it is now.                                         *)
RunClose(p) ==
    /\ Runs(p, "close")
    /\ stopped' = stopped \cup {p}
    /\ subs' = [subs EXCEPT ![p] = {}]
    /\ listeners' = [t \in Tracks |->
                       IF t \in subs[p] THEN listeners[t] \ {UserOf[p]} ELSE listeners[t]]
    /\ TellAll(p)
    /\ UNCHANGED <<envVars, wire, neg, published>>

Run(p) ==
    \/ RunHello(p) \/ RunAnswer(p) \/ RunMark(p) \/ RunClear(p) \/ RunSub(p)
    \/ RunWant(p) \/ RunUnsub(p) \/ RunTrack(p) \/ RunClose(p)

-----------------------------------------------------------------------------
(* Router calls, and what pion and the network do.                         *)

(* Router.Join: a user's next peer comes when its last has left the room.  *)
Join(p) ==
    /\ stage[p] = "out"
    /\ \A q \in Peers : UserOf[q] = UserOf[p] => stage[q] # "in"
    /\ stage' = [stage EXCEPT ![p] = "in"]
    /\ UNCHANGED <<link, client, streams, requests, losses, wire, queue, peerVars, dropped>>

(* Router.Leave: out of r.peers and the room, then peer.close.  Commands   *)
(* still on their way are for an unknown session now.                      *)
Leave(p) ==
    /\ stage[p] = "in"
    /\ stage' = [stage EXCEPT ![p] = "left"]
    /\ wire' = [wire EXCEPT ![p] = {}]
    /\ Enqueue(p, [op |-> "close"])
    /\ UNCHANGED <<link, client, streams, requests, losses, peerVars>>

(* OnTrack: media of a connected client; queued for the peer. *)
OnTrack(p, s) ==
    /\ stage[p] = "in"
    /\ client[p] = "settled"
    /\ s \in Sends[p] \ streams[p]
    /\ streams' = [streams EXCEPT ![p] = @ \cup {s}]
    /\ Enqueue(p, [op |-> "track", source |-> s])
    /\ UNCHANGED <<stage, link, client, requests, losses, wire, peerVars>>

(* Router.SubscribeVideo, for a video source of somebody else in the room; *)
(* to stop, the room is not looked at.                                     *)
SubscribeVideo(p, u, s) ==
    /\ stage[p] = "in"
    /\ u # UserOf[p]
    /\ requests[p] < MaxRequests[p]
    /\ requests' = [requests EXCEPT ![p] = @ + 1]
    /\ \/ Enqueue(p, [op |-> "unsub", user |-> u, source |-> s])
       \/ \E q \in Others(p) : UserOf[q] = u /\ Enqueue(p, [op |-> "want", track |-> <<q, s>>])
    /\ UNCHANGED <<stage, link, client, streams, losses, wire, peerVars>>

(* A lost WebSocket takes along what was on its way to the client, and     *)
(* what the server has not read; the rest is on goroutines of its own.     *)
Lose(p) ==
    /\ stage[p] = "in"
    /\ link[p] = "up"
    /\ losses[p] < MaxLosses[p]
    /\ losses' = [losses EXCEPT ![p] = @ + 1]
    /\ link' = [link EXCEPT ![p] = "lost"]
    /\ \E kept \in SUBSET {m \in wire[p] : m.kind \in {"hello", "answer"}} :
         wire' = [wire EXCEPT ![p] = kept]
    /\ UNCHANGED <<stage, client, streams, requests, queue, peerVars, dropped>>

(* Router.Detach and, once that is done, Router.Resume. *)
Detach(p) ==
    /\ stage[p] = "in"
    /\ link[p] = "lost"
    /\ link' = [link EXCEPT ![p] = "down"]
    /\ Enqueue(p, [op |-> "mark"])
    /\ UNCHANGED <<stage, client, streams, requests, losses, wire, peerVars>>

Resume(p) ==
    /\ stage[p] = "in"
    /\ link[p] = "down"
    /\ client[p] # "new"
    /\ link' = [link EXCEPT ![p] = "up"]
    /\ Enqueue(p, [op |-> "clear"])
    /\ UNCHANGED <<stage, client, streams, requests, losses, wire, peerVars>>

(* The handlers' goroutines: nothing keeps messages in order. *)
Arrive(p, m) ==
    /\ m \in wire[p]
    /\ \/ m.kind = "hello" /\ Enqueue(p, [op |-> "hello"])
       \/ m.kind = "answer" /\ Enqueue(p, [op |-> "answer", no |-> m.no])
    /\ wire' = [wire EXCEPT ![p] = @ \ {m}]
    /\ UNCHANGED <<envVars, peerVars>>

-----------------------------------------------------------------------------
(* The client (sfuCallClient.ts): its one offer, and its answers.          *)

SendHello(p) ==
    /\ stage[p] = "in"
    /\ link[p] = "up"
    /\ client[p] = "new"
    /\ client' = [client EXCEPT ![p] = "offered"]
    /\ wire' = [wire EXCEPT ![p] = @ \cup {[kind |-> "hello", no |-> 0]}]
    /\ UNCHANGED <<stage, link, streams, requests, losses, queue, peerVars, dropped>>

(* handleServerAnswer. *)
Settle(p) ==
    /\ [kind |-> "welcome", no |-> 0] \in wire[p]
    /\ client' = [client EXCEPT ![p] = "settled"]
    /\ wire' = [wire EXCEPT ![p] = @ \ {[kind |-> "welcome", no |-> 0]}]
    /\ UNCHANGED <<stage, link, streams, requests, losses, queue, peerVars, dropped>>

(* handleServerOffer, in the order of the server's messages.  A client that*)
(* has no PeerConnection or session yet ignores the offer, and one whose   *)
(* own offer is outstanding may fail on it.                                *)
AnswerOffer(p, m) ==
    /\ m \in wire[p]
    /\ m.kind = "offer"
    /\ \A k \in wire[p] : k.kind # "welcome" /\ (k.kind = "offer" => m.no <= k.no)
    /\ \/ wire' = [wire EXCEPT ![p] = (@ \ {m}) \cup {[kind |-> "answer", no |-> m.no]}]
       \/ client[p] # "settled" /\ wire' = [wire EXCEPT ![p] = @ \ {m}]
    /\ UNCHANGED <<envVars, queue, peerVars, dropped>>

(* One message moves on. *)
Deliver(p) ==
    Settle(p) \/ \E m \in wire[p] : AnswerOffer(p, m) \/ Arrive(p, m)

PeerNext ==
    \E p \in Peers :
        \/ Run(p) \/ Deliver(p) \/ SendHello(p)
        \/ Join(p) \/ Leave(p) \/ Lose(p) \/ Detach(p) \/ Resume(p)
        \/ \E s \in Sources : OnTrack(p, s)
        \/ \E u \in Users, s \in Video : SubscribeVideo(p, u, s)

PeerSpec == PeerInit /\ [][PeerNext]_vars

(* A peer's goroutine runs, and messages do not linger: a connected client *)
(* answers what it gets.                                                   *)
PeerFairness == \A p \in Peers : WF_vars(Run(p)) /\ WF_vars(Deliver(p))

FairPeerSpec == PeerSpec /\ PeerFairness

-----------------------------------------------------------------------------
(* Properties that hold.                                                   *)

(* A change of a peer's subscriptions that no offer has described is       *)
(* always owed, and whatever is owed has somebody who will offer it: the   *)
(* answer to the offer in flight, or the resume (sendOffer, markDetached,  *)
(* clearDetached and handleAnswer hand it on without losing it), unless a  *)
(* negotiation failed.                                                     *)
Owed(n, s) ==
    /\ n.described # s => n.pending \/ n.error
    /\ n.pending => n.active \/ n.detached \/ n.error

NothingForgotten == \A p \in Peers \ stopped : Owed(neg[p], subs[p])

(* negotiating is never left set with nothing to clear it: the offer or    *)
(* its answer is on its way, or the loss that took it will be marked.      *)
InFlight(p) ==
    \/ \E m \in wire[p] : m.kind \in {"offer", "answer"} /\ m.no = neg[p].no
    \/ \E i \in DOMAIN queue[p] :
         queue[p][i].op = "mark" \/ queue[p][i] = [op |-> "answer", no |-> neg[p].no]
    \/ link[p] = "lost"

NeverStuck ==
    \A p \in Peers \ (stopped \cup dropped) :
        (stage[p] = "in" /\ client[p] = "settled" /\ neg[p].active) => InFlight(p)

(* A negotiation loses neither a change nor its own end.                   *)
NegotiationSound == NothingForgotten /\ NeverStuck

(* A track feeds only who has it among the subscriptions, and no peer that *)
(* was closed: publishedTrack.subs, shared by many peers' goroutines, and  *)
(* each peer's own subs agree.                                             *)
NoFeedWithoutSubscription ==
    \A t \in Tracks :
        \A u \in listeners[t] : \E p \in Peers \ stopped : UserOf[p] = u /\ t \in subs[p]

(* What a settled, connected client should get is offered to it.           *)
ChangesAreOffered ==
    \A p \in Peers :
        (stage[p] = "in" /\ client[p] = "settled" /\ neg[p].described # subs[p])
          ~> \/ neg[p].described = subs[p]
             \/ neg[p].error
             \/ p \in dropped
             \/ link[p] # "up" \/ stage[p] = "left"

(* The first session of a user that publishes audio is heard by everybody  *)
(* in the room, whoever came first (autoSubscribeToExisting against        *)
(* handleOnTrack).                                                         *)
First(q) == \A r \in Peers \ {q} : UserOf[r] = UserOf[q] => stage[r] = "out"

EveryoneHears ==
    \A q \in Peers : \A p \in Peers \ {q} : \A s \in Audio :
        (client[p] = "settled" /\ p \in Others(q) /\ stage[q] = "in" /\ First(q)
           /\ s \in published[q])
          ~> (<<q, s>> \in subs[p] \/ p \in dropped \/ "left" \in {stage[p], stage[q]})

-----------------------------------------------------------------------------
(* The inductive invariant behind NothingForgotten, NeverStuck and         *)
(* NoFeedWithoutSubscription, peer by peer.                                *)

(* A client answers from the moment the answer to its own offer is sent;   *)
(* messages on their way keep their order with respect to that one.        *)
Answers(p) == client[p] = "settled" \/ \E m \in wire[p] : m.kind = "welcome"

NotStuck(p) == (stage[p] # "left" /\ Answers(p) /\ neg[p].active) => InFlight(p)

(* While negotiating is set, the PeerConnection has an offer outstanding.  *)
Outstanding(p) == neg[p].active => neg[p].signaling = "offered"

(* A detached session is marked, or will be, and no resume can undo that.  *)
NoClearQueued(p) == \A i \in DOMAIN queue[p] : queue[p][i].op # "clear"

WillBeMarked(p) ==
    \E i \in DOMAIN queue[p] :
        /\ queue[p][i].op = "mark"
        /\ \A j \in DOMAIN queue[p] : j > i => queue[p][j].op # "clear"

LossMarked(p) ==
    (stage[p] # "left" /\ link[p] = "down") =>
        WillBeMarked(p) \/ (neg[p].detached /\ NoClearQueued(p))

PeerInv ==
    /\ PeerTypeOK
    /\ NothingForgotten
    /\ NoFeedWithoutSubscription
    /\ \A p \in Peers \ stopped : Outstanding(p)
    /\ \A p \in Peers \ (stopped \cup dropped) : NotStuck(p) /\ LossMarked(p)

=============================================================================
