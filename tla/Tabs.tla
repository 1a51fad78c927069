-------------------------------- MODULE Tabs ---------------------------------
(***************************************************************************)
(* Which of the open tabs plays sounds: the election of                    *)
(* services/notifications/leader.ts over a BroadcastChannel.               *)
(*                                                                         *)
(* The state is that of the module, which outlives a dispose: signing out  *)
(* and in again elects anew in the same tab.  Browsers hold back timers of *)
(* hidden tabs, so a watchdog may fire while its leader lives.             *)
(***************************************************************************)
EXTENDS Naturals, Sequences, FiniteSets

CONSTANTS
    Pages,
    MaxElections,   \* bound: calls of initLeaderElection
    MaxClaims       \* bound: watchdogs that fire

VARIABLES
    tab,            \* "shut", "in" (elected or electing) or "out" (disposed)
    myId,           \* ids grow with time
    isLeaderFlag,
    leaderId,       \* 0 for null
    beats,          \* the heartbeat interval runs
    claim,          \* 300 ms timers that have not fired
    watched,        \* the watchdog is armed
    channel,        \* channel[p]: messages posted and not yet received by p
    elections, claims,
    agreed          \* leaders that have announced themselves since the last change

tabVars == <<tab, myId, isLeaderFlag, leaderId, beats, claim, watched, channel,
             elections, claims, agreed>>

TabInit ==
    /\ tab = [p \in Pages |-> "shut"] /\ myId = [p \in Pages |-> 0]
    /\ isLeaderFlag = [p \in Pages |-> TRUE] /\ leaderId = [p \in Pages |-> 0]
    /\ beats = [p \in Pages |-> FALSE] /\ claim = [p \in Pages |-> 0]
    /\ watched = [p \in Pages |-> FALSE] /\ channel = [p \in Pages |-> <<>>]
    /\ elections = 0 /\ claims = 0 /\ agreed = {}

Leading(p) == tab[p] = "in" /\ isLeaderFlag[p]

\* Posted on the channel of p, a message reaches the other open channels.
Broadcast(p, type, inboxes) ==
    IF tab[p] = "in"
    THEN [q \in Pages |-> IF q # p /\ tab[q] = "in"
                          THEN Append(inboxes[q], [type |-> type, id |-> myId[p]])
                          ELSE inboxes[q]]
    ELSE inboxes

InitLeaderElection(p) ==
    /\ tab[p] # "in" /\ elections < MaxElections /\ elections' = elections + 1
    /\ tab' = [tab EXCEPT ![p] = "in"] /\ myId' = [myId EXCEPT ![p] = elections']
    /\ isLeaderFlag' = [isLeaderFlag EXCEPT ![p] = FALSE]
    /\ claim' = [claim EXCEPT ![p] = @ + 1] /\ watched' = [watched EXCEPT ![p] = TRUE]
    /\ channel' = [channel EXCEPT ![p] = <<>>] /\ agreed' = {}
    /\ UNCHANGED <<leaderId, beats, claims>>

BecomeLeader(p, inboxes) ==
    /\ isLeaderFlag' = [isLeaderFlag EXCEPT ![p] = TRUE]
    /\ leaderId' = [leaderId EXCEPT ![p] = myId[p]]
    /\ beats' = [beats EXCEPT ![p] = TRUE]
    /\ channel' = Broadcast(p, "heartbeat", inboxes)
    /\ agreed' = IF Leading(p) THEN agreed ELSE {p}

\* 300 ms after the start, unless a leader was heard of.  A dispose does not
\* stop this timer.
Claims(p) ==
    /\ claim[p] > 0 /\ claim' = [claim EXCEPT ![p] = @ - 1]
    /\ IF leaderId[p] = 0
       THEN BecomeLeader(p, channel)
       ELSE UNCHANGED <<isLeaderFlag, leaderId, beats, channel, agreed>>
    /\ UNCHANGED <<tab, myId, watched, elections, claims>>

WatchdogFires(p) ==
    /\ watched[p] /\ claims < MaxClaims /\ claims' = claims + 1
    /\ watched' = [watched EXCEPT ![p] = FALSE] /\ BecomeLeader(p, channel)
    /\ UNCHANGED <<tab, myId, claim, elections>>

\* Four seconds after the last one, which has been received by then.
Heartbeats(p) ==
    /\ beats[p] /\ \A q \in Pages : channel[q] = <<>>
    /\ channel' = Broadcast(p, "heartbeat", channel)
    /\ agreed' = IF Leading(p) THEN agreed \union {p} ELSE agreed
    /\ UNCHANGED <<tab, myId, isLeaderFlag, leaderId, beats, claim, watched, elections, claims>>

\* Bug: the tab that hears of a leader it did not know keeps its place.
StepsDownForNone(p, id) == isLeaderFlag[p] /\ id < myId[p] /\ leaderId[p] # myId[p]

\* Of two leaders the one with the smaller id stays.
StepsDown(p, id) == isLeaderFlag[p] /\ id < myId[p]

HearsHeartbeat(p) ==
    /\ tab[p] = "in" /\ channel[p] # <<>> /\ Head(channel[p]).type = "heartbeat"
    /\ leaderId' = [leaderId EXCEPT ![p] = Head(channel[p]).id]
    /\ IF StepsDown(p, Head(channel[p]).id)
       THEN /\ isLeaderFlag' = [isLeaderFlag EXCEPT ![p] = FALSE]
            /\ beats' = [beats EXCEPT ![p] = FALSE]
            /\ agreed' = agreed \ {p}
       ELSE UNCHANGED <<isLeaderFlag, beats, agreed>>
    /\ watched' = [watched EXCEPT ![p] = TRUE]
    /\ channel' = [channel EXCEPT ![p] = Tail(@)]
    /\ UNCHANGED <<tab, myId, claim, elections, claims>>

\* Every tab that followed the one leaving claims its place.
HearsLeaving(p) ==
    /\ tab[p] = "in" /\ channel[p] # <<>> /\ Head(channel[p]).type = "leaving"
    /\ LET rest == [channel EXCEPT ![p] = Tail(@)]
       IN  IF Head(channel[p]).id = leaderId[p]
           THEN watched' = [watched EXCEPT ![p] = FALSE] /\ BecomeLeader(p, rest)
           ELSE channel' = rest /\ UNCHANGED <<isLeaderFlag, leaderId, beats, watched, agreed>>
    /\ UNCHANGED <<tab, myId, claim, elections, claims>>

\* The tab is closed: the module is gone with it.
Unload(p) ==
    /\ tab[p] = "in" /\ tab' = [tab EXCEPT ![p] = "shut"]
    /\ channel' = [(IF isLeaderFlag[p] THEN Broadcast(p, "leaving", channel) ELSE channel)
                     EXCEPT ![p] = <<>>]
    /\ isLeaderFlag' = [isLeaderFlag EXCEPT ![p] = TRUE]
    /\ leaderId' = [leaderId EXCEPT ![p] = 0] /\ beats' = [beats EXCEPT ![p] = FALSE]
    /\ claim' = [claim EXCEPT ![p] = 0] /\ watched' = [watched EXCEPT ![p] = FALSE]
    /\ agreed' = agreed \ {p}
    /\ UNCHANGED <<myId, elections, claims>>

\* Signing out: nobody is told, and the 300 ms timer and leaderId stay.
Dispose(p) ==
    /\ tab[p] = "in" /\ tab' = [tab EXCEPT ![p] = "out"]
    /\ beats' = [beats EXCEPT ![p] = FALSE] /\ watched' = [watched EXCEPT ![p] = FALSE]
    /\ channel' = [channel EXCEPT ![p] = <<>>] /\ agreed' = agreed \ {p}
    /\ UNCHANGED <<myId, isLeaderFlag, leaderId, claim, elections, claims>>

TabNext ==
    \E p \in Pages :
        \/ InitLeaderElection(p) \/ Claims(p) \/ WatchdogFires(p) \/ Heartbeats(p)
        \/ HearsHeartbeat(p) \/ HearsLeaving(p) \/ Unload(p) \/ Dispose(p)

-----------------------------------------------------------------------------
(* Properties *)

\* A round of heartbeats after the last change leaves one leader: once every
\* leader has announced itself and nothing is on the channel, no two tabs play
\* the sound of one message (leader.ts: "Only the elected leader tab plays
\* sound").
OneLeaderAfterARound ==
    ({p \in Pages : Leading(p)} \subseteq agreed /\ \A p \in Pages : channel[p] = <<>>)
        => Cardinality({p \in Pages : Leading(p)}) <= 1

\* What makes it inductive: no two tabs have one id, ...
IdsInv ==
    /\ elections \in Nat /\ myId \in [Pages -> 0..elections]
    /\ \A p \in Pages : tab[p] = "in" => myId[p] > 0
    /\ \A p, q \in Pages : p # q /\ myId[p] > 0 => myId[p] # myId[q]

\* ... and a leader that has announced itself is on its way to every leader
\* that will give way to it.
AnnouncedInv ==
    \A q \in agreed, r \in Pages :
        Leading(q) /\ Leading(r) /\ myId[q] < myId[r] =>
            \E i \in DOMAIN channel[r] : channel[r][i] = [type |-> "heartbeat", id |-> myId[q]]

TabTypeOK ==
    /\ tab \in [Pages -> {"shut", "in", "out"}] /\ isLeaderFlag \in [Pages -> BOOLEAN]
    /\ channel \in [Pages -> Seq([type : {"heartbeat", "leaving"}, id : Nat])]
    /\ leaderId \in [Pages -> Nat] /\ claim \in [Pages -> Nat] /\ agreed \subseteq Pages

TabInv == TabTypeOK /\ IdsInv /\ AnnouncedInv

=============================================================================
