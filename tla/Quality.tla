------------------------------ MODULE Quality ------------------------------
(* The connection-quality badge of a call (services/connectionQuality.ts   *)
(* and the monitor of services/sfuCallClient.ts).  Every two seconds       *)
(* sampleQuality looks at the peer connection; while it is connected,      *)
(* getStats() answers later, perhaps after the next look, perhaps after    *)
(* the call was left or replaced.  A sample is the worst of its metrics,   *)
(* loss only against counters of an earlier sample.  The hysteresis of a   *)
(* tracker shows a worse level at once and a better one after two samples. *)
(* Metrics are the level classify() gives them, or "none"; the developer's *)
(* override webrtc_quality_force is not set.                               *)
EXTENDS Naturals, Sequences

CONSTANTS
    Reports,        \* what getStats may answer
    MaxTrackers,    \* bound: teardowns, each followed by a new tracker
    MaxReadings     \* bound: getStats() calls under way

Rank == [good |-> 0, medium |-> 1, bad |-> 2]
Measured == DOMAIN Rank
Metrics == {"inLoss", "inJitter", "outLoss", "outJitter", "rtt"}

ASSUME QualityAssumption ==
    /\ Reports \subseteq [Metrics -> Measured \union {"none"}]
    /\ MaxTrackers \in Nat /\ MaxReadings \in Nat

VARIABLES
    talking,        \* currentChannelID > 0
    link,           \* connectionState of pc, "gone" when there is none
    monitored,      \* qualitySampleTimer is set
    tracker,        \* the trackers made so far; the last one is in use
    readings,       \* readings[g]: getStats() calls made for tracker g
    badge,          \* what onQualityChange last said of the participants
    lately          \* lately[g]: the last two samples of g since "connecting"

qualityVars == <<talking, link, monitored, tracker, readings, badge, lately>>

NewTracker == [level |-> "connecting", better |-> "none", times |-> 0, counted |-> FALSE]
NoBadge == [of |-> 0, level |-> "none", side |-> "none"]
InUse == Len(tracker)

QualityInit ==
    /\ talking = FALSE /\ link = "gone" /\ monitored = FALSE
    /\ tracker = <<NewTracker>> /\ readings = <<0>>
    /\ badge = NoBadge /\ lately = << <<>> >>

Worst(levels) ==
    IF levels \subseteq {"none"} THEN "none"
    ELSE CHOOSE w \in levels \ {"none"} :
             \A l \in levels \ {"none"} : Rank[l] <= Rank[w]

Direction(inbound, outbound) ==
    LET weight(l) == IF l = "none" THEN 0 ELSE Rank[l]
    IN  IF weight(inbound) > weight(outbound) THEN "inbound"
        ELSE IF weight(outbound) > weight(inbound) THEN "outbound"
        ELSE "none"

\* Bug: the samples need not agree on the better level.
HysteresisOfAny(t, sample) ==
    IF sample \notin Measured \/ t.level \notin Measured
         \/ Rank[sample] >= Rank[t.level] \/ t.times = 1
    THEN [t EXCEPT !.level = sample, !.better = "none", !.times = 0]
    ELSE [t EXCEPT !.better = sample, !.times = 1]

ApplyHysteresis(t, sample) ==
    IF sample \notin Measured \/ t.level \notin Measured
         \/ Rank[sample] >= Rank[t.level] \/ (t.better = sample /\ t.times = 1)
    THEN [t EXCEPT !.level = sample, !.better = "none", !.times = 0]
    ELSE [t EXCEPT !.better = sample, !.times = 1]

Two(s) == IF Len(s) <= 2 THEN s ELSE Tail(s)

(* The end of sampleQuality for tracker g: a call that has been left is    *)
(* not told, another one that has been joined since is.                    *)
Publish(g, sample, side, counted) ==
    LET after == [ApplyHysteresis(tracker[g], sample) EXCEPT !.counted = counted]
    IN  /\ tracker' = [tracker EXCEPT ![g] = after]
        /\ lately' = [lately EXCEPT ![g] =
                          IF sample \in Measured THEN Two(Append(@, sample)) ELSE <<>>]
        /\ badge' = IF talking
                    THEN [of |-> g, level |-> after.level,
                          side |-> IF sample \in Measured THEN side ELSE "none"]
                    ELSE badge

SampleService ==
    /\ monitored /\ talking /\ link # "connected"
    /\ Publish(InUse, IF link = "new" THEN "connecting" ELSE "disconnected", "none",
               tracker[InUse].counted)
    /\ UNCHANGED <<talking, link, monitored, readings>>

SampleStats ==
    /\ monitored /\ talking /\ link = "connected"
    /\ readings[InUse] < MaxReadings
    /\ readings' = [readings EXCEPT ![InUse] = @ + 1]
    /\ UNCHANGED <<talking, link, monitored, tracker, badge, lately>>

Settled(g) ==
    /\ readings[g] > 0
    /\ readings' = [readings EXCEPT ![g] = @ - 1]
    /\ UNCHANGED <<talking, link, monitored>>

ReadQualitySample(g, report) ==
    LET loss(l) == IF tracker[g].counted THEN l ELSE "none"
        inbound == Worst({loss(report["inLoss"]), report["inJitter"]})
        outbound == Worst({loss(report["outLoss"]), report["outJitter"]})
        sample == Worst({inbound, outbound, report["rtt"]})
    IN  /\ Settled(g)
        /\ Publish(g, IF sample = "none" THEN "connecting" ELSE sample,
                   Direction(inbound, outbound), TRUE)

StatsFail(g) ==
    /\ Settled(g)
    /\ Publish(g, "connecting", "none", tracker[g].counted)

(* applySession and openPeerConnection; the monitor starts once the offer  *)
(* is answered.                                                            *)
OpenConnection ==
    /\ link = "gone" /\ ~talking
    /\ talking' = TRUE /\ link' = "new"
    /\ UNCHANGED <<monitored, tracker, readings, badge, lately>>

StartQualityMonitor ==
    /\ talking /\ ~monitored
    /\ monitored' = TRUE
    /\ UNCHANGED <<talking, link, tracker, readings, badge, lately>>

LinkChanges ==
    /\ \/ link \in {"new", "lost"} /\ link' = "connected"
       \/ link = "connected" /\ link' = "lost"
    /\ UNCHANGED <<talking, monitored, tracker, readings, badge, lately>>

(* teardownPeerConnection: of leave, and of rejoin before it joins again.  *)
TeardownLink ==
    /\ link # "gone" /\ InUse < MaxTrackers
    /\ link' = "gone" /\ talking' = FALSE /\ monitored' = FALSE
    /\ tracker' = Append(tracker, NewTracker)
    /\ readings' = Append(readings, 0) /\ lately' = Append(lately, <<>>)
    /\ badge' = NoBadge

QualityNext ==
    \/ SampleService \/ SampleStats \/ OpenConnection \/ StartQualityMonitor
    \/ LinkChanges \/ TeardownLink
    \/ \E g \in DOMAIN tracker :
           StatsFail(g) \/ \E report \in Reports : ReadQualitySample(g, report)

-----------------------------------------------------------------------------
(* A badge is only there in a call, and its level is earned: a bad sample  *)
(* shows at once, a better level than was shown needs two samples in a row *)
(* that agree on it.  So the badge is never better than either of the last *)
(* two samples of its tracker, whatever order they arrive in.              *)
LevelIsEarned ==
    /\ ~talking => badge = NoBadge
    /\ badge.level \in Measured =>
           LET last == lately[badge.of]
           IN  /\ last # <<>>
               /\ \A i \in DOMAIN last : Rank[badge.level] >= Rank[last[i]]
               /\ Len(last) = 2 /\ last[1] = last[2] => badge.level = last[1]
=============================================================================
