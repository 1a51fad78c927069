---------------------------- MODULE MediaProofs ----------------------------
(***************************************************************************)
(* The parts around the media of a call and the player: the badge of a     *)
(* call is never better than its last samples, a muted microphone is not   *)
(* heard and a left call keeps no device open, whatever the async calls    *)
(* that are under way, the player does what its buttons say, and the tile  *)
(* of another user shows what that user shares once all has arrived.  And  *)
(* the overlays over them: each has its entry in the browser's history.    *)
(*                                                                         *)
(* And the rooms the media flow through: the router never leaks one, never *)
(* hands out a closed one, and implements SfuSessions.  The argument is    *)
(* RouterInv: a Leave that is under way knows its room, and while that is  *)
(* open it is the one in r.rooms (so the re-check under r.mu deletes the   *)
(* right entry); an open room that is empty always has a goroutine that    *)
(* will fill it or re-check it.                                            *)
(***************************************************************************)
EXTENDS SfuRouter, Quality, LocalMedia, Player, RemoteVideo, Overlays, SequenceTheorems,
        FiniteSetTheorems, TLAPS

-----------------------------------------------------------------------------
(* The quality of the connection                                           *)

QualitySpec == QualityInit /\ [][QualityNext]_qualityVars

Levels == Measured \union {"none", "connecting", "disconnected"}

Tracker == [level : Levels, better : Measured \union {"none"}, times : {0, 1},
            counted : BOOLEAN]

QualityTypeOK ==
    /\ talking \in BOOLEAN
    /\ tracker \in Seq(Tracker) /\ tracker # <<>>
    /\ lately \in Seq(Seq(Measured)) /\ Len(lately) = Len(tracker)
    /\ badge \in [of : Nat, level : Levels, side : {"none", "inbound", "outbound"}]

\* A tracker t with a level has had samples, of which it remembers the last
\* as the better one when that is better than its level.
Earned(t, last) ==
    IF t.level \notin Measured
    THEN last = <<>>
    ELSE /\ last # <<>> /\ Len(last) <= 2
         /\ \A i \in DOMAIN last : Rank[t.level] >= Rank[last[i]]
         /\ Len(last) = 2 /\ last[1] = last[2] => t.level = last[1]
         /\ t.times = 1 => t.better = last[Len(last)]
         /\ Rank[last[Len(last)]] < Rank[t.level] => t.times = 1

BadgeInv ==
    \/ badge = NoBadge
    \/ talking /\ badge.of \in DOMAIN tracker /\ badge.level = tracker[badge.of].level

QualityInv ==
    /\ QualityTypeOK /\ BadgeInv
    /\ \A g \in DOMAIN tracker : Earned(tracker[g], lately[g])

(* The ranks of classify's levels.                                         *)
LEMMA Ranks ==
  /\ Measured = {"good", "medium", "bad"}
  /\ Rank["good"] = 0 /\ Rank["medium"] = 1 /\ Rank["bad"] = 2
  /\ \A l \in Measured : Rank[l] \in 0..2
  /\ \A l, m \in Measured : Rank[l] = Rank[m] => l = m
BY DEF Rank, Measured

(* worst() of connectionQuality.ts gives a level of its arguments.         *)
LEMMA WorstIsMeasured ==
  ASSUME NEW S, S \subseteq Measured \union {"none"}
  PROVE  /\ Worst(S) \in Measured \union {"none"}
         /\ Worst(S) # "none" => \A l \in S \ {"none"} : Rank[l] <= Rank[Worst(S)]
<1>1. CASE S \subseteq {"none"}
  BY <1>1 DEF Worst
<1>2. CASE ~(S \subseteq {"none"})
  <2>1. \E w \in S \ {"none"} : \A l \in S \ {"none"} : Rank[l] <= Rank[w]
    <3>1. S \ {"none"} \subseteq {"good", "medium", "bad"}
      BY Ranks
    <3>2. PICK w \in S \ {"none"} : \/ w = "bad"
                                    \/ w = "medium" /\ "bad" \notin S
                                    \/ w = "good" /\ "bad" \notin S /\ "medium" \notin S
      BY <1>2, <3>1
    <3> QED
      BY <3>1, <3>2, Ranks
  <2> QED
    BY <1>2, <2>1 DEF Worst
<1> QED
  BY <1>1, <1>2

(* The tail of three samples is the last two. *)
LEMMA TailOfThree ==
  ASSUME NEW S, NEW s \in Seq(S), Len(s) = 3
  PROVE  /\ Tail(s) \in Seq(S) /\ Len(Tail(s)) = 2
         /\ Tail(s)[1] = s[2] /\ Tail(s)[2] = s[3]
<1>1. s # <<>>
  OBVIOUS
<1>2. /\ Tail(s) \in Seq(S) /\ Len(Tail(s)) = 2
      /\ \A i \in 1..2 : Tail(s)[i] = s[i + 1]
  <2>1. /\ Tail(s) \in Seq(S) /\ Len(Tail(s)) = Len(s) - 1
        /\ \A i \in 1..Len(Tail(s)) : Tail(s)[i] = s[i + 1]
    BY <1>1, HeadTailProperties, Zenon
  <2>2. Len(s) - 1 = 2
    OBVIOUS
  <2> QED
    BY <2>1, <2>2, Zenon
<1>3. 1 \in 1..2 /\ 2 \in 1..2 /\ 1 + 1 = 2 /\ 2 + 1 = 3
  OBVIOUS
<1> QED
  BY <1>2, <1>3, Zenon

(* What lately keeps: the last sample, and the one before it.              *)
LEMMA TwoKeepsLast ==
  ASSUME NEW s \in Seq(Measured), Len(s) <= 2, NEW x \in Measured,
         NEW r, r = Two(Append(s, x))
  PROVE  /\ r \in Seq(Measured) /\ r # <<>> /\ r[Len(r)] = x
         /\ Len(r) = IF s = <<>> THEN 1 ELSE 2
         /\ s # <<>> => r[1] = s[Len(s)]
<1> DEFINE a == Append(s, x)
<1>1. /\ a \in Seq(Measured) /\ Len(a) = Len(s) + 1 /\ a[Len(s) + 1] = x
      /\ Len(s) \in Nat /\ \A i \in 1..Len(s) : a[i] = s[i]
  OBVIOUS
<1>2. r = IF Len(a) <= 2 THEN a ELSE Tail(a)
  BY DEF Two
<1> HIDE DEF a
<1>0. /\ \A t \in Seq(Measured) : t = <<>> <=> Len(t) = 0
      /\ 1 # 0 /\ 2 # 0 /\ 3 # 0
  OBVIOUS
<1>3. CASE Len(s) = 0
  <2>1. r = a /\ Len(a) = 1 /\ a[1] = x
    BY <1>1, <1>2, <1>3
  <2>2. s = <<>>
    BY <1>0, <1>3, Zenon
  <2>3. a # <<>>
    BY <1>0, <1>1, <2>1, Zenon
  <2> QED
    BY <1>1, <2>1, <2>2, <2>3, Zenon
<1>4. CASE Len(s) = 1
  <2>1. r = a /\ Len(a) = 2 /\ a[2] = x /\ a[1] = s[1]
    BY <1>1, <1>2, <1>4
  <2>2. s # <<>> /\ a # <<>>
    BY <1>0, <1>1, <1>4, <2>1, Zenon
  <2> QED
    BY <1>1, <1>4, <2>1, <2>2, Zenon
<1>5. CASE Len(s) = 2
  <2>1. r = Tail(a) /\ Len(a) = 3 /\ a[3] = x /\ a[2] = s[2]
    BY <1>1, <1>2, <1>5
  <2>2. s # <<>> /\ a # <<>>
    BY <1>0, <1>1, <1>5, <2>1, Zenon
  <2>3. /\ Tail(a) \in Seq(Measured) /\ Len(Tail(a)) = 2
        /\ Tail(a)[1] = a[2] /\ Tail(a)[2] = a[3]
    BY <1>1, <2>1, <2>2, TailOfThree, Zenon
  <2>4. Tail(a) # <<>>
    BY <1>0, <2>3, Zenon
  <2> QED
    BY <1>1, <1>5, <2>1, <2>2, <2>3, <2>4, Zenon
<1>6. Len(s) = 0 \/ Len(s) = 1 \/ Len(s) = 2
  <2>1. \A n \in Nat : n <= 2 => n = 0 \/ n = 1 \/ n = 2
    OBVIOUS
  <2> QED
    BY <1>1, <2>1, Zenon
<1> QED
  BY <1>3, <1>4, <1>5, <1>6, Zenon

(* applyHysteresis: whatever the sample, the level stays earned.           *)
LEMMA HysteresisEarns ==
  ASSUME NEW t \in Tracker, NEW last \in Seq(Measured), Earned(t, last),
         NEW sample \in Levels, NEW counted \in BOOLEAN
  PROVE  /\ [ApplyHysteresis(t, sample) EXCEPT !.counted = counted] \in Tracker
         /\ Earned([ApplyHysteresis(t, sample) EXCEPT !.counted = counted],
                   IF sample \in Measured THEN Two(Append(last, sample)) ELSE <<>>)
<1> DEFINE u == [ApplyHysteresis(t, sample) EXCEPT !.counted = counted]
<1> DEFINE r == Two(Append(last, sample))
<1>1. CASE sample \notin Measured
  <2>1. u \in Tracker /\ u.level = sample
    BY <1>1 DEF ApplyHysteresis, Tracker
  <2> HIDE DEF u
  <2> QED
    BY <1>1, <2>1 DEF Earned, u
<1>2. CASE sample \in Measured /\ t.level \notin Measured
  <2>1. u \in Tracker /\ u.level = sample /\ u.times = 0
    BY <1>2 DEF ApplyHysteresis, Tracker
  <2>2. last = <<>>
    BY <1>2 DEF Earned
  <2>3. r = <<sample>>
    BY <1>2, <2>2 DEF Two
  <2> HIDE DEF u, r
  <2>4. Earned(u, r)
    BY <1>2, <2>1, <2>3, Ranks DEF Earned
  <2> QED
    BY <1>2, <2>1, <2>4 DEF u, r
<1>3. CASE sample \in Measured /\ t.level \in Measured
  <2>1. /\ last # <<>> /\ Len(last) \in Nat /\ Len(last) <= 2
             /\ last[Len(last)] \in Measured
        /\ Rank[t.level] >= Rank[last[Len(last)]]
        /\ t.times = 1 => t.better = last[Len(last)]
        /\ Rank[last[Len(last)]] < Rank[t.level] => t.times = 1
    BY <1>3 DEF Earned
  <2>2. /\ r \in Seq(Measured) /\ r # <<>> /\ Len(r) = 2
        /\ r[2] = sample /\ r[1] = last[Len(last)]
    BY <1>3, <2>1, TwoKeepsLast
  <2>3. Rank[sample] \in 0..2 /\ Rank[t.level] \in 0..2 /\ Rank[last[Len(last)]] \in 0..2
    BY <1>3, <2>1, Ranks
  <2>4. CASE Rank[sample] >= Rank[t.level]
    <3>1. u \in Tracker /\ u.level = sample /\ u.times = 0
      BY <1>3, <2>4 DEF ApplyHysteresis, Tracker
    <3> HIDE DEF u, r
    <3>2. Earned(u, r)
      BY <1>3, <2>1, <2>2, <2>3, <2>4, <3>1 DEF Earned
    <3> QED
      BY <1>3, <3>1, <3>2 DEF u, r
  <2>5. CASE Rank[sample] < Rank[t.level] /\ t.better = sample /\ t.times = 1
    <3>1. u \in Tracker /\ u.level = sample /\ u.times = 0
      BY <1>3, <2>5 DEF ApplyHysteresis, Tracker
    <3> HIDE DEF u, r
    <3>2. Earned(u, r)
      BY <1>3, <2>1, <2>2, <2>3, <2>5, <3>1 DEF Earned
    <3> QED
      BY <1>3, <3>1, <3>2 DEF u, r
  <2>6. CASE Rank[sample] < Rank[t.level] /\ ~(t.better = sample /\ t.times = 1)
    <3>1. u \in Tracker /\ u.level = t.level /\ u.better = sample /\ u.times = 1
      <4>1. ~(Rank[sample] >= Rank[t.level])
        BY <2>3, <2>6
      <4>2. ApplyHysteresis(t, sample) = [t EXCEPT !.better = sample, !.times = 1]
        BY <1>3, <2>6, <4>1 DEF ApplyHysteresis
      <4> QED
        BY <1>3, <4>2 DEF Tracker
    <3>2. last[Len(last)] # sample
      BY <2>1, <2>6
    <3> HIDE DEF u, r
    <3>3. Earned(u, r)
      BY <1>3, <2>1, <2>2, <2>3, <2>6, <3>1, <3>2 DEF Earned
    <3> QED
      BY <1>3, <3>1, <3>3 DEF u, r
  <2> QED
    BY <2>3, <2>4, <2>5, <2>6
<1> QED
  BY <1>1, <1>2, <1>3

LEMMA InitQualityInv == QualityInit => QualityInv
<1> SUFFICES ASSUME QualityInit
             PROVE  QualityInv
  OBVIOUS
<1>1. QualityTypeOK /\ BadgeInv
  <2>1. NewTracker \in Tracker
    BY DEF NewTracker, Tracker, Levels
  <2>2. NoBadge \in [of : Nat, level : Levels, side : {"none", "inbound", "outbound"}]
    BY DEF NoBadge, Levels
  <2>3. <<NewTracker>> \in Seq(Tracker) /\ Len(<<NewTracker>>) = 1 /\ <<NewTracker>> # <<>>
    BY <2>1
  <2>4. << <<>> >> \in Seq(Seq(Measured)) /\ Len(<< <<>> >>) = 1
    OBVIOUS
  <2> QED
    BY <2>2, <2>3, <2>4 DEF QualityInit, QualityTypeOK, BadgeInv
<1>2. ASSUME NEW g \in DOMAIN tracker
      PROVE  Earned(tracker[g], lately[g])
  <2>1. tracker[g].level = "connecting" /\ lately[g] = <<>>
    BY DEF QualityInit, NewTracker
  <2> QED
    BY <2>1, Ranks DEF Earned
<1> QED
  BY <1>1, <1>2 DEF QualityInv

(* The end of sampleQuality, for a tracker in use or one replaced since.   *)
LEMMA PublishKeepsInv ==
  ASSUME QualityInv, NEW g \in DOMAIN tracker, NEW sample \in Levels,
         NEW side \in {"none", "inbound", "outbound"}, NEW counted \in BOOLEAN,
         Publish(g, sample, side, counted), talking' = talking
  PROVE  QualityInv'
<1> USE DEF QualityInv
<1> DEFINE u == [ApplyHysteresis(tracker[g], sample) EXCEPT !.counted = counted]
<1> DEFINE l == IF sample \in Measured THEN Two(Append(lately[g], sample)) ELSE <<>>
<1>1. /\ tracker \in Seq(Tracker) /\ tracker[g] \in Tracker
      /\ lately \in Seq(Seq(Measured)) /\ lately[g] \in Seq(Measured)
      /\ Len(tracker) \in Nat /\ Len(lately) = Len(tracker)
      /\ DOMAIN tracker = 1..Len(tracker) /\ DOMAIN lately = 1..Len(tracker)
      /\ Earned(tracker[g], lately[g])
  BY DEF QualityTypeOK
<1>2. u \in Tracker /\ Earned(u, l)
  BY <1>1, HysteresisEarns, Zenon
<1>3. l \in Seq(Measured)
  <2>1. CASE sample \notin Measured
    BY <2>1
  <2>2. CASE sample \in Measured
    <3>1. Len(lately[g]) <= 2
      BY <1>1 DEF Earned
    <3> QED
      BY <1>1, <2>2, <3>1, TwoKeepsLast
  <2> QED
    BY <2>1, <2>2
<1>4. /\ tracker' = [tracker EXCEPT ![g] = u] /\ lately' = [lately EXCEPT ![g] = l]
      /\ badge' = IF talking THEN [of |-> g, level |-> u.level,
                                   side |-> IF sample \in Measured THEN side ELSE "none"]
                  ELSE badge
  BY DEF Publish
<1> HIDE DEF u, l
<1>5. /\ tracker' \in Seq(Tracker) /\ DOMAIN tracker' = DOMAIN tracker /\ tracker' # <<>>
      /\ lately' \in Seq(Seq(Measured)) /\ Len(lately') = Len(tracker')
      /\ tracker'[g] = u /\ lately'[g] = l
      /\ \A h \in DOMAIN tracker : h # g => tracker'[h] = tracker[h]
           /\ lately'[h] = lately[h]
  BY <1>1, <1>2, <1>3, <1>4
<1>6. QualityTypeOK'
  BY <1>1, <1>2, <1>4, <1>5 DEF QualityTypeOK, Tracker
<1>7. BadgeInv'
  BY <1>1, <1>4, <1>5 DEF BadgeInv
<1>8. \A h \in DOMAIN tracker' : Earned(tracker'[h], lately'[h])
  BY <1>2, <1>5
<1> QED
  BY <1>6, <1>7, <1>8

(* Every action keeps the trackers earned and the badge one of theirs.     *)
LEMMA QualityInvStep == QualityInv /\ [QualityNext]_qualityVars => QualityInv'
<1> SUFFICES ASSUME QualityInv, [QualityNext]_qualityVars
             PROVE  QualityInv'
  OBVIOUS
<1>0. /\ talking \in BOOLEAN /\ tracker \in Seq(Tracker) /\ Len(tracker) \in Nat
      /\ tracker # <<>> /\ DOMAIN tracker = 1..Len(tracker)
      /\ \A g \in DOMAIN tracker : tracker[g] \in Tracker /\ tracker[g].counted \in BOOLEAN
  <2>1. talking \in BOOLEAN /\ tracker \in Seq(Tracker) /\ tracker # <<>>
    BY DEF QualityInv, QualityTypeOK
  <2>2. \A t \in Tracker : t.counted \in BOOLEAN
    BY DEF Tracker
  <2> QED
    BY <2>1, <2>2
<1>1. CASE SampleService
  <2>1. InUse \in DOMAIN tracker
    BY <1>0 DEF InUse
  <2>2. PICK sample \in {"connecting", "disconnected"} :
            Publish(InUse, sample, "none", tracker[InUse].counted)
    BY <1>1 DEF SampleService
  <2>3. sample \in Levels /\ "none" \in {"none", "inbound", "outbound"}
        /\ tracker[InUse].counted \in BOOLEAN /\ talking' = talking
    BY <1>0, <1>1, <2>1, <2>2 DEF Levels, SampleService
  <2> QED
    BY <2>1, <2>2, <2>3, PublishKeepsInv
<1>2. CASE SampleStats \/ StartQualityMonitor \/ LinkChanges \/ UNCHANGED qualityVars
  BY <1>2 DEF SampleStats, StartQualityMonitor, LinkChanges, qualityVars, QualityInv,
              QualityTypeOK, BadgeInv
<1>3. CASE OpenConnection
  BY <1>3 DEF OpenConnection, QualityInv, QualityTypeOK, BadgeInv
<1>4. CASE TeardownLink
  <2>1. /\ tracker' = Append(tracker, NewTracker) /\ lately' = Append(lately, <<>>)
        /\ talking' = FALSE /\ badge' = NoBadge
    BY <1>4 DEF TeardownLink
  <2>2. /\ NewTracker \in Tracker /\ <<>> \in Seq(Measured) /\ Earned(NewTracker, <<>>)
    BY Ranks DEF NewTracker, Tracker, Levels, Earned
  <2>3. NoBadge \in [of : Nat, level : Levels, side : {"none", "inbound", "outbound"}]
    BY DEF NoBadge, Levels
  <2>4. lately \in Seq(Seq(Measured)) /\ Len(lately) = Len(tracker)
    BY DEF QualityInv, QualityTypeOK
  <2> HIDE DEF NewTracker, NoBadge
  <2>5. /\ tracker' \in Seq(Tracker) /\ tracker' # <<>>
        /\ lately' \in Seq(Seq(Measured)) /\ Len(lately') = Len(tracker')
        /\ DOMAIN tracker' = 1..(Len(tracker) + 1)
        /\ tracker'[Len(tracker) + 1] = NewTracker /\ lately'[Len(tracker) + 1] = <<>>
        /\ \A g \in 1..Len(tracker) : tracker'[g] = tracker[g] /\ lately'[g] = lately[g]
    <3>1. /\ tracker' \in Seq(Tracker) /\ tracker' # <<>>
               /\ Len(tracker') = Len(tracker) + 1
          /\ DOMAIN tracker' = 1..(Len(tracker) + 1)
          /\ tracker'[Len(tracker) + 1] = NewTracker
          /\ \A g \in 1..Len(tracker) : tracker'[g] = tracker[g]
      BY <1>0, <2>1, <2>2
    <3>2. <<>> \in Seq(Measured)
      OBVIOUS
    <3> DEFINE none == <<>>
    <3> HIDE DEF none
    <3>3. none \in Seq(Measured) /\ lately' = Append(lately, none)
      BY <2>1, <3>2 DEF none
    <3>4. /\ lately' \in Seq(Seq(Measured)) /\ Len(lately') = Len(tracker) + 1
          /\ lately'[Len(tracker) + 1] = none
          /\ \A g \in 1..Len(tracker) : lately'[g] = lately[g]
      BY <1>0, <2>4, <3>3
    <3> QED
      BY <3>1, <3>4 DEF none
  <2>6. \A g \in DOMAIN tracker' : Earned(tracker'[g], lately'[g])
    <3>1. \A g \in 1..Len(tracker) : Earned(tracker[g], lately[g])
      BY <1>0 DEF QualityInv
    <3>2. ASSUME NEW g \in 1..Len(tracker)
          PROVE  Earned(tracker'[g], lately'[g])
      BY <2>5, <3>1
    <3>3. Earned(tracker'[Len(tracker) + 1], lately'[Len(tracker) + 1])
      BY <2>2, <2>5
    <3>4. \A g \in 1..(Len(tracker) + 1) : g \in 1..Len(tracker) \/ g = Len(tracker) + 1
      BY <1>0
    <3> QED
      BY <2>5, <3>2, <3>3, <3>4
  <2>7. QualityTypeOK'
    BY <2>1, <2>3, <2>5 DEF QualityTypeOK
  <2> QED
    BY <2>1, <2>6, <2>7 DEF QualityInv, BadgeInv
<1>5. ASSUME NEW g \in DOMAIN tracker, StatsFail(g)
      PROVE  QualityInv'
  <2>1. /\ Publish(g, "connecting", "none", tracker[g].counted) /\ talking' = talking
        /\ "connecting" \in Levels /\ "none" \in {"none", "inbound", "outbound"}
    BY <1>5 DEF StatsFail, Settled, Levels
  <2> QED
    BY <1>0, <2>1, PublishKeepsInv
<1>6. ASSUME NEW g \in DOMAIN tracker, NEW report \in Reports,
             ReadQualitySample(g, report)
      PROVE  QualityInv'
  <2> DEFINE loss(l) == IF tracker[g].counted THEN l ELSE "none"
             inbound == Worst({loss(report["inLoss"]), report["inJitter"]})
             outbound == Worst({loss(report["outLoss"]), report["outJitter"]})
             sample == Worst({inbound, outbound, report["rtt"]})
             shown == IF sample = "none" THEN "connecting" ELSE sample
             side == Direction(inbound, outbound)
  <2>1. \A m \in Metrics : report[m] \in Measured \union {"none"}
    BY QualityAssumption
  <2>2. inbound \in Measured \union {"none"} /\ outbound \in Measured \union {"none"}
    <3>1. /\ {loss(report["inLoss"]), report["inJitter"]} \subseteq Measured \union {"none"}
          /\ {loss(report["outLoss"]),
               report["outJitter"]} \subseteq Measured \union {"none"}
      BY <2>1 DEF Metrics
    <3> QED
      BY <3>1, WorstIsMeasured
  <2> HIDE DEF inbound, outbound
  <2>3. sample \in Measured \union {"none"}
    <3>1. {inbound, outbound, report["rtt"]} \subseteq Measured \union {"none"}
      BY <2>1, <2>2 DEF Metrics
    <3> QED
      BY <3>1, WorstIsMeasured
  <2> HIDE DEF sample
  <2>4. shown \in Levels /\ side \in {"none", "inbound", "outbound"}
    BY <2>3 DEF Levels, Direction
  <2>5. Publish(g, shown, side, TRUE) /\ talking' = talking
    BY <1>6 DEF ReadQualitySample, Settled, inbound, outbound, sample
  <2> HIDE DEF shown, side
  <2> QED
    BY <2>4, <2>5, PublishKeepsInv
<1> QED
  BY <1>1, <1>2, <1>3, <1>4, <1>5, <1>6 DEF QualityNext

(* The trackers of connectionQuality.ts in all interleavings of samples,   *)
(* late answers of getStats and changes of call.                           *)
THEOREM QualityInvHolds == QualitySpec => []QualityInv
BY InitQualityInv, QualityInvStep, PTL DEF QualitySpec

(* The badge is gone outside a call, shows a bad sample at once, and a     *)
(* better level only after two samples that agree on it (applyHysteresis). *)
THEOREM BadgeIsEarned == QualitySpec => []LevelIsEarned
<1>1. QualityInv => LevelIsEarned
  <2> SUFFICES ASSUME QualityInv
               PROVE  LevelIsEarned
    OBVIOUS
  <2>1. ~talking => badge = NoBadge
    BY DEF QualityInv, BadgeInv
  <2>2. ASSUME badge.level \in Measured
        PROVE  Earned(tracker[badge.of], lately[badge.of])
               /\ badge.level = tracker[badge.of].level
    <3>1. NoBadge.level \notin Measured
      BY Ranks DEF NoBadge
    <3> QED
      BY <2>2, <3>1 DEF QualityInv, BadgeInv
  <2> QED
    BY <2>1, <2>2 DEF LevelIsEarned, Earned
<1> QED
  BY <1>1, QualityInvHolds, PTL

-----------------------------------------------------------------------------
(* Microphone, camera and screen                                           *)

MediaSpec == MediaInit /\ [][MediaNext]_mediaVars

\* Tracks and connections are only ever added.
Grows ==
    /\ made \in Nat /\ made' \in Nat /\ made <= made'
    /\ opened \in Nat /\ opened' \in Nat /\ opened <= opened'

JobsOK == job \in [Jobs -> JobStates] /\ \A j \in Jobs : JobRight(j, job[j])

\* Job j goes on as r, the others as they were.
Moves(j, r) ==
    /\ job'[j] = r
    /\ \A k \in Jobs \ {j} : job'[k] = job[k]

LEMMA StaysRight ==
    ASSUME Grows, NEW j \in Jobs, NEW k \in JobStates, JobRight(j, k)
    PROVE  JobRight(j, k)'
  BY DEF Grows, JobRight, JobStates

LEMMA JobsStay ==
    ASSUME JobsOK, Grows, UNCHANGED job
    PROVE  JobsOK'
<1>1. \A j \in Jobs : job[j] \in JobStates /\ JobRight(j, job[j])
  BY DEF JobsOK
<1>2. \A j \in Jobs : \A k \in JobStates : JobRight(j, k) => JobRight(j, k)'
  BY StaysRight
<1> QED
  BY <1>1, <1>2 DEF JobsOK, JobRight

LEMMA JobMoves ==
    ASSUME JobsOK, Grows, NEW j \in Jobs, NEW r \in JobStates, JobRight(j, r)',
           job' = [job EXCEPT ![j] = r]
    PROVE  JobsOK' /\ Moves(j, r)
<1>1. \A i \in Jobs : job[i] \in JobStates /\ JobRight(i, job[i])
  BY DEF JobsOK
<1>2. \A i \in Jobs : \A k \in JobStates : JobRight(i, k) => JobRight(i, k)'
  BY StaysRight
<1>3. job \in [Jobs -> JobStates]
  BY DEF JobsOK
<1>4. Moves(j, r) /\ job' \in [Jobs -> JobStates]
  BY <1>3 DEF Moves
<1>5. \A i \in Jobs : JobRight(i, job[i])'
  <2> SUFFICES ASSUME NEW i \in Jobs PROVE JobRight(i, job[i])'
    OBVIOUS
  <2>1. CASE i = j
    BY <2>1, <1>4 DEF Moves, JobRight
  <2>2. CASE i # j
    <3>1. job'[i] = job[i]
      BY <2>2, <1>4 DEF Moves
    <3>2. JobRight(i, job[i]) /\ job[i] \in JobStates
      BY <1>1
    <3> QED
      BY <3>1, <3>2, <1>2 DEF JobRight
  <2> QED
    BY <2>1, <2>2
<1> QED
  BY <1>4, <1>5 DEF JobsOK

LEMMA JobEnds ==
    ASSUME JobsOK, Grows, NEW j \in Jobs, End(j)
    PROVE  JobsOK' /\ Moves(j, Idle)
<1>1. Idle \in JobStates /\ JobRight(j, Idle)'
  BY DEF Idle, JobStates, JobRight, Grows
<1> QED
  BY <1>1, JobMoves DEF End

LEMMA JobProceeds ==
    ASSUME JobsOK, Grows, NEW j \in Jobs, NEW at \in {"constrain", "reacquire", "build",
             "attach"},
           NEW t \in 1..made', Proceed(j, at, t),
           job[j] # Idle, (j = "mode") <=> (at # "attach")
    PROVE  JobsOK' /\ Moves(j, [job[j] EXCEPT !.at = at, !.track = t])
<1> PICK r : r = [job[j] EXCEPT !.at = at, !.track = t]
  OBVIOUS
<1>1. job[j] \in JobStates /\ JobRight(j, job[j])
  BY DEF JobsOK
<1>2. r.at = at /\ r.track = t /\ r.of = job[j].of /\ r.via = job[j].via
      /\ r.mic = job[j].mic /\ r.cam = job[j].cam
  BY <1>1 DEF JobStates
<1>3. t \in Nat /\ t <= made' /\ t # 0
  BY DEF Grows
<1>4. r \in JobStates
  BY <1>1, <1>3 DEF JobStates
<1>5. r # Idle /\ at # "idle"
  BY <1>2 DEF Idle
<1>6. /\ job[j].of <= opened' /\ job[j].via <= opened'
      /\ job[j].mic <= made' /\ job[j].cam <= made'
      /\ (j = "mode" => job[j].of # 0) /\ (j # "mode" => job[j].via # 0) /\ (j = "flip"
           => job[j].cam # 0)
  BY <1>1 DEF Grows, JobRight, JobStates
<1>7. JobRight(j, r)'
  BY <1>2, <1>3, <1>5, <1>6 DEF JobRight
<1>8. job' = [job EXCEPT ![j] = r]
  BY DEF Proceed, JobsOK
<1>9. JobsOK' /\ Moves(j, r)
  BY <1>4, <1>7, <1>8, JobMoves
<1> QED
  BY <1>9

LEMMA JobStarts ==
    ASSUME JobsOK, Grows, NEW j \in Jobs \ {"mode"}, Start(j, "prompt"),
           senders \in 1..opened, capture \in 0..opened, localMic \in 0..made,
               localCam \in 0..made,
           j = "flip" => localCam # 0
    PROVE  JobsOK' /\ Moves(j, [at |-> "prompt", of |-> capture, via |-> senders,
                                mic |-> localMic, cam |-> localCam, track |-> 0])
<1> PICK r : r = [at |-> "prompt", of |-> capture, via |-> senders,
                  mic |-> localMic, cam |-> localCam, track |-> 0]
  OBVIOUS
<1>1. /\ senders \in Nat /\ capture \in Nat /\ localMic \in Nat /\ localCam \in Nat
      /\ senders <= opened' /\ capture <= opened' /\ localMic <= made' /\ localCam <= made'
      /\ senders # 0
  BY DEF Grows
<1>2. r.at = "prompt" /\ r.of = capture /\ r.via = senders /\ r.mic = localMic
      /\ r.cam = localCam /\ r.track = 0
  OBVIOUS
<1>3. r \in JobStates
  BY <1>1 DEF JobStates
<1>4. r # Idle
  BY <1>2 DEF Idle
<1>5. job' = [job EXCEPT ![j] = r]
  BY DEF Start
<1>6. JobRight(j, r)'
  BY <1>1, <1>2, <1>4 DEF JobRight, Grows
<1>7. JobsOK' /\ Moves(j, r)
  BY <1>3, <1>5, <1>6, JobMoves
<1> QED
  BY <1>7

LEMMA JoinCallKeeps ==
    ASSUME MediaInv, JoinCall PROVE MediaInv'
<1>0. Grows
  BY MediaAssumption
     DEF Grows, MediaInv, MediaTypeOK, CallTypeOK, TracksTypeOK, JoinCall, mediaVars,
         trackVars, captureVars, senderVars, buttonVars
<1>1. JobsOK
  BY DEF MediaInv, MediaTypeOK, JobsInv, JobsOK
<1>2. JobsOK' /\ UNCHANGED job
  BY <1>1, <1>0, JobsStay
     DEF JoinCall, mediaVars, trackVars, captureVars, senderVars, buttonVars
<1>a. /\ job["mode"].of \in Nat /\ job["mode"].of <= opened
      /\ job["mode"] # Idle => job["mode"].of # 0
  BY <1>1 DEF JobsOK, JobRight, JobStates, Jobs
<1>c. /\ live' = live \cup ((made + 1)..made') /\ screen' = screen /\ capture = 0
           /\ capture' # 0
      /\ \A t \in (made + 1)..made' : feeds'[t] = 0 => t = raw'
      /\ \A t \in live : feeds'[t] = feeds[t] /\ t # 0
  <2>1. PICK mic \in BOOLEAN, clean \in BOOLEAN :
          /\ clean => mic
          /\ made' = made + (IF clean THEN 2 ELSE IF mic THEN 1 ELSE 0)
          /\ live' = live \cup (made + 1)..made'
          /\ raw' = IF mic THEN made + 1 ELSE 0
          /\ feeds' = IF clean THEN [feeds EXCEPT ![made'] = raw'] ELSE feeds
    BY DEF JoinCall
  <2>2. made \in Nat /\ made + 2 <= MaxTracks /\ feeds \in [1..MaxTracks -> Nat]
          /\ capture' # 0 /\ capture = 0 /\ screen' = screen
  /\ live \subseteq 1..made /\ made' \in Nat
    BY <1>0 DEF JoinCall, Grows, MediaInv, MediaTypeOK, TracksTypeOK, Tracks
  <2>3. CASE clean
    BY <2>1, <2>2, <2>3, MediaAssumption
  <2>4. CASE ~clean
    BY <2>1, <2>2, <2>4
  <2> QED
    BY <2>1, <2>2, <2>3, <2>4
<1>3. TracksTypeOK' /\ HeldTypeOK' /\ CallTypeOK'
  <2> USE DEF MediaInv, MediaTypeOK, JoinCall, mediaVars, trackVars, captureVars,
        senderVars,
          buttonVars, Tracks
  <2>1. TracksTypeOK'
    BY <1>0, <1>a, <1>c, MediaAssumption DEF TracksTypeOK, HeldTypeOK, GraphInv
  <2>2. HeldTypeOK'
    BY <1>0, <1>a, <1>c, <1>2 DEF TracksTypeOK, HeldTypeOK, Grows
  <2>3. CallTypeOK'
    <3>1. /\ opened' \in Nat /\ capture' \in 0..opened' /\ senders' \in 0..opened'
          /\ mode' \in {"browser", "rnnoise"}
      BY <1>0 DEF CallTypeOK, Grows
    <3>2. cameraEnabled' \in BOOLEAN /\ told' \in BOOLEAN
      BY DEF CallTypeOK
    <3>3. micOn' \in BOOLEAN /\ deaf' \in BOOLEAN
      BY DEF CallTypeOK
    <3>4. micBefore' \in BOOLEAN
      BY DEF CallTypeOK
    <3>5. strayed' \in BOOLEAN /\ staleFlip' \in BOOLEAN
      BY DEF CallTypeOK
    <3> QED
      BY <3>1, <3>2, <3>3, <3>4, <3>5 DEF CallTypeOK
  <2> QED
    BY <2>1, <2>2, <2>3
<1>4. JobsInv'
  BY <1>2, <1>0
     DEF MediaInv, MediaTypeOK, JobsInv, CallTypeOK, JobsOK, Grows, JoinCall, mediaVars,
         trackVars, captureVars, senderVars, buttonVars
<1>g. GraphInv'
  BY <1>2, <1>a, <1>c, <1>0
     DEF MediaInv, GraphInv, Grows, Waits, JoinCall, mediaVars, trackVars, captureVars,
         senderVars, buttonVars
<1>5. ASSUME ~strayed', ~staleFlip' PROVE MediaSound'
  <2>0. ~strayed /\ ~staleFlip /\ MicInv /\ CamInv /\ DevicesInv
    BY <1>5
       DEF MediaInv, MediaTypeOK, MediaSound, JoinCall, mediaVars, trackVars, captureVars,
           senderVars, buttonVars
  <2>1. MicInv'
    BY <2>0, <1>2, <1>a, <1>c, <1>5
       DEF MediaTypeOK, TracksTypeOK, HeldTypeOK, CallTypeOK, JoinCall, mediaVars,
           trackVars,
           captureVars, senderVars, buttonVars, Waits, MicInv, MediaInv, GraphInv
  <2>2. CamInv'
    BY <2>0, <1>2, <1>a, <1>c, <1>5
       DEF MediaTypeOK, TracksTypeOK, HeldTypeOK, CallTypeOK, JoinCall, mediaVars,
           trackVars,
           captureVars, senderVars, buttonVars, Waits, CamInv, MediaInv
  <2>3. DevicesInv'
    <3>1. raw = 0 /\ localMic = 0 /\ localCam = 0 /\ screen = 0 /\ screen' = 0
      BY <2>0, <1>c DEF MicInv, CamInv, DevicesInv
    <3>2. \A t \in live : feeds[t] = 0 => Brings("camera", t) \/ Brings("flip", t)
      BY <3>1, <2>0, <1>c DEF DevicesInv, Held
    <3>3. \A t \in live' : feeds'[t] = 0 => t = raw' \/ Brings("camera", t)
            \/ Brings("flip", t)
      BY <3>2, <1>c
    <3>4. Waits("screen", "prompt")' => screen' = 0
      BY <3>1
    <3> QED
      BY <3>1, <3>3, <3>4, <1>2 DEF DevicesInv, Held, Brings, Waits
  <2> QED
    BY <2>1, <2>2, <2>3 DEF MediaSound
<1> QED
  BY <1>2, <1>3, <1>4, <1>g, <1>5 DEF MediaInv, MediaTypeOK, JobsOK

LEMMA LeaveCallKeeps ==
    ASSUME MediaInv, LeaveCall PROVE MediaInv'
<1>0. Grows
  BY MediaAssumption
     DEF Grows, MediaInv, MediaTypeOK, CallTypeOK, TracksTypeOK, LeaveCall, DisposeGraph,
         mediaVars, trackVars, captureVars, senderVars, buttonVars
<1>1. JobsOK
  BY DEF MediaInv, MediaTypeOK, JobsInv, JobsOK
<1>2. JobsOK' /\ UNCHANGED job
  BY <1>1, <1>0, JobsStay
     DEF LeaveCall, DisposeGraph, mediaVars, trackVars, captureVars, senderVars, buttonVars
<1>a. /\ job["mode"].of \in Nat /\ job["mode"].of <= opened
      /\ job["mode"] # Idle => job["mode"].of # 0
  BY <1>1 DEF JobsOK, JobRight, JobStates, Jobs
<1>3. TracksTypeOK' /\ HeldTypeOK' /\ CallTypeOK'
  <2> USE DEF MediaInv, MediaTypeOK, LeaveCall, DisposeGraph, mediaVars, trackVars,
          captureVars, senderVars, buttonVars, Tracks
  <2>1. TracksTypeOK'
    BY <1>0, <1>a, MediaAssumption DEF TracksTypeOK, HeldTypeOK, GraphInv
  <2>2. HeldTypeOK'
    BY <1>0, <1>a, <1>2 DEF TracksTypeOK, HeldTypeOK, Grows
  <2>3. CallTypeOK'
    <3>1. /\ opened' \in Nat /\ capture' \in 0..opened' /\ senders' \in 0..opened'
          /\ mode' \in {"browser", "rnnoise"}
      BY <1>0 DEF CallTypeOK, Grows
    <3>2. cameraEnabled' \in BOOLEAN /\ told' \in BOOLEAN
      BY DEF CallTypeOK
    <3>3. micOn' \in BOOLEAN /\ deaf' \in BOOLEAN
      BY DEF CallTypeOK
    <3>4. micBefore' \in BOOLEAN
      BY DEF CallTypeOK
    <3>5. strayed' \in BOOLEAN /\ staleFlip' \in BOOLEAN
      BY DEF CallTypeOK
    <3> QED
      BY <3>1, <3>2, <3>3, <3>4, <3>5 DEF CallTypeOK
  <2> QED
    BY <2>1, <2>2, <2>3
<1>4. JobsInv'
  BY <1>2, <1>0
     DEF MediaInv, MediaTypeOK, JobsInv, CallTypeOK, JobsOK, Grows, LeaveCall, DisposeGraph,
         mediaVars, trackVars, captureVars, senderVars, buttonVars
<1>g. GraphInv'
  BY <1>2, <1>a, <1>0
     DEF MediaInv, GraphInv, Grows, Waits, LeaveCall, DisposeGraph, mediaVars, trackVars,
         captureVars, senderVars, buttonVars
<1>5. ASSUME ~strayed', ~staleFlip' PROVE MediaSound'
  <2>0. ~strayed /\ ~staleFlip /\ MicInv /\ CamInv /\ DevicesInv
    BY <1>5
       DEF MediaInv, MediaTypeOK, MediaSound, LeaveCall, DisposeGraph, mediaVars, trackVars,
           captureVars, senderVars, buttonVars
  <2>1. MicInv'
    BY <2>0, <1>2, <1>a, <1>5
       DEF MediaTypeOK, TracksTypeOK, HeldTypeOK, CallTypeOK, LeaveCall, DisposeGraph,
           mediaVars, trackVars, captureVars, senderVars, buttonVars, Waits, MicInv,
           MediaInv, GraphInv
  <2>2. CamInv'
    BY <2>0, <1>2, <1>a, <1>5
       DEF MediaTypeOK, TracksTypeOK, HeldTypeOK, CallTypeOK, LeaveCall, DisposeGraph,
           mediaVars, trackVars, captureVars, senderVars, buttonVars, Waits, CamInv,
               MediaInv
  <2>3. DevicesInv'
    BY <2>0, <1>2, <1>a, <1>5
       DEF MediaTypeOK, TracksTypeOK, HeldTypeOK, CallTypeOK, LeaveCall, DisposeGraph,
           mediaVars, trackVars, captureVars, senderVars, buttonVars, Waits, DevicesInv,
           MediaInv, Held, Brings
  <2> QED
    BY <2>1, <2>2, <2>3 DEF MediaSound
<1> QED
  BY <1>2, <1>3, <1>4, <1>g, <1>5 DEF MediaInv, MediaTypeOK, JobsOK

LEMMA RejoinCallKeeps ==
    ASSUME MediaInv, RejoinCall PROVE MediaInv'
<1>0. Grows
  BY MediaAssumption
     DEF Grows, MediaInv, MediaTypeOK, CallTypeOK, TracksTypeOK, RejoinCall,
         RestoreCameraState, mediaVars, trackVars, captureVars, senderVars, buttonVars
<1>1. JobsOK
  BY DEF MediaInv, MediaTypeOK, JobsInv, JobsOK
<1>2. JobsOK' /\ UNCHANGED job
  BY <1>1, <1>0, JobsStay
     DEF RejoinCall, RestoreCameraState, mediaVars, trackVars, captureVars, senderVars,
         buttonVars
<1>a. /\ job["mode"].of \in Nat /\ job["mode"].of <= opened
      /\ job["mode"] # Idle => job["mode"].of # 0
  BY <1>1 DEF JobsOK, JobRight, JobStates, Jobs
<1>3. TracksTypeOK' /\ HeldTypeOK' /\ CallTypeOK'
  <2> USE DEF MediaInv, MediaTypeOK, RejoinCall, RestoreCameraState, mediaVars, trackVars,
          captureVars, senderVars, buttonVars, Tracks
  <2>1. TracksTypeOK'
    BY <1>0, <1>a, MediaAssumption DEF TracksTypeOK, HeldTypeOK, GraphInv
  <2>2. HeldTypeOK'
    BY <1>0, <1>a, <1>2 DEF TracksTypeOK, HeldTypeOK, Grows
  <2>3. CallTypeOK'
    <3>1. /\ opened' \in Nat /\ capture' \in 0..opened' /\ senders' \in 0..opened'
          /\ mode' \in {"browser", "rnnoise"}
      BY <1>0 DEF CallTypeOK, Grows
    <3>2. cameraEnabled' \in BOOLEAN /\ told' \in BOOLEAN
      BY DEF CallTypeOK
    <3>3. micOn' \in BOOLEAN /\ deaf' \in BOOLEAN
      BY DEF CallTypeOK
    <3>4. micBefore' \in BOOLEAN
      BY DEF CallTypeOK
    <3>5. strayed' \in BOOLEAN /\ staleFlip' \in BOOLEAN
      BY DEF CallTypeOK
    <3> QED
      BY <3>1, <3>2, <3>3, <3>4, <3>5 DEF CallTypeOK
  <2> QED
    BY <2>1, <2>2, <2>3
<1>4. JobsInv'
  BY <1>2, <1>0
     DEF MediaInv, MediaTypeOK, JobsInv, CallTypeOK, JobsOK, Grows, RejoinCall,
         RestoreCameraState, mediaVars, trackVars, captureVars, senderVars, buttonVars
<1>g. GraphInv'
  BY <1>2, <1>a, <1>0
     DEF MediaInv, GraphInv, Grows, Waits, RejoinCall, RestoreCameraState, mediaVars,
         trackVars, captureVars, senderVars, buttonVars
<1>5. ASSUME ~strayed', ~staleFlip' PROVE MediaSound'
  <2>0. ~strayed /\ ~staleFlip /\ MicInv /\ CamInv /\ DevicesInv
    BY <1>5
       DEF MediaInv, MediaTypeOK, MediaSound, RejoinCall, RestoreCameraState, mediaVars,
           trackVars, captureVars, senderVars, buttonVars
  <2>1. MicInv'
    BY <2>0, <1>2, <1>a, <1>5
       DEF MediaTypeOK, TracksTypeOK, HeldTypeOK, CallTypeOK, RejoinCall,
           RestoreCameraState,
           mediaVars, trackVars, captureVars, senderVars, buttonVars, Waits, MicInv,
           MediaInv, GraphInv
  <2>2. CamInv'
    BY <2>0, <1>2, <1>a, <1>5
       DEF MediaTypeOK, TracksTypeOK, HeldTypeOK, CallTypeOK, RejoinCall,
           RestoreCameraState,
           mediaVars, trackVars, captureVars, senderVars, buttonVars, Waits, CamInv,
               MediaInv
  <2>3. DevicesInv'
    BY <2>0, <1>2, <1>a, <1>5
       DEF MediaTypeOK, TracksTypeOK, HeldTypeOK, CallTypeOK, RejoinCall,
           RestoreCameraState,
           mediaVars, trackVars, captureVars, senderVars, buttonVars, Waits, DevicesInv,
           MediaInv, Held, Brings
  <2> QED
    BY <2>1, <2>2, <2>3 DEF MediaSound
<1> QED
  BY <1>2, <1>3, <1>4, <1>g, <1>5 DEF MediaInv, MediaTypeOK, JobsOK

LEMMA ToggleMicrophoneKeeps ==
    ASSUME MediaInv, ToggleMicrophone PROVE MediaInv'
<1>0. Grows
  BY MediaAssumption
     DEF Grows, MediaInv, MediaTypeOK, CallTypeOK, TracksTypeOK, ToggleMicrophone,
         SetMicrophoneEnabled, OnlyButtons, mediaVars, trackVars, captureVars, senderVars,
         buttonVars
<1>1. JobsOK
  BY DEF MediaInv, MediaTypeOK, JobsInv, JobsOK
<1>2. JobsOK' /\ UNCHANGED job
  BY <1>1, <1>0, JobsStay
     DEF ToggleMicrophone, SetMicrophoneEnabled, OnlyButtons, mediaVars, trackVars,
         captureVars, senderVars, buttonVars
<1>a. /\ job["mode"].of \in Nat /\ job["mode"].of <= opened
      /\ job["mode"] # Idle => job["mode"].of # 0
  BY <1>1 DEF JobsOK, JobRight, JobStates, Jobs
<1>3. TracksTypeOK' /\ HeldTypeOK' /\ CallTypeOK'
  <2> USE DEF MediaInv, MediaTypeOK, ToggleMicrophone, SetMicrophoneEnabled, OnlyButtons,
          mediaVars, trackVars, captureVars, senderVars, buttonVars, Tracks
  <2>1. TracksTypeOK'
    BY <1>0, <1>a, MediaAssumption DEF TracksTypeOK, HeldTypeOK, GraphInv
  <2>2. HeldTypeOK'
    BY <1>0, <1>a, <1>2 DEF TracksTypeOK, HeldTypeOK, Grows
  <2>3. CallTypeOK'
    <3>1. /\ opened' \in Nat /\ capture' \in 0..opened' /\ senders' \in 0..opened'
          /\ mode' \in {"browser", "rnnoise"}
      BY <1>0 DEF CallTypeOK, Grows
    <3>2. cameraEnabled' \in BOOLEAN /\ told' \in BOOLEAN
      BY DEF CallTypeOK
    <3>3. micOn' \in BOOLEAN /\ deaf' \in BOOLEAN
      BY DEF CallTypeOK
    <3>4. micBefore' \in BOOLEAN
      BY DEF CallTypeOK
    <3>5. strayed' \in BOOLEAN /\ staleFlip' \in BOOLEAN
      BY DEF CallTypeOK
    <3> QED
      BY <3>1, <3>2, <3>3, <3>4, <3>5 DEF CallTypeOK
  <2> QED
    BY <2>1, <2>2, <2>3
<1>4. JobsInv'
  BY <1>2, <1>0
     DEF MediaInv, MediaTypeOK, JobsInv, CallTypeOK, JobsOK, Grows, ToggleMicrophone,
         SetMicrophoneEnabled, OnlyButtons, mediaVars, trackVars, captureVars, senderVars,
         buttonVars
<1>g. GraphInv'
  BY <1>2, <1>a, <1>0
     DEF MediaInv, GraphInv, Grows, Waits, ToggleMicrophone, SetMicrophoneEnabled,
         OnlyButtons, mediaVars, trackVars, captureVars, senderVars, buttonVars
<1>5. ASSUME ~strayed', ~staleFlip' PROVE MediaSound'
  <2>0. ~strayed /\ ~staleFlip /\ MicInv /\ CamInv /\ DevicesInv
    BY <1>5
       DEF MediaInv, MediaTypeOK, MediaSound, ToggleMicrophone, SetMicrophoneEnabled,
           OnlyButtons, mediaVars, trackVars, captureVars, senderVars, buttonVars
  <2>1. MicInv'
    BY <2>0, <1>2, <1>a, <1>5
       DEF MediaTypeOK, TracksTypeOK, HeldTypeOK, CallTypeOK, ToggleMicrophone,
           SetMicrophoneEnabled, OnlyButtons, mediaVars, trackVars, captureVars, senderVars,
           buttonVars, Waits, MicInv, MediaInv, GraphInv
  <2>2. CamInv'
    BY <2>0, <1>2, <1>a, <1>5
       DEF MediaTypeOK, TracksTypeOK, HeldTypeOK, CallTypeOK, ToggleMicrophone,
           SetMicrophoneEnabled, OnlyButtons, mediaVars, trackVars, captureVars, senderVars,
           buttonVars, Waits, CamInv, MediaInv
  <2>3. DevicesInv'
    BY <2>0, <1>2, <1>a, <1>5
       DEF MediaTypeOK, TracksTypeOK, HeldTypeOK, CallTypeOK, ToggleMicrophone,
           SetMicrophoneEnabled, OnlyButtons, mediaVars, trackVars, captureVars, senderVars,
           buttonVars, Waits, DevicesInv, MediaInv, Held, Brings
  <2> QED
    BY <2>1, <2>2, <2>3 DEF MediaSound
<1> QED
  BY <1>2, <1>3, <1>4, <1>g, <1>5 DEF MediaInv, MediaTypeOK, JobsOK

LEMMA ToggleDeafenKeeps ==
    ASSUME MediaInv, ToggleDeafen PROVE MediaInv'
<1>0. Grows
  BY MediaAssumption
     DEF Grows, MediaInv, MediaTypeOK, CallTypeOK, TracksTypeOK, ToggleDeafen,
         SetMicrophoneEnabled, OnlyButtons, mediaVars, trackVars, captureVars, senderVars,
         buttonVars
<1>1. JobsOK
  BY DEF MediaInv, MediaTypeOK, JobsInv, JobsOK
<1>2. JobsOK' /\ UNCHANGED job
  BY <1>1, <1>0, JobsStay
     DEF ToggleDeafen, SetMicrophoneEnabled, OnlyButtons, mediaVars, trackVars, captureVars,
         senderVars, buttonVars
<1>a. /\ job["mode"].of \in Nat /\ job["mode"].of <= opened
      /\ job["mode"] # Idle => job["mode"].of # 0
  BY <1>1 DEF JobsOK, JobRight, JobStates, Jobs
<1>3. TracksTypeOK' /\ HeldTypeOK' /\ CallTypeOK'
  <2> USE DEF MediaInv, MediaTypeOK, ToggleDeafen, SetMicrophoneEnabled, OnlyButtons,
          mediaVars, trackVars, captureVars, senderVars, buttonVars, Tracks
  <2>1. TracksTypeOK'
    BY <1>0, <1>a, MediaAssumption DEF TracksTypeOK, HeldTypeOK, GraphInv
  <2>2. HeldTypeOK'
    BY <1>0, <1>a, <1>2 DEF TracksTypeOK, HeldTypeOK, Grows
  <2>3. CallTypeOK'
    <3>1. /\ opened' \in Nat /\ capture' \in 0..opened' /\ senders' \in 0..opened'
          /\ mode' \in {"browser", "rnnoise"}
      BY <1>0 DEF CallTypeOK, Grows
    <3>2. cameraEnabled' \in BOOLEAN /\ told' \in BOOLEAN
      BY DEF CallTypeOK
    <3>3. micOn' \in BOOLEAN /\ deaf' \in BOOLEAN
      BY DEF CallTypeOK
    <3>4. micBefore' \in BOOLEAN
      BY DEF CallTypeOK
    <3>5. strayed' \in BOOLEAN /\ staleFlip' \in BOOLEAN
      BY DEF CallTypeOK
    <3> QED
      BY <3>1, <3>2, <3>3, <3>4, <3>5 DEF CallTypeOK
  <2> QED
    BY <2>1, <2>2, <2>3
<1>4. JobsInv'
  BY <1>2, <1>0
     DEF MediaInv, MediaTypeOK, JobsInv, CallTypeOK, JobsOK, Grows, ToggleDeafen,
         SetMicrophoneEnabled, OnlyButtons, mediaVars, trackVars, captureVars, senderVars,
         buttonVars
<1>g. GraphInv'
  BY <1>2, <1>a, <1>0
     DEF MediaInv, GraphInv, Grows, Waits, ToggleDeafen, SetMicrophoneEnabled, OnlyButtons,
         mediaVars, trackVars, captureVars, senderVars, buttonVars
<1>5. ASSUME ~strayed', ~staleFlip' PROVE MediaSound'
  <2>0. ~strayed /\ ~staleFlip /\ MicInv /\ CamInv /\ DevicesInv
    BY <1>5
       DEF MediaInv, MediaTypeOK, MediaSound, ToggleDeafen, SetMicrophoneEnabled,
           OnlyButtons, mediaVars, trackVars, captureVars, senderVars, buttonVars
  <2>1. MicInv'
    BY <2>0, <1>2, <1>a, <1>5
       DEF MediaTypeOK, TracksTypeOK, HeldTypeOK, CallTypeOK, ToggleDeafen,
           SetMicrophoneEnabled, OnlyButtons, mediaVars, trackVars, captureVars, senderVars,
           buttonVars, Waits, MicInv, MediaInv, GraphInv
  <2>2. CamInv'
    BY <2>0, <1>2, <1>a, <1>5
       DEF MediaTypeOK, TracksTypeOK, HeldTypeOK, CallTypeOK, ToggleDeafen,
           SetMicrophoneEnabled, OnlyButtons, mediaVars, trackVars, captureVars, senderVars,
           buttonVars, Waits, CamInv, MediaInv
  <2>3. DevicesInv'
    BY <2>0, <1>2, <1>a, <1>5
       DEF MediaTypeOK, TracksTypeOK, HeldTypeOK, CallTypeOK, ToggleDeafen,
           SetMicrophoneEnabled, OnlyButtons, mediaVars, trackVars, captureVars, senderVars,
           buttonVars, Waits, DevicesInv, MediaInv, Held, Brings
  <2> QED
    BY <2>1, <2>2, <2>3 DEF MediaSound
<1> QED
  BY <1>2, <1>3, <1>4, <1>g, <1>5 DEF MediaInv, MediaTypeOK, JobsOK

LEMMA StartModeKeeps ==
    ASSUME MediaInv, StartMode PROVE MediaInv'
<1>0. Grows
  BY MediaAssumption
     DEF Grows, MediaInv, MediaTypeOK, CallTypeOK, TracksTypeOK, StartMode, mediaVars,
         trackVars, captureVars, senderVars, buttonVars
<1>1. JobsOK
  BY DEF MediaInv, MediaTypeOK, JobsInv, JobsOK
<1>2. /\ JobsOK'
      /\ job'["camera"] = job["camera"] /\ job'["flip"] = job["flip"]
           /\ job'["screen"] = job["screen"]
      /\ \/ job'["mode"] = job["mode"]
         \/ job'["mode"].of = capture /\ job'["mode"].track = raw
  <2>1. CASE raw = 0
    <3>1. UNCHANGED job
      BY <2>1 DEF StartMode
    <3> QED
      BY <3>1, <1>0, <1>1, JobsStay
  <2>2. CASE raw # 0
    <3>1. PICK r : r = [Idle EXCEPT !.at = "constrain", !.of = capture, !.track = raw]
      OBVIOUS
    <3>2. /\ r.at = "constrain" /\ r.of = capture /\ r.track = raw
          /\ r.via = 0 /\ r.mic = 0 /\ r.cam = 0 /\ r # Idle
      BY <3>1 DEF Idle
    <3>3. /\ capture \in Nat /\ capture # 0 /\ capture <= opened' /\ raw \in Nat
               /\ raw <= made'
      BY <2>2, <1>0
         DEF StartMode, senderVars, trackVars, MediaInv, MediaTypeOK, HeldTypeOK,
             CallTypeOK,
             GraphInv, Grows
    <3>4. r \in JobStates
      BY <3>1, <3>3 DEF Idle, JobStates
    <3>5. JobRight("mode", r)'
      BY <3>2, <3>3, <2>2, <1>0 DEF JobRight, Grows
    <3>6. job' = [job EXCEPT !["mode"] = r] /\ "mode" \in Jobs
      BY <2>2, <3>1 DEF StartMode, Jobs
    <3>7. JobsOK' /\ Moves("mode", r)
      BY <3>4, <3>5, <3>6, <1>0, <1>1, JobMoves
    <3> QED
      BY <3>2, <3>7 DEF Moves, Jobs
  <2> QED
    BY <2>1, <2>2
<1>a. /\ job["mode"].of \in Nat /\ job["mode"].of <= opened
      /\ job["mode"] # Idle => job["mode"].of # 0
      /\ job["mode"].track \in 0..made /\ job["mode"].mic \in 0..made
           /\ job["mode"].cam \in 0..made
      /\ job["mode"] = Idle => job["mode"].at = "idle"
      /\ job["mode"].at \in {"attach", "constrain", "reacquire", "build"} =>
             job["mode"].track # 0 /\ job["mode"] # Idle
      /\ job["mode"].at \in {"prompt", "attach"} => job["mode"].via # 0
           /\ job["mode"] # Idle
  BY <1>1 DEF JobsOK, JobRight, JobStates, Jobs, Idle
<1>b. /\ job'["camera"] = job["camera"] /\ job'["flip"] = job["flip"]
           /\ job'["screen"] = job["screen"]
      /\ \/ job'["mode"] = job["mode"]
         \/ job'["mode"].of = capture /\ job'["mode"].track = raw
  BY <1>2
<1>3. TracksTypeOK' /\ HeldTypeOK' /\ CallTypeOK'
  <2> USE DEF MediaInv, MediaTypeOK, StartMode, mediaVars, trackVars, captureVars,
          senderVars, buttonVars, Tracks
  <2>1. TracksTypeOK'
    BY <1>0, <1>a, <1>b, MediaAssumption DEF TracksTypeOK, HeldTypeOK, GraphInv
  <2>2. HeldTypeOK'
    BY <1>0, <1>a, <1>b, <1>2 DEF TracksTypeOK, HeldTypeOK, Grows
  <2>3. CallTypeOK'
    <3>1. /\ opened' \in Nat /\ capture' \in 0..opened' /\ senders' \in 0..opened'
          /\ mode' \in {"browser", "rnnoise"}
      BY <1>0 DEF CallTypeOK, Grows
    <3>2. cameraEnabled' \in BOOLEAN /\ told' \in BOOLEAN
      BY DEF CallTypeOK
    <3>3. micOn' \in BOOLEAN /\ deaf' \in BOOLEAN
      BY DEF CallTypeOK
    <3>4. micBefore' \in BOOLEAN
      BY DEF CallTypeOK
    <3>5. strayed' \in BOOLEAN /\ staleFlip' \in BOOLEAN
      BY DEF CallTypeOK
    <3> QED
      BY <3>1, <3>2, <3>3, <3>4, <3>5 DEF CallTypeOK
  <2> QED
    BY <2>1, <2>2, <2>3
<1>4. JobsInv'
  BY <1>2, <1>0
     DEF MediaInv, MediaTypeOK, JobsInv, CallTypeOK, JobsOK, Grows, StartMode, mediaVars,
         trackVars, captureVars, senderVars, buttonVars
<1>g. GraphInv'
  BY <1>2, <1>a, <1>b, <1>0
     DEF MediaInv, GraphInv, Grows, Waits, StartMode, mediaVars, trackVars, captureVars,
         senderVars, buttonVars
<1>5. ASSUME ~strayed', ~staleFlip' PROVE MediaSound'
  <2>0. ~strayed /\ ~staleFlip /\ MicInv /\ CamInv /\ DevicesInv
    BY <1>5
       DEF MediaInv, MediaTypeOK, MediaSound, StartMode, mediaVars, trackVars, captureVars,
           senderVars, buttonVars
  <2>1. MicInv'
    BY <2>0, <1>2, <1>a, <1>b, <1>5
       DEF MediaTypeOK, TracksTypeOK, HeldTypeOK, CallTypeOK, StartMode, mediaVars,
           trackVars, captureVars, senderVars, buttonVars, Waits, MicInv, MediaInv, GraphInv
  <2>2. CamInv'
    BY <2>0, <1>2, <1>a, <1>b, <1>5
       DEF MediaTypeOK, TracksTypeOK, HeldTypeOK, CallTypeOK, StartMode, mediaVars,
           trackVars, captureVars, senderVars, buttonVars, Waits, CamInv, MediaInv
  <2>3. DevicesInv'
    BY <2>0, <1>2, <1>a, <1>b, <1>5
       DEF MediaTypeOK, TracksTypeOK, HeldTypeOK, CallTypeOK, StartMode, mediaVars,
           trackVars, captureVars, senderVars, buttonVars, Waits, DevicesInv, MediaInv,
               Held,
           Brings
  <2> QED
    BY <2>1, <2>2, <2>3 DEF MediaSound
<1> QED
  BY <1>2, <1>3, <1>4, <1>g, <1>5 DEF MediaInv, MediaTypeOK, JobsOK

LEMMA ModeRefusedKeeps ==
    ASSUME MediaInv, ModeRefused PROVE MediaInv'
<1>0. Grows
  BY MediaAssumption
     DEF Grows, MediaInv, MediaTypeOK, CallTypeOK, TracksTypeOK, ModeRefused, mediaVars,
         trackVars, captureVars, senderVars, buttonVars
<1>1. JobsOK
  BY DEF MediaInv, MediaTypeOK, JobsInv, JobsOK
<1>t. PICK t : t = job["mode"].track /\ t \in 1..made' /\ Proceed("mode", "reacquire", t)
  BY <1>0, <1>1
     DEF ModeRefused, mediaVars, trackVars, captureVars, senderVars, buttonVars, Jobs,
         JobsOK, JobRight, Waits, Grows, JobStates
<1>u. job["mode"] # Idle
  BY <1>1 DEF ModeRefused, Waits, Idle
<1>2. JobsOK' /\ Moves("mode", [job["mode"] EXCEPT !.at = "reacquire", !.track = t])
  BY <1>1, <1>0, <1>t, <1>u, JobProceeds DEF Jobs
<1>b. /\ job'["mode"].at = "reacquire" /\ job'["mode"].track = t /\ job'["mode"] # Idle
      /\ job'["mode"].of = job["mode"].of
      /\ job'["camera"] = job["camera"] /\ job'["flip"] = job["flip"]
           /\ job'["screen"] = job["screen"]
  <2>1. job["mode"] \in JobStates
    BY <1>1 DEF JobsOK, Jobs
  <2>2. job'["mode"] = [job["mode"] EXCEPT !.at = "reacquire", !.track = t]
    BY <1>2 DEF Moves
  <2>3. /\ job'["mode"].at = "reacquire" /\ job'["mode"].track = t
        /\ job'["mode"].of = job["mode"].of
    BY <2>1, <2>2 DEF JobStates
  <2>4. job'["mode"] # Idle
    BY <2>3 DEF Idle
  <2>5. job'["camera"] = job["camera"] /\ job'["flip"] = job["flip"]
          /\ job'["screen"] = job["screen"]
    BY <1>2 DEF Moves, Jobs
  <2> QED
    BY <2>3, <2>4, <2>5
<1>a. /\ job["mode"].of \in Nat /\ job["mode"].of <= opened
      /\ job["mode"] # Idle => job["mode"].of # 0
      /\ job["mode"].track \in 0..made /\ job["mode"].mic \in 0..made
           /\ job["mode"].cam \in 0..made
      /\ job["mode"] = Idle => job["mode"].at = "idle"
      /\ job["mode"].at \in {"attach", "constrain", "reacquire", "build"} =>
             job["mode"].track # 0 /\ job["mode"] # Idle
      /\ job["mode"].at \in {"prompt", "attach"} => job["mode"].via # 0
           /\ job["mode"] # Idle
  BY <1>1 DEF JobsOK, JobRight, JobStates, Jobs, Idle
<1>3. TracksTypeOK' /\ HeldTypeOK' /\ CallTypeOK'
  <2> USE DEF MediaInv, MediaTypeOK, ModeRefused, mediaVars, trackVars, captureVars,
          senderVars, buttonVars, Tracks
  <2>1. TracksTypeOK'
    BY <1>0, <1>a, <1>t, MediaAssumption DEF TracksTypeOK, HeldTypeOK, GraphInv
  <2>2. HeldTypeOK'
    BY <1>0, <1>a, <1>t, <1>2 DEF TracksTypeOK, HeldTypeOK, Grows
  <2>3. CallTypeOK'
    <3>1. /\ opened' \in Nat /\ capture' \in 0..opened' /\ senders' \in 0..opened'
          /\ mode' \in {"browser", "rnnoise"}
      BY <1>0 DEF CallTypeOK, Grows
    <3>2. cameraEnabled' \in BOOLEAN /\ told' \in BOOLEAN
      BY DEF CallTypeOK
    <3>3. micOn' \in BOOLEAN /\ deaf' \in BOOLEAN
      BY DEF CallTypeOK
    <3>4. micBefore' \in BOOLEAN
      BY DEF CallTypeOK
    <3>5. strayed' \in BOOLEAN /\ staleFlip' \in BOOLEAN
      BY DEF CallTypeOK
    <3> QED
      BY <3>1, <3>2, <3>3, <3>4, <3>5 DEF CallTypeOK
  <2> QED
    BY <2>1, <2>2, <2>3
<1>4. JobsInv'
  BY <1>2, <1>0
     DEF MediaInv, MediaTypeOK, JobsInv, CallTypeOK, JobsOK, Grows, ModeRefused, mediaVars,
         trackVars, captureVars, senderVars, buttonVars
<1>g. GraphInv'
  BY <1>2, <1>a, <1>b, <1>t, <1>0
     DEF MediaInv, GraphInv, Grows, Waits, ModeRefused, mediaVars, trackVars, captureVars,
         senderVars, buttonVars
<1>5. ASSUME ~strayed', ~staleFlip' PROVE MediaSound'
  <2>0. ~strayed /\ ~staleFlip /\ MicInv /\ CamInv /\ DevicesInv
    BY <1>5
       DEF MediaInv, MediaTypeOK, MediaSound, ModeRefused, mediaVars, trackVars,
           captureVars,
           senderVars, buttonVars
  <2>1. MicInv'
    BY <2>0, <1>2, <1>a, <1>t, <1>b, <1>5
       DEF MediaTypeOK, TracksTypeOK, HeldTypeOK, CallTypeOK, ModeRefused, mediaVars,
           trackVars, captureVars, senderVars, buttonVars, Waits, MicInv, MediaInv, GraphInv
  <2>2. CamInv'
    BY <2>0, <1>2, <1>a, <1>t, <1>b, <1>5
       DEF MediaTypeOK, TracksTypeOK, HeldTypeOK, CallTypeOK, ModeRefused, mediaVars,
           trackVars, captureVars, senderVars, buttonVars, Waits, CamInv, MediaInv
  <2>3. DevicesInv'
    BY <2>0, <1>2, <1>a, <1>t, <1>b, <1>5
       DEF MediaTypeOK, TracksTypeOK, HeldTypeOK, CallTypeOK, ModeRefused, mediaVars,
           trackVars, captureVars, senderVars, buttonVars, Waits, DevicesInv, MediaInv,
               Held,
           Brings
  <2> QED
    BY <2>1, <2>2, <2>3 DEF MediaSound
<1> QED
  BY <1>2, <1>3, <1>4, <1>g, <1>5 DEF MediaInv, MediaTypeOK, JobsOK

\* What swapMicTrack does to the tracks.
LEMMA SwapsMic ==
    ASSUME NEW t \in 1..made', NEW L \in SUBSET (1..made'), NEW E \in SUBSET (1..made'),
           SwapMicTrack(t, L, E)
    PROVE  /\ localMic' = t /\ (senders # 0 => sentMic' = t) /\ (senders = 0
                => sentMic' = sentMic)
           /\ live' \subseteq L /\ live' \subseteq 1..made' /\ enabled' \subseteq 1..made'
           /\ localMic # 0 => (t \in enabled' <=> localMic \in enabled)
           /\ localMic \in live' => localMic \in {t, raw'}
  BY DEF SwapMicTrack

LEMMA ContinuesRight ==
    ASSUME MediaInv, Grows, made' \in 0..MaxTracks, job["mode"] # Idle,
           NEW t \in 1..made', NEW L \in SUBSET (1..made'), NEW E \in SUBSET (1..made'),
           ContinueWith(t, L, E),
           \A u \in 1..made : u \in E <=> u \in enabled,
           L \subseteq live \cup {t}, job["mode"].track \notin L \ {t}
    PROVE  MediaInv'
<1>1. JobsOK
  BY DEF MediaInv, MediaTypeOK, JobsInv, JobsOK
<1>2. /\ job["mode"].of \in Nat /\ job["mode"].of <= opened /\ job["mode"].of # 0
      /\ job["mode"].at \in {"constrain", "reacquire", "build"} /\ job["mode"].track # 0
  BY <1>1 DEF JobsOK, JobRight, JobStates, Jobs
<1>3. /\ UNCHANGED <<feeds, capture, mode, localCam, senders, opened, sentCam, sentScreen,
                     told, screen, cameraEnabled, micOn, deaf, micBefore, staleFlip>>
      /\ strayed' = (strayed \/ ~MyCapture)
      /\ raw' = IF MyCapture THEN t ELSE raw
      /\ graph' = IF MyCapture THEN 0 ELSE graph
  BY DEF ContinueWith, ModeChanges, DisposeGraph, buttonVars
<1>4. \/ /\ Proceed("mode", "build", t) /\ live' = L /\ enabled' = E
         /\ UNCHANGED <<localMic, sentMic>>
      \/ End("mode") /\ SwapMicTrack(t, L, E)
  BY DEF ContinueWith
<1>5. /\ JobsOK'
      /\ \/ job'["mode"] = Idle
         \/ job'["mode"].of = job["mode"].of /\ job'["mode"].track = t
      /\ job'["camera"] = job["camera"] /\ job'["flip"] = job["flip"]
           /\ job'["screen"] = job["screen"]
  <2>1. CASE End("mode")
    <3>1. JobsOK' /\ Moves("mode", Idle)
      BY <2>1, <1>1, JobEnds DEF Jobs
    <3> QED
      BY <3>1 DEF Moves, Jobs
  <2>2. CASE Proceed("mode", "build", t)
    <3>1. JobsOK' /\ Moves("mode", [job["mode"] EXCEPT !.at = "build", !.track = t])
      BY <2>2, <1>1, JobProceeds DEF Jobs
    <3>2. job["mode"] \in JobStates
      BY <1>1 DEF JobsOK, Jobs
    <3>3. job'["mode"] = [job["mode"] EXCEPT !.at = "build", !.track = t]
      BY <3>1 DEF Moves
    <3>4. job'["mode"].of = job["mode"].of /\ job'["mode"].track = t
      BY <3>2, <3>3 DEF JobStates
    <3> QED
      BY <3>1, <3>4 DEF Moves, Jobs
  <2> QED
    BY <2>1, <2>2, <1>4
<1>6. /\ localMic' \in {t, localMic} /\ sentMic' \in {t, sentMic}
      /\ live' \subseteq L /\ enabled' \subseteq 1..made'
      /\ localMic' = localMic => sentMic' = sentMic \/ localMic = t
  BY <1>4, SwapsMic
<1>7. MediaTypeOK'
  <2>1. TracksTypeOK /\ HeldTypeOK /\ CallTypeOK
    BY DEF MediaInv, MediaTypeOK
  <2>2. TracksTypeOK'
    BY <2>1, <1>3, <1>6 DEF TracksTypeOK, Grows
  <2>3. HeldTypeOK'
    BY <2>1, <1>3, <1>6 DEF HeldTypeOK, Grows
  <2>4. CallTypeOK'
    BY <2>1, <1>3 DEF CallTypeOK, Grows
  <2> QED
    BY <2>2, <2>3, <2>4, <1>5 DEF MediaTypeOK, JobsOK
<1>8. JobsInv'
  BY <1>5, <1>3 DEF MediaInv, JobsInv, JobsOK
<1>9. GraphInv'
  BY <1>2, <1>3, <1>5 DEF MediaInv, GraphInv, MyCapture
<1>10. ASSUME ~strayed', ~staleFlip' PROVE MediaSound'
  <2>1. MyCapture /\ MicInv /\ CamInv /\ DevicesInv /\ raw' = t
    BY <1>3, <1>10 DEF MediaInv, MediaSound
  <2>2. /\ raw = job["mode"].track /\ raw # 0 /\ localMic # 0 /\ senders # 0
        /\ localMic \in 1..made /\ localCam \in 0..made /\ screen \in 0..made
        /\ 0 \notin live /\ live \subseteq 1..made
    BY <2>1, <1>2
       DEF MediaInv, MediaTypeOK, TracksTypeOK, HeldTypeOK, GraphInv, JobsInv, MyCapture,
           MicInv
  <2>3. MicInv'
    <3>1. CASE Proceed("mode", "build", t) /\ live' = L /\ enabled' = E
            /\ UNCHANGED <<localMic, sentMic>>
      BY <3>1, <2>1, <2>2, <1>3 DEF MicInv
    <3>2. CASE SwapMicTrack(t, L, E)
      BY <3>2, <2>1, <2>2, <1>3, SwapsMic DEF MicInv
    <3> QED
      BY <3>1, <3>2, <1>4
  <2>4. CamInv'
    BY <2>1, <1>3, <1>5 DEF CamInv
  <2>5. DevicesInv'
    <3>1. \A u \in live' : u = t \/ (u \in live /\ u # raw)
      BY <1>6, <2>2
    <3>2. localMic \in live' => localMic \in {t, localMic'}
      BY <1>4, <2>1, SwapsMic
    <3>3. \A u \in live' : feeds'[u] = 0 => Held(u)'
      <4> SUFFICES ASSUME NEW u \in live', feeds'[u] = 0 PROVE Held(u)'
        OBVIOUS
      <4>1. CASE u = t
        BY <4>1, <2>1 DEF Held
      <4>2. CASE u # t
        <5>1. u \in live /\ u # raw /\ feeds[u] = 0
          BY <4>2, <3>1, <1>3
        <5>2. u \in {localMic, localCam, screen} \/ Brings("camera", u) \/ Brings("flip", u)
          BY <5>1, <2>1 DEF DevicesInv, Held
        <5>3. u = localMic => u = localMic'
          BY <4>2, <3>2
        <5> QED
          BY <5>2, <5>3, <1>3, <1>5 DEF Held, Brings, Waits
      <4> QED
        BY <4>1, <4>2
    <3> QED
      BY <3>3, <2>1, <1>3, <1>5 DEF DevicesInv, Waits
  <2> QED
    BY <2>3, <2>4, <2>5 DEF MediaSound
<1> QED
  BY <1>7, <1>8, <1>9, <1>10 DEF MediaInv

LEMMA ModeConstrainedKeeps ==
    ASSUME MediaInv, ModeConstrained PROVE MediaInv'
<1>1. job["mode"] # Idle /\ job["mode"].track \in 1..made
  <2>1. job["mode"] \in JobStates /\ JobRight("mode", job["mode"])
    BY DEF MediaInv, MediaTypeOK, JobsInv, Jobs
  <2> QED
    BY <2>1 DEF ModeConstrained, Waits, JobRight, JobStates, Idle
<1>2. /\ made' = made /\ ContinueWith(job["mode"].track, live, enabled)
      /\ live \subseteq 1..made /\ enabled \subseteq 1..made /\ made \in 0..MaxTracks
      /\ opened' = opened /\ opened \in Nat
  BY DEF ModeConstrained, ContinueWith, ModeChanges, MediaInv, MediaTypeOK, TracksTypeOK,
         CallTypeOK
<1>3. PICK t, L, E : t = job["mode"].track /\ L = live /\ E = enabled
  OBVIOUS
<1>4. Grows
  BY <1>2, MediaAssumption DEF Grows
<1> QED
  BY <1>1, <1>2, <1>3, <1>4, ContinuesRight

LEMMA ModeReacquiredKeeps ==
    ASSUME MediaInv, ModeReacquired PROVE MediaInv'
<1>1. job["mode"] # Idle
  BY DEF ModeReacquired, Waits, Idle
<1>2. PICK t \in Tracks :
         /\ Captures(t)
         /\ ContinueWith(t, (live \cup {t}) \ {job["mode"].track}, enabled \cup {t})
  BY DEF ModeReacquired
<1>3. /\ t = made + 1 /\ made' = t /\ t \in 1..MaxTracks
      /\ live \subseteq 1..made /\ enabled \subseteq 1..made /\ made \in 0..MaxTracks
      /\ opened' = opened /\ opened \in Nat
  BY <1>2
     DEF Captures, Tracks, ContinueWith, ModeChanges, MediaInv, MediaTypeOK, TracksTypeOK,
         CallTypeOK
<1>4. PICK L, E : L = (live \cup {t}) \ {job["mode"].track} /\ E = enabled \cup {t}
  OBVIOUS
<1>5. Grows
  BY <1>3, MediaAssumption DEF Grows
<1>6. /\ L \in SUBSET (1..made') /\ E \in SUBSET (1..made') /\ made' \in 0..MaxTracks
           /\ t \in 1..made'
      /\ \A u \in 1..made : u \in E <=> u \in enabled
      /\ L \subseteq live \cup {t} /\ job["mode"].track \notin L \ {t}
  <2>1. t \in 1..made' /\ made' \in 0..MaxTracks /\ 1..made \subseteq 1..made'
    BY <1>3, MediaAssumption
  <2>2. \A u \in 1..made : u # t
    BY <1>3
  <2>3. L \in SUBSET (1..made') /\ E \in SUBSET (1..made') /\ L \subseteq live \cup {t}
    BY <1>3, <1>4, <2>1
  <2>4. \A u \in 1..made : u \in E <=> u \in enabled
    BY <1>4, <2>2
  <2>5. job["mode"].track \notin L \ {t}
    BY <1>4
  <2> QED
    BY <2>1, <2>3, <2>4, <2>5
<1> QED
  BY <1>1, <1>2, <1>4, <1>5, <1>6, ContinuesRight

LEMMA ModeBuiltKeeps ==
    ASSUME MediaInv, ModeBuilt PROVE MediaInv'
<1>0. Grows
  BY MediaAssumption
     DEF Grows, MediaInv, MediaTypeOK, CallTypeOK, TracksTypeOK, ModeBuilt, MyCapture,
         DisposeGraph, ModeChanges, SwapMicTrack, Captures, mediaVars, trackVars,
         captureVars, senderVars, buttonVars
<1>1. JobsOK
  BY DEF MediaInv, MediaTypeOK, JobsInv, JobsOK
<1>2. JobsOK' /\ Moves("mode", Idle)
  BY <1>1, <1>0, JobEnds
     DEF ModeBuilt, MyCapture, DisposeGraph, ModeChanges, SwapMicTrack, Captures, mediaVars,
         trackVars, captureVars, senderVars, buttonVars, Jobs
<1>b. /\ job'["mode"].at = "idle" /\ job'["mode"].track = 0 /\ job'["mode"] = Idle
      /\ job'["camera"] = job["camera"] /\ job'["flip"] = job["flip"]
           /\ job'["screen"] = job["screen"]
  BY <1>2, <1>1 DEF Moves, Jobs, Idle, JobsOK, JobStates
<1>a. /\ job["mode"].of \in Nat /\ job["mode"].of <= opened
      /\ job["mode"] # Idle => job["mode"].of # 0
      /\ job["mode"].track \in 0..made /\ job["mode"].mic \in 0..made
           /\ job["mode"].cam \in 0..made
      /\ job["mode"] = Idle => job["mode"].at = "idle"
      /\ job["mode"].at \in {"attach", "constrain", "reacquire", "build"} =>
             job["mode"].track # 0 /\ job["mode"] # Idle
      /\ job["mode"].at \in {"prompt", "attach"} => job["mode"].via # 0
           /\ job["mode"] # Idle
  BY <1>1 DEF JobsOK, JobRight, JobStates, Jobs, Idle
<1>u. job["mode"] # Idle /\ job["mode"].track # 0 /\ job["mode"].of # 0
  BY <1>a DEF ModeBuilt, Waits
<1>c. PICK t \in 1..made', L \in SUBSET (1..made'), E \in SUBSET (1..made') :
        /\ SwapMicTrack(t, L, E) /\ L \subseteq live \cup {t}
        /\ feeds' \in [Tracks -> 0..made']
        /\ \A u \in live : feeds'[u] = feeds[u]
        /\ t = job["mode"].track \/ feeds'[t] # 0
        /\ graph' \in 0..made' /\ (graph' = graph \/ (graph' = t /\ MyCapture))
  <2>1. /\ live \in SUBSET (1..made) /\ enabled \in SUBSET (1..made) /\ graph \in 0..made
        /\ feeds \in [Tracks -> 0..made] /\ made \in Nat
    BY <1>0 DEF MediaInv, MediaTypeOK, TracksTypeOK, HeldTypeOK, Grows
  <2>2. CASE UNCHANGED <<made, feeds, raw, graph>> /\ SwapMicTrack(job["mode"].track, live,
          enabled)
    <3>1. PICK t, L, E : t = job["mode"].track /\ L = live /\ E = enabled
      OBVIOUS
    <3> QED
      BY <2>1, <2>2, <3>1, <1>a, <1>u
  <2>3. CASE \E t \in Tracks :
               /\ Captures(t) /\ feeds' = [feeds EXCEPT ![t] = job["mode"].track]
               /\ graph' = (IF MyCapture THEN t ELSE graph) /\ UNCHANGED raw
               /\ SwapMicTrack(t, live \cup {t}, enabled \cup {t})
    <3>1. PICK t \in Tracks :
               /\ Captures(t) /\ feeds' = [feeds EXCEPT ![t] = job["mode"].track]
               /\ graph' = (IF MyCapture THEN t ELSE graph)
               /\ SwapMicTrack(t, live \cup {t}, enabled \cup {t})
      BY <2>3
    <3>2. PICK L, E : L = live \cup {t} /\ E = enabled \cup {t}
      OBVIOUS
    <3>3. t = made + 1 /\ made' = t
      BY <3>1 DEF Captures
    <3>4. t \in 1..made' /\ 1..made \subseteq 1..made' /\ 0..made \subseteq 0..made'
      BY <3>3, <2>1
    <3>5. L \in SUBSET (1..made') /\ E \in SUBSET (1..made') /\ L \subseteq live \cup {t}
      BY <3>2, <3>4, <2>1
    <3>6. /\ feeds' \in [Tracks -> 0..made'] /\ feeds'[t] # 0
          /\ \A u \in live : feeds'[u] = feeds[u]
      <4>1. \A u \in live : u # t
        BY <3>3, <2>1
      <4>2. job["mode"].track \in 0..made'
        BY <3>4, <1>a
      <4> QED
        BY <3>1, <3>4, <4>1, <4>2, <2>1, <1>u
    <3>7. graph' \in 0..made'
      BY <3>1, <3>4, <2>1
    <3> QED
      BY <3>1, <3>2, <3>4, <3>5, <3>6, <3>7
  <2> QED
    BY <2>2, <2>3 DEF ModeBuilt
<1>d. /\ localMic' = t /\ (senders # 0 => sentMic' = t) /\ (senders = 0
           => sentMic' = sentMic)
      /\ live' \subseteq L /\ live' \subseteq 1..made' /\ enabled' \subseteq 1..made'
      /\ localMic # 0 => (t \in enabled' <=> localMic \in enabled)
      /\ localMic \in live' => localMic \in {t, raw'}
  BY <1>c, SwapsMic
<1>e. UNCHANGED <<raw, capture, localCam, senders, sentCam, sentScreen, screen, micOn>>
  BY DEF ModeBuilt, ModeChanges, buttonVars
<1>f. ~strayed' => MyCapture
  BY DEF ModeBuilt, ModeChanges
<1>3. TracksTypeOK' /\ HeldTypeOK' /\ CallTypeOK'
  <2> USE DEF MediaInv, MediaTypeOK, ModeBuilt, MyCapture, DisposeGraph, ModeChanges,
          SwapMicTrack, Captures, mediaVars, trackVars, captureVars, senderVars, buttonVars,
          Tracks
  <2>1. TracksTypeOK'
    <3>1. made' \in 0..MaxTracks
      BY MediaAssumption DEF TracksTypeOK
    <3> HIDE DEF MediaInv, ModeBuilt
    <3> QED
      BY <3>1, <1>c, <1>d DEF TracksTypeOK
  <2>2. HeldTypeOK'
    <3>1. HeldTypeOK
      OBVIOUS
    <3> HIDE DEF MediaInv, ModeBuilt
    <3> QED
      BY <3>1, <1>0, <1>c, <1>d, <1>e DEF HeldTypeOK, Grows
  <2>3. CallTypeOK'
    <3>1. /\ opened' \in Nat /\ capture' \in 0..opened' /\ senders' \in 0..opened'
          /\ mode' \in {"browser", "rnnoise"}
      BY <1>0 DEF CallTypeOK, Grows
    <3>2. cameraEnabled' \in BOOLEAN /\ told' \in BOOLEAN
      BY DEF CallTypeOK
    <3>3. micOn' \in BOOLEAN /\ deaf' \in BOOLEAN
      BY DEF CallTypeOK
    <3>4. micBefore' \in BOOLEAN
      BY DEF CallTypeOK
    <3>5. strayed' \in BOOLEAN /\ staleFlip' \in BOOLEAN
      BY DEF CallTypeOK
    <3> QED
      BY <3>1, <3>2, <3>3, <3>4, <3>5 DEF CallTypeOK
  <2> QED
    BY <2>1, <2>2, <2>3
<1>4. JobsInv'
  BY <1>2, <1>0
     DEF MediaInv, MediaTypeOK, JobsInv, CallTypeOK, JobsOK, Grows, ModeBuilt, MyCapture,
         DisposeGraph, ModeChanges, SwapMicTrack, Captures, mediaVars, trackVars,
         captureVars, senderVars, buttonVars
<1>g. GraphInv'
  BY <1>2, <1>a, <1>c, <1>d, <1>e, <1>u, <1>b, <1>0
     DEF MediaInv, GraphInv, Grows, Waits, ModeBuilt, MyCapture, DisposeGraph, ModeChanges,
         SwapMicTrack, Captures, mediaVars, trackVars, captureVars, senderVars, buttonVars
<1>5. ASSUME ~strayed', ~staleFlip' PROVE MediaSound'
  <2>0. ~strayed /\ ~staleFlip /\ MicInv /\ CamInv /\ DevicesInv
    BY <1>5
       DEF MediaInv, MediaTypeOK, MediaSound, ModeBuilt, MyCapture, DisposeGraph,
           ModeChanges, SwapMicTrack, Captures, mediaVars, trackVars, captureVars,
           senderVars, buttonVars
  <2>1. MicInv'
    <3>1. raw # 0 /\ localMic # 0 /\ capture # 0 /\ senders # 0
      BY <2>0, <1>5, <1>e, <1>f, <1>5, <1>u DEF MediaInv, GraphInv, MicInv, JobsInv,
           MyCapture
    <3> QED
      BY <3>1, <2>0, <1>c, <1>d, <1>e DEF MicInv
  <2>2. CamInv'
    BY <2>0, <1>2, <1>a, <1>c, <1>d, <1>e, <1>u, <1>b, <1>5
       DEF MediaTypeOK, TracksTypeOK, HeldTypeOK, CallTypeOK, ModeBuilt, MyCapture,
           DisposeGraph, ModeChanges, SwapMicTrack, Captures, mediaVars, trackVars,
           captureVars, senderVars, buttonVars, Waits, CamInv, MediaInv
  <2>3. DevicesInv'
    <3>1. raw = job["mode"].track /\ raw' = raw
      BY <1>5, <1>e, <1>f, <1>u DEF MediaInv, GraphInv, MyCapture
    <3>2. \A u \in live' : u = t \/ u \in live
      BY <1>c, <1>d
    <3>3. \A u \in live' : feeds'[u] = 0 => Held(u)'
      <4> SUFFICES ASSUME NEW u \in live', feeds'[u] = 0 PROVE Held(u)'
        OBVIOUS
      <4>1. CASE u = t
        BY <4>1, <1>d DEF Held
      <4>2. CASE u # t
        <5>1. u \in live /\ feeds[u] = 0
          BY <4>2, <3>2, <1>c
        <5>2. u \in {raw, localMic, localCam, screen} \/ Brings("camera", u)
                \/ Brings("flip", u)
          BY <5>1, <2>0 DEF DevicesInv, Held
        <5>3. u = localMic => u \in {localMic', raw'}
          BY <1>d
        <5> QED
          BY <5>2, <5>3, <1>e, <1>b DEF Held, Brings, Waits
      <4> QED
        BY <4>1, <4>2
    <3> QED
      BY <3>3, <2>0, <1>e, <1>b DEF DevicesInv, Waits
  <2> QED
    BY <2>1, <2>2, <2>3 DEF MediaSound
<1> QED
  BY <1>2, <1>3, <1>4, <1>g, <1>5 DEF MediaInv, MediaTypeOK, JobsOK

LEMMA WatchdogKeeps ==
    ASSUME MediaInv, Watchdog PROVE MediaInv'
<1>0. Grows
  BY MediaAssumption
     DEF Grows, MediaInv, MediaTypeOK, CallTypeOK, TracksTypeOK, Watchdog, FallsBack,
         DisposeGraph, SwapMicTrack, mediaVars, trackVars, captureVars, senderVars,
         buttonVars
<1>1. JobsOK
  BY DEF MediaInv, MediaTypeOK, JobsInv, JobsOK
<1>2. JobsOK' /\ UNCHANGED job
  BY <1>1, <1>0, JobsStay
     DEF Watchdog, FallsBack, DisposeGraph, SwapMicTrack, mediaVars, trackVars, captureVars,
         senderVars, buttonVars
<1>a. /\ job["mode"].of \in Nat /\ job["mode"].of <= opened
      /\ job["mode"] # Idle => job["mode"].of # 0
  BY <1>1 DEF JobsOK, JobRight, JobStates, Jobs
<1>c. /\ graph # 0 /\ raw # 0 /\ capture # 0 /\ senders # 0 /\ raw \in 1..made'
           /\ made' = made
      /\ live \subseteq 1..made' /\ enabled \subseteq 1..made'
  BY DEF Watchdog, FallsBack, MediaInv, MediaTypeOK, TracksTypeOK, HeldTypeOK, GraphInv,
         JobsInv
<1>e. UNCHANGED <<made, feeds, raw, capture, localCam, senders, sentCam, sentScreen,
        screen, micOn>>
  BY DEF Watchdog, buttonVars
<1>d. /\ localMic' = raw /\ sentMic' = raw /\ enabled' \subseteq 1..made'
      /\ live' \subseteq live
      /\ localMic # 0 => (raw \in enabled' <=> localMic \in enabled)
      /\ localMic \in live' => localMic = raw
  <2>1. PICK t, L, E : t = raw /\ L = live /\ E = enabled
    OBVIOUS
  <2>2. SwapMicTrack(t, L, E)
    BY <2>1 DEF Watchdog
  <2> QED
    BY <2>1, <2>2, <1>c, <1>e, SwapsMic
<1>3. TracksTypeOK' /\ HeldTypeOK' /\ CallTypeOK'
  <2> USE DEF MediaInv, MediaTypeOK, Watchdog, FallsBack, DisposeGraph, SwapMicTrack,
          mediaVars, trackVars, captureVars, senderVars, buttonVars, Tracks
  <2>1. TracksTypeOK'
    <3>1. TracksTypeOK
      OBVIOUS
    <3> HIDE DEF MediaInv, Watchdog
    <3> QED
      BY <3>1, <1>c, <1>d, <1>e DEF TracksTypeOK
  <2>2. HeldTypeOK'
    BY <1>0, <1>a, <1>c, <1>d, <1>e, <1>2 DEF TracksTypeOK, HeldTypeOK, Grows
  <2>3. CallTypeOK'
    <3>1. /\ opened' \in Nat /\ capture' \in 0..opened' /\ senders' \in 0..opened'
          /\ mode' \in {"browser", "rnnoise"}
      BY <1>0 DEF CallTypeOK, Grows
    <3>2. cameraEnabled' \in BOOLEAN /\ told' \in BOOLEAN
      BY DEF CallTypeOK
    <3>3. micOn' \in BOOLEAN /\ deaf' \in BOOLEAN
      BY DEF CallTypeOK
    <3>4. micBefore' \in BOOLEAN
      BY DEF CallTypeOK
    <3>5. strayed' \in BOOLEAN /\ staleFlip' \in BOOLEAN
      BY DEF CallTypeOK
    <3> QED
      BY <3>1, <3>2, <3>3, <3>4, <3>5 DEF CallTypeOK
  <2> QED
    BY <2>1, <2>2, <2>3
<1>4. JobsInv'
  BY <1>2, <1>0
     DEF MediaInv, MediaTypeOK, JobsInv, CallTypeOK, JobsOK, Grows, Watchdog, FallsBack,
         DisposeGraph, SwapMicTrack, mediaVars, trackVars, captureVars, senderVars,
         buttonVars
<1>g. GraphInv'
  BY <1>2, <1>a, <1>c, <1>d, <1>e, <1>0
     DEF MediaInv, GraphInv, Grows, Waits, Watchdog, FallsBack, DisposeGraph, SwapMicTrack,
         mediaVars, trackVars, captureVars, senderVars, buttonVars
<1>5. ASSUME ~strayed', ~staleFlip' PROVE MediaSound'
  <2>0. ~strayed /\ ~staleFlip /\ MicInv /\ CamInv /\ DevicesInv
    BY <1>5
       DEF MediaInv, MediaTypeOK, MediaSound, Watchdog, FallsBack, DisposeGraph,
           SwapMicTrack, mediaVars, trackVars, captureVars, senderVars, buttonVars
  <2>1. MicInv'
    BY <2>0, <1>c, <1>d, <1>e DEF MicInv
  <2>2. CamInv'
    BY <2>0, <1>2, <1>a, <1>c, <1>d, <1>e, <1>5
       DEF MediaTypeOK, TracksTypeOK, HeldTypeOK, CallTypeOK, Watchdog, FallsBack,
           DisposeGraph, SwapMicTrack, mediaVars, trackVars, captureVars, senderVars,
           buttonVars, Waits, CamInv, MediaInv
  <2>3. DevicesInv'
    BY <2>0, <1>2, <1>a, <1>c, <1>d, <1>e, <1>5
       DEF MediaTypeOK, TracksTypeOK, HeldTypeOK, CallTypeOK, Watchdog, FallsBack,
           DisposeGraph, SwapMicTrack, mediaVars, trackVars, captureVars, senderVars,
           buttonVars, Waits, DevicesInv, MediaInv, Held, Brings
  <2> QED
    BY <2>1, <2>2, <2>3 DEF MediaSound
<1> QED
  BY <1>2, <1>3, <1>4, <1>g, <1>5 DEF MediaInv, MediaTypeOK, JobsOK

LEMMA StartCameraKeeps ==
    ASSUME MediaInv, StartCamera PROVE MediaInv'
<1>0. Grows
  BY MediaAssumption
     DEF Grows, MediaInv, MediaTypeOK, CallTypeOK, TracksTypeOK, StartCamera, NoChange,
         mediaVars, trackVars, captureVars, senderVars, buttonVars
<1>1. JobsOK
  BY DEF MediaInv, MediaTypeOK, JobsInv, JobsOK
<1>2. JobsOK' /\ Moves("camera", [at |-> "prompt", of |-> capture, via |-> senders,
                                mic |-> localMic, cam |-> localCam, track |-> 0])
  <2>1. senders \in 1..opened /\ capture \in 0..opened /\ localMic \in 0..made
          /\ localCam \in 0..made
    BY <1>0
       DEF StartCamera, NoChange, mediaVars, trackVars, captureVars, senderVars, buttonVars,
           MediaInv, MediaTypeOK, CallTypeOK, HeldTypeOK, JobsInv, Grows
  <2>2. "camera" = "flip" => localCam # 0
    BY DEF StartCamera
  <2>3. Start("camera", "prompt") /\ "camera" \in Jobs \ {"mode"}
    BY DEF StartCamera, Jobs
  <2> QED
    BY <1>1, <1>0, <2>1, <2>2, <2>3, JobStarts
<1>b. /\ job'["camera"].at = "prompt" /\ job'["camera"].track = 0 /\ job'["camera"] # Idle
      /\ job'["mode"] = job["mode"] /\ job'["flip"] = job["flip"]
           /\ job'["screen"] = job["screen"]
  BY <1>2, <1>1 DEF Moves, Jobs, Idle, JobsOK, JobStates
<1>a. /\ job["mode"].of \in Nat /\ job["mode"].of <= opened
      /\ job["mode"] # Idle => job["mode"].of # 0
      /\ job["camera"].track \in 0..made /\ job["camera"].mic \in 0..made
           /\ job["camera"].cam \in 0..made
      /\ job["camera"] = Idle => job["camera"].at = "idle"
      /\ job["camera"].at \in {"attach", "constrain", "reacquire", "build"} =>
             job["camera"].track # 0 /\ job["camera"] # Idle
      /\ job["camera"].at \in {"prompt", "attach"} => job["camera"].via # 0
           /\ job["camera"] # Idle
  BY <1>1 DEF JobsOK, JobRight, JobStates, Jobs, Idle
<1>3. TracksTypeOK' /\ HeldTypeOK' /\ CallTypeOK'
  <2> USE DEF MediaInv, MediaTypeOK, StartCamera, NoChange, mediaVars, trackVars,
          captureVars, senderVars, buttonVars, Tracks
  <2>1. TracksTypeOK'
    BY <1>0, <1>a, MediaAssumption DEF TracksTypeOK, HeldTypeOK, GraphInv
  <2>2. HeldTypeOK'
    BY <1>0, <1>a, <1>2 DEF TracksTypeOK, HeldTypeOK, Grows
  <2>3. CallTypeOK'
    <3>1. /\ opened' \in Nat /\ capture' \in 0..opened' /\ senders' \in 0..opened'
          /\ mode' \in {"browser", "rnnoise"}
      BY <1>0 DEF CallTypeOK, Grows
    <3>2. cameraEnabled' \in BOOLEAN /\ told' \in BOOLEAN
      BY DEF CallTypeOK
    <3>3. micOn' \in BOOLEAN /\ deaf' \in BOOLEAN
      BY DEF CallTypeOK
    <3>4. micBefore' \in BOOLEAN
      BY DEF CallTypeOK
    <3>5. strayed' \in BOOLEAN /\ staleFlip' \in BOOLEAN
      BY DEF CallTypeOK
    <3> QED
      BY <3>1, <3>2, <3>3, <3>4, <3>5 DEF CallTypeOK
  <2> QED
    BY <2>1, <2>2, <2>3
<1>4. JobsInv'
  BY <1>2, <1>0
     DEF MediaInv, MediaTypeOK, JobsInv, CallTypeOK, JobsOK, Grows, StartCamera, NoChange,
         mediaVars, trackVars, captureVars, senderVars, buttonVars
<1>g. GraphInv'
  BY <1>2, <1>a, <1>b, <1>0
     DEF MediaInv, GraphInv, Grows, Waits, StartCamera, NoChange, mediaVars, trackVars,
         captureVars, senderVars, buttonVars
<1>5. ASSUME ~strayed', ~staleFlip' PROVE MediaSound'
  <2>0. ~strayed /\ ~staleFlip /\ MicInv /\ CamInv /\ DevicesInv
    BY <1>5
       DEF MediaInv, MediaTypeOK, MediaSound, StartCamera, NoChange, mediaVars, trackVars,
           captureVars, senderVars, buttonVars
  <2>1. MicInv'
    BY <2>0, <1>2, <1>a, <1>b, <1>5
       DEF MediaTypeOK, TracksTypeOK, HeldTypeOK, CallTypeOK, StartCamera, NoChange,
           mediaVars, trackVars, captureVars, senderVars, buttonVars, Waits, MicInv,
           MediaInv, GraphInv
  <2>2. CamInv'
    BY <2>0, <1>2, <1>a, <1>b, <1>5
       DEF MediaTypeOK, TracksTypeOK, HeldTypeOK, CallTypeOK, StartCamera, NoChange,
           mediaVars, trackVars, captureVars, senderVars, buttonVars, Waits, CamInv,
               MediaInv
  <2>3. DevicesInv'
    BY <2>0, <1>2, <1>a, <1>b, <1>5
       DEF MediaTypeOK, TracksTypeOK, HeldTypeOK, CallTypeOK, StartCamera, NoChange,
           mediaVars, trackVars, captureVars, senderVars, buttonVars, Waits, DevicesInv,
           MediaInv, Held, Brings
  <2> QED
    BY <2>1, <2>2, <2>3 DEF MediaSound
<1> QED
  BY <1>2, <1>3, <1>4, <1>g, <1>5 DEF MediaInv, MediaTypeOK, JobsOK

LEMMA CameraGrantedKeeps ==
    ASSUME MediaInv, CameraGranted PROVE MediaInv'
<1>0. Grows
  BY MediaAssumption
     DEF Grows, MediaInv, MediaTypeOK, CallTypeOK, TracksTypeOK, CameraGranted, Captures,
         NoChange, mediaVars, trackVars, captureVars, senderVars, buttonVars
<1>1. JobsOK
  BY DEF MediaInv, MediaTypeOK, JobsInv, JobsOK
<1>2. /\ JobsOK'
      /\ job'["mode"] = job["mode"] /\ job'["flip"] = job["flip"]
           /\ job'["screen"] = job["screen"]
      /\ live' \subseteq 1..made' /\ made' \in 0..MaxTracks /\ UNCHANGED feeds
      /\ \A u \in live' : u \in live \/ (job'["camera"].at = "attach"
           /\ job'["camera"].track = u)
  <2>1. /\ made' = made + 1 /\ made' \in 1..MaxTracks /\ UNCHANGED feeds /\ Waits("camera",
             "prompt")
        /\ \/ End("camera") /\ UNCHANGED live
           \/ Proceed("camera", "attach", made') /\ live' = live \cup {made'}
    BY DEF CameraGranted, Captures, Tracks
  <2>2. PICK t : t = made'
    OBVIOUS
  <2>3. live \subseteq 1..made /\ made \in Nat /\ 1..made \subseteq 1..made'
          /\ t \in 1..made'
    BY <2>1, <2>2, <1>0 DEF MediaInv, MediaTypeOK, TracksTypeOK, Grows
  <2>4. job["camera"] # Idle /\ "camera" \in Jobs
    BY <2>1 DEF Waits, Idle, Jobs
  <2>5. CASE End("camera") /\ UNCHANGED live
    <3>1. JobsOK' /\ Moves("camera", Idle)
      BY <2>5, <2>4, <1>0, <1>1, JobEnds
    <3> QED
      BY <3>1, <2>1, <2>3, <2>5 DEF Moves, Jobs
  <2>6. CASE Proceed("camera", "attach", made') /\ live' = live \cup {made'}
    <3>1. JobsOK' /\ Moves("camera", [job["camera"] EXCEPT !.at = "attach", !.track = t])
      BY <2>6, <2>2, <2>3, <2>4, <1>0, <1>1, JobProceeds
    <3>2. job["camera"] \in JobStates
      BY <1>1, <2>4 DEF JobsOK
    <3>3. job'["camera"] = [job["camera"] EXCEPT !.at = "attach", !.track = t]
      BY <3>1 DEF Moves
    <3>4. job'["camera"].at = "attach" /\ job'["camera"].track = t
      BY <3>2, <3>3 DEF JobStates
    <3>5. live' \subseteq 1..made' /\ made' \in 0..MaxTracks
      BY <2>1, <2>2, <2>3, <2>6
    <3> QED
      BY <3>1, <3>4, <3>5, <2>1, <2>2, <2>6 DEF Moves, Jobs
  <2> QED
    BY <2>1, <2>5, <2>6
<1>a. /\ job["mode"].of \in Nat /\ job["mode"].of <= opened
      /\ job["mode"] # Idle => job["mode"].of # 0
      /\ job["camera"].track \in 0..made /\ job["camera"].mic \in 0..made
           /\ job["camera"].cam \in 0..made
      /\ job["camera"] = Idle => job["camera"].at = "idle"
      /\ job["camera"].at \in {"attach", "constrain", "reacquire", "build"} =>
             job["camera"].track # 0 /\ job["camera"] # Idle
      /\ job["camera"].at \in {"prompt", "attach"} => job["camera"].via # 0
           /\ job["camera"] # Idle
  BY <1>1 DEF JobsOK, JobRight, JobStates, Jobs, Idle
<1>b. /\ job'["mode"] = job["mode"] /\ job'["flip"] = job["flip"]
           /\ job'["screen"] = job["screen"]
      /\ live' \subseteq 1..made' /\ made' \in 0..MaxTracks /\ UNCHANGED feeds
      /\ \A u \in live' : u \in live \/ (job'["camera"].at = "attach"
           /\ job'["camera"].track = u)
  BY <1>2
<1>c. job["camera"] # Idle /\ job["camera"].at = "prompt"
  BY <1>a DEF CameraGranted, Waits
<1>3. TracksTypeOK' /\ HeldTypeOK' /\ CallTypeOK'
  <2> USE DEF MediaInv, MediaTypeOK, CameraGranted, Captures, NoChange, mediaVars,
        trackVars,
          captureVars, senderVars, buttonVars, Tracks
  <2>1. TracksTypeOK'
    <3>1. TracksTypeOK /\ enabled' = enabled
      OBVIOUS
    <3> HIDE DEF MediaInv, CameraGranted
    <3> QED
      BY <3>1, <1>0, <1>b DEF TracksTypeOK, Grows
  <2>2. HeldTypeOK'
    BY <1>0, <1>a, <1>b, <1>c, <1>2 DEF TracksTypeOK, HeldTypeOK, Grows
  <2>3. CallTypeOK'
    <3>1. /\ opened' \in Nat /\ capture' \in 0..opened' /\ senders' \in 0..opened'
          /\ mode' \in {"browser", "rnnoise"}
      BY <1>0 DEF CallTypeOK, Grows
    <3>2. cameraEnabled' \in BOOLEAN /\ told' \in BOOLEAN
      BY DEF CallTypeOK
    <3>3. micOn' \in BOOLEAN /\ deaf' \in BOOLEAN
      BY DEF CallTypeOK
    <3>4. micBefore' \in BOOLEAN
      BY DEF CallTypeOK
    <3>5. strayed' \in BOOLEAN /\ staleFlip' \in BOOLEAN
      BY DEF CallTypeOK
    <3> QED
      BY <3>1, <3>2, <3>3, <3>4, <3>5 DEF CallTypeOK
  <2> QED
    BY <2>1, <2>2, <2>3
<1>4. JobsInv'
  BY <1>2, <1>0
     DEF MediaInv, MediaTypeOK, JobsInv, CallTypeOK, JobsOK, Grows, CameraGranted, Captures,
         NoChange, mediaVars, trackVars, captureVars, senderVars, buttonVars
<1>g. GraphInv'
  BY <1>2, <1>a, <1>b, <1>c, <1>0
     DEF MediaInv, GraphInv, Grows, Waits, CameraGranted, Captures, NoChange, mediaVars,
         trackVars, captureVars, senderVars, buttonVars
<1>5. ASSUME ~strayed', ~staleFlip' PROVE MediaSound'
  <2>0. ~strayed /\ ~staleFlip /\ MicInv /\ CamInv /\ DevicesInv
    BY <1>5
       DEF MediaInv, MediaTypeOK, MediaSound, CameraGranted, Captures, NoChange, mediaVars,
           trackVars, captureVars, senderVars, buttonVars
  <2>1. MicInv'
    BY <2>0, <1>2, <1>a, <1>b, <1>c, <1>5
       DEF MediaTypeOK, TracksTypeOK, HeldTypeOK, CallTypeOK, CameraGranted, Captures,
           NoChange, mediaVars, trackVars, captureVars, senderVars, buttonVars, Waits,
           MicInv, MediaInv, GraphInv
  <2>2. CamInv'
    BY <2>0, <1>2, <1>a, <1>b, <1>c, <1>5
       DEF MediaTypeOK, TracksTypeOK, HeldTypeOK, CallTypeOK, CameraGranted, Captures,
           NoChange, mediaVars, trackVars, captureVars, senderVars, buttonVars, Waits,
           CamInv, MediaInv
  <2>3. DevicesInv'
    <3>1. UNCHANGED <<raw, localMic, localCam, screen, capture>>
      BY DEF CameraGranted, NoChange, captureVars
    <3>2. \A u \in live : feeds[u] = 0 => u \in {raw, localMic, localCam, screen}
            \/ Brings("flip", u)
      BY <2>0, <1>c DEF DevicesInv, Held, Brings, Waits
    <3> QED
      BY <3>1, <3>2, <2>0, <1>b DEF DevicesInv, Held, Brings, Waits
  <2> QED
    BY <2>1, <2>2, <2>3 DEF MediaSound
<1> QED
  BY <1>2, <1>3, <1>4, <1>g, <1>5 DEF MediaInv, MediaTypeOK, JobsOK

LEMMA CameraAttachedKeeps ==
    ASSUME MediaInv, CameraAttached PROVE MediaInv'
<1>0. Grows
  BY MediaAssumption
     DEF Grows, MediaInv, MediaTypeOK, CallTypeOK, TracksTypeOK, CameraAttached, Attached,
         CameraChanges, mediaVars, trackVars, captureVars, senderVars, buttonVars
<1>1. JobsOK
  BY DEF MediaInv, MediaTypeOK, JobsInv, JobsOK
<1>2. JobsOK' /\ Moves("camera", Idle)
  BY <1>1, <1>0, JobEnds
     DEF CameraAttached, Attached, CameraChanges, mediaVars, trackVars, captureVars,
         senderVars, buttonVars, Jobs
<1>b. /\ job'["camera"].at = "idle" /\ job'["camera"].track = 0 /\ job'["camera"] = Idle
      /\ job'["mode"] = job["mode"] /\ job'["flip"] = job["flip"]
           /\ job'["screen"] = job["screen"]
  BY <1>2, <1>1 DEF Moves, Jobs, Idle, JobsOK, JobStates
<1>a. /\ job["mode"].of \in Nat /\ job["mode"].of <= opened
      /\ job["mode"] # Idle => job["mode"].of # 0
      /\ job["camera"].track \in 0..made /\ job["camera"].mic \in 0..made
           /\ job["camera"].cam \in 0..made
      /\ job["camera"] = Idle => job["camera"].at = "idle"
      /\ job["camera"].at \in {"attach", "constrain", "reacquire", "build"} =>
             job["camera"].track # 0 /\ job["camera"] # Idle
      /\ job["camera"].at \in {"prompt", "attach"} => job["camera"].via # 0
           /\ job["camera"] # Idle
  BY <1>1 DEF JobsOK, JobRight, JobStates, Jobs, Idle
<1>3. TracksTypeOK' /\ HeldTypeOK' /\ CallTypeOK'
  <2> USE DEF MediaInv, MediaTypeOK, CameraAttached, Attached, CameraChanges, mediaVars,
          trackVars, captureVars, senderVars, buttonVars, Tracks
  <2>1. TracksTypeOK'
    BY <1>0, <1>a, MediaAssumption DEF TracksTypeOK, HeldTypeOK, GraphInv
  <2>2. HeldTypeOK'
    BY <1>0, <1>a, <1>2 DEF TracksTypeOK, HeldTypeOK, Grows
  <2>3. CallTypeOK'
    <3>1. /\ opened' \in Nat /\ capture' \in 0..opened' /\ senders' \in 0..opened'
          /\ mode' \in {"browser", "rnnoise"}
      BY <1>0 DEF CallTypeOK, Grows
    <3>2. cameraEnabled' \in BOOLEAN /\ told' \in BOOLEAN
      BY DEF CallTypeOK
    <3>3. micOn' \in BOOLEAN /\ deaf' \in BOOLEAN
      BY DEF CallTypeOK
    <3>4. micBefore' \in BOOLEAN
      BY DEF CallTypeOK
    <3>5. strayed' \in BOOLEAN /\ staleFlip' \in BOOLEAN
      BY DEF CallTypeOK
    <3> QED
      BY <3>1, <3>2, <3>3, <3>4, <3>5 DEF CallTypeOK
  <2> QED
    BY <2>1, <2>2, <2>3
<1>4. JobsInv'
  BY <1>2, <1>0
     DEF MediaInv, MediaTypeOK, JobsInv, CallTypeOK, JobsOK, Grows, CameraAttached,
         Attached,
         CameraChanges, mediaVars, trackVars, captureVars, senderVars, buttonVars
<1>g. GraphInv'
  BY <1>2, <1>a, <1>b, <1>0
     DEF MediaInv, GraphInv, Grows, Waits, CameraAttached, Attached, CameraChanges,
         mediaVars, trackVars, captureVars, senderVars, buttonVars
<1>5. ASSUME ~strayed', ~staleFlip' PROVE MediaSound'
  <2>0. ~strayed /\ ~staleFlip /\ MicInv /\ CamInv /\ DevicesInv
    BY <1>5
       DEF MediaInv, MediaTypeOK, MediaSound, CameraAttached, Attached, CameraChanges,
           mediaVars, trackVars, captureVars, senderVars, buttonVars
  <2>1. MicInv'
    BY <2>0, <1>2, <1>a, <1>b, <1>5
       DEF MediaTypeOK, TracksTypeOK, HeldTypeOK, CallTypeOK, CameraAttached, Attached,
           CameraChanges, mediaVars, trackVars, captureVars, senderVars, buttonVars, Waits,
           MicInv, MediaInv, GraphInv
  <2>2. CamInv'
    <3>1. /\ Attached("camera") /\ localCam' = job["camera"].track /\ sentCam' = localCam'
          /\ cameraEnabled' = TRUE /\ told' = TRUE
      BY <1>5, <1>a DEF CameraAttached, Waits
    <3>2. localCam' # 0
      BY <3>1, <1>a DEF CameraAttached, Waits
    <3>3. capture' # 0
      BY <3>1, <1>a DEF CameraAttached, CameraChanges, Waits, Attached, MediaInv, JobsInv
    <3> QED
      BY <3>1, <3>2, <3>3, <1>b DEF CamInv
  <2>3. DevicesInv'
    <3>1. /\ UNCHANGED <<raw, capture, feeds, screen, live, localMic>>
               /\ localCam' = job["camera"].track
      BY <1>5, <1>a DEF CameraAttached, CameraChanges, Waits
    <3>2. localCam = 0
      BY <2>0, <1>a DEF CamInv, CameraAttached, Waits
    <3>3. 0 \notin live
      BY DEF MediaInv, MediaTypeOK, TracksTypeOK
    <3> QED
      BY <3>1, <3>2, <3>3, <2>0, <1>b DEF DevicesInv, Held, Brings, Waits
  <2> QED
    BY <2>1, <2>2, <2>3 DEF MediaSound
<1> QED
  BY <1>2, <1>3, <1>4, <1>g, <1>5 DEF MediaInv, MediaTypeOK, JobsOK

LEMMA StopCameraKeeps ==
    ASSUME MediaInv, StopCamera PROVE MediaInv'
<1>0. Grows
  BY MediaAssumption
     DEF Grows, MediaInv, MediaTypeOK, CallTypeOK, TracksTypeOK, StopCamera,
         ReleaseCameraTrack, CameraChanges, mediaVars, trackVars, captureVars, senderVars,
         buttonVars
<1>1. JobsOK
  BY DEF MediaInv, MediaTypeOK, JobsInv, JobsOK
<1>2. JobsOK' /\ UNCHANGED job
  BY <1>1, <1>0, JobsStay
     DEF StopCamera, ReleaseCameraTrack, CameraChanges, mediaVars, trackVars, captureVars,
         senderVars, buttonVars
<1>a. /\ job["mode"].of \in Nat /\ job["mode"].of <= opened
      /\ job["mode"] # Idle => job["mode"].of # 0
  BY <1>1 DEF JobsOK, JobRight, JobStates, Jobs
<1>3. TracksTypeOK' /\ HeldTypeOK' /\ CallTypeOK'
  <2> USE DEF MediaInv, MediaTypeOK, StopCamera, ReleaseCameraTrack, CameraChanges,
          mediaVars, trackVars, captureVars, senderVars, buttonVars, Tracks
  <2>1. TracksTypeOK'
    BY <1>0, <1>a, MediaAssumption DEF TracksTypeOK, HeldTypeOK, GraphInv
  <2>2. HeldTypeOK'
    BY <1>0, <1>a, <1>2 DEF TracksTypeOK, HeldTypeOK, Grows
  <2>3. CallTypeOK'
    <3>1. /\ opened' \in Nat /\ capture' \in 0..opened' /\ senders' \in 0..opened'
          /\ mode' \in {"browser", "rnnoise"}
      BY <1>0 DEF CallTypeOK, Grows
    <3>2. cameraEnabled' \in BOOLEAN /\ told' \in BOOLEAN
      BY DEF CallTypeOK
    <3>3. micOn' \in BOOLEAN /\ deaf' \in BOOLEAN
      BY DEF CallTypeOK
    <3>4. micBefore' \in BOOLEAN
      BY DEF CallTypeOK
    <3>5. strayed' \in BOOLEAN /\ staleFlip' \in BOOLEAN
      BY DEF CallTypeOK
    <3> QED
      BY <3>1, <3>2, <3>3, <3>4, <3>5 DEF CallTypeOK
  <2> QED
    BY <2>1, <2>2, <2>3
<1>4. JobsInv'
  BY <1>2, <1>0
     DEF MediaInv, MediaTypeOK, JobsInv, CallTypeOK, JobsOK, Grows, StopCamera,
         ReleaseCameraTrack, CameraChanges, mediaVars, trackVars, captureVars, senderVars,
         buttonVars
<1>g. GraphInv'
  BY <1>2, <1>a, <1>0
     DEF MediaInv, GraphInv, Grows, Waits, StopCamera, ReleaseCameraTrack, CameraChanges,
         mediaVars, trackVars, captureVars, senderVars, buttonVars
<1>5. ASSUME ~strayed', ~staleFlip' PROVE MediaSound'
  <2>0. ~strayed /\ ~staleFlip /\ MicInv /\ CamInv /\ DevicesInv
    BY <1>5
       DEF MediaInv, MediaTypeOK, MediaSound, StopCamera, ReleaseCameraTrack, CameraChanges,
           mediaVars, trackVars, captureVars, senderVars, buttonVars
  <2>1. MicInv'
    BY <2>0, <1>2, <1>a, <1>5
       DEF MediaTypeOK, TracksTypeOK, HeldTypeOK, CallTypeOK, StopCamera,
           ReleaseCameraTrack,
           CameraChanges, mediaVars, trackVars, captureVars, senderVars, buttonVars, Waits,
           MicInv, MediaInv, GraphInv
  <2>2. CamInv'
    BY <2>0, <1>2, <1>a, <1>5
       DEF MediaTypeOK, TracksTypeOK, HeldTypeOK, CallTypeOK, StopCamera,
           ReleaseCameraTrack,
           CameraChanges, mediaVars, trackVars, captureVars, senderVars, buttonVars, Waits,
           CamInv, MediaInv
  <2>3. DevicesInv'
    BY <2>0, <1>2, <1>a, <1>5
       DEF MediaTypeOK, TracksTypeOK, HeldTypeOK, CallTypeOK, StopCamera,
           ReleaseCameraTrack,
           CameraChanges, mediaVars, trackVars, captureVars, senderVars, buttonVars, Waits,
           DevicesInv, MediaInv, Held, Brings
  <2> QED
    BY <2>1, <2>2, <2>3 DEF MediaSound
<1> QED
  BY <1>2, <1>3, <1>4, <1>g, <1>5 DEF MediaInv, MediaTypeOK, JobsOK

LEMMA StartFlipKeeps ==
    ASSUME MediaInv, StartFlip PROVE MediaInv'
<1>0. Grows
  BY MediaAssumption
     DEF Grows, MediaInv, MediaTypeOK, CallTypeOK, TracksTypeOK, StartFlip, NoChange,
         mediaVars, trackVars, captureVars, senderVars, buttonVars
<1>1. JobsOK
  BY DEF MediaInv, MediaTypeOK, JobsInv, JobsOK
<1>2. JobsOK' /\ Moves("flip", [at |-> "prompt", of |-> capture, via |-> senders,
                                mic |-> localMic, cam |-> localCam, track |-> 0])
  <2>1. senders \in 1..opened /\ capture \in 0..opened /\ localMic \in 0..made
          /\ localCam \in 0..made
    BY <1>0
       DEF StartFlip, NoChange, mediaVars, trackVars, captureVars, senderVars, buttonVars,
           MediaInv, MediaTypeOK, CallTypeOK, HeldTypeOK, JobsInv, Grows
  <2>2. "flip" = "flip" => localCam # 0
    BY DEF StartFlip
  <2>3. Start("flip", "prompt") /\ "flip" \in Jobs \ {"mode"}
    BY DEF StartFlip, Jobs
  <2> QED
    BY <1>1, <1>0, <2>1, <2>2, <2>3, JobStarts
<1>b. /\ job'["flip"].at = "prompt" /\ job'["flip"].track = 0 /\ job'["flip"] # Idle
      /\ job'["mode"] = job["mode"] /\ job'["camera"] = job["camera"]
           /\ job'["screen"] = job["screen"]
  BY <1>2, <1>1 DEF Moves, Jobs, Idle, JobsOK, JobStates
<1>a. /\ job["mode"].of \in Nat /\ job["mode"].of <= opened
      /\ job["mode"] # Idle => job["mode"].of # 0
      /\ job["flip"].track \in 0..made /\ job["flip"].mic \in 0..made
           /\ job["flip"].cam \in 0..made
      /\ job["flip"] = Idle => job["flip"].at = "idle"
      /\ job["flip"].at \in {"attach", "constrain", "reacquire", "build"} =>
             job["flip"].track # 0 /\ job["flip"] # Idle
      /\ job["flip"].at \in {"prompt", "attach"} => job["flip"].via # 0
           /\ job["flip"] # Idle
      /\ job["flip"] # Idle => job["flip"].cam # 0
  BY <1>1 DEF JobsOK, JobRight, JobStates, Jobs, Idle
<1>3. TracksTypeOK' /\ HeldTypeOK' /\ CallTypeOK'
  <2> USE DEF MediaInv, MediaTypeOK, StartFlip, NoChange, mediaVars, trackVars, captureVars,
          senderVars, buttonVars, Tracks
  <2>1. TracksTypeOK'
    BY <1>0, <1>a, MediaAssumption DEF TracksTypeOK, HeldTypeOK, GraphInv
  <2>2. HeldTypeOK'
    BY <1>0, <1>a, <1>2 DEF TracksTypeOK, HeldTypeOK, Grows
  <2>3. CallTypeOK'
    <3>1. /\ opened' \in Nat /\ capture' \in 0..opened' /\ senders' \in 0..opened'
          /\ mode' \in {"browser", "rnnoise"}
      BY <1>0 DEF CallTypeOK, Grows
    <3>2. cameraEnabled' \in BOOLEAN /\ told' \in BOOLEAN
      BY DEF CallTypeOK
    <3>3. micOn' \in BOOLEAN /\ deaf' \in BOOLEAN
      BY DEF CallTypeOK
    <3>4. micBefore' \in BOOLEAN
      BY DEF CallTypeOK
    <3>5. strayed' \in BOOLEAN /\ staleFlip' \in BOOLEAN
      BY DEF CallTypeOK
    <3> QED
      BY <3>1, <3>2, <3>3, <3>4, <3>5 DEF CallTypeOK
  <2> QED
    BY <2>1, <2>2, <2>3
<1>4. JobsInv'
  BY <1>2, <1>0
     DEF MediaInv, MediaTypeOK, JobsInv, CallTypeOK, JobsOK, Grows, StartFlip, NoChange,
         mediaVars, trackVars, captureVars, senderVars, buttonVars
<1>g. GraphInv'
  BY <1>2, <1>a, <1>b, <1>0
     DEF MediaInv, GraphInv, Grows, Waits, StartFlip, NoChange, mediaVars, trackVars,
         captureVars, senderVars, buttonVars
<1>5. ASSUME ~strayed', ~staleFlip' PROVE MediaSound'
  <2>0. ~strayed /\ ~staleFlip /\ MicInv /\ CamInv /\ DevicesInv
    BY <1>5
       DEF MediaInv, MediaTypeOK, MediaSound, StartFlip, NoChange, mediaVars, trackVars,
           captureVars, senderVars, buttonVars
  <2>1. MicInv'
    BY <2>0, <1>2, <1>a, <1>b, <1>5
       DEF MediaTypeOK, TracksTypeOK, HeldTypeOK, CallTypeOK, StartFlip, NoChange,
           mediaVars,
           trackVars, captureVars, senderVars, buttonVars, Waits, MicInv, MediaInv, GraphInv
  <2>2. CamInv'
    BY <2>0, <1>2, <1>a, <1>b, <1>5
       DEF MediaTypeOK, TracksTypeOK, HeldTypeOK, CallTypeOK, StartFlip, NoChange,
           mediaVars,
           trackVars, captureVars, senderVars, buttonVars, Waits, CamInv, MediaInv
  <2>3. DevicesInv'
    BY <2>0, <1>2, <1>a, <1>b, <1>5
       DEF MediaTypeOK, TracksTypeOK, HeldTypeOK, CallTypeOK, StartFlip, NoChange,
           mediaVars,
           trackVars, captureVars, senderVars, buttonVars, Waits, DevicesInv, MediaInv,
               Held,
           Brings
  <2> QED
    BY <2>1, <2>2, <2>3 DEF MediaSound
<1> QED
  BY <1>2, <1>3, <1>4, <1>g, <1>5 DEF MediaInv, MediaTypeOK, JobsOK

LEMMA FlipGrantedKeeps ==
    ASSUME MediaInv, FlipGranted PROVE MediaInv'
<1>0. Grows
  BY MediaAssumption
     DEF Grows, MediaInv, MediaTypeOK, CallTypeOK, TracksTypeOK, FlipGranted, Captures,
         NoChange, mediaVars, trackVars, captureVars, senderVars, buttonVars
<1>1. JobsOK
  BY DEF MediaInv, MediaTypeOK, JobsInv, JobsOK
<1>t. PICK t : t = made' /\ t \in 1..made' /\ Proceed("flip", "attach", t)
  BY <1>0, <1>1
     DEF FlipGranted, Captures, NoChange, mediaVars, trackVars, captureVars, senderVars,
         buttonVars, Jobs, JobsOK, JobRight, Waits, Grows, JobStates
<1>u. job["flip"] # Idle
  BY <1>1 DEF FlipGranted, Waits, Idle
<1>2. JobsOK' /\ Moves("flip", [job["flip"] EXCEPT !.at = "attach", !.track = t])
  BY <1>1, <1>0, <1>t, <1>u, JobProceeds DEF Jobs
<1>b. /\ job'["flip"].at = "attach" /\ job'["flip"].track = t /\ job'["flip"] # Idle
      /\ job'["flip"].of = job["flip"].of
      /\ job'["mode"] = job["mode"] /\ job'["camera"] = job["camera"]
           /\ job'["screen"] = job["screen"]
  <2>1. job["flip"] \in JobStates
    BY <1>1 DEF JobsOK, Jobs
  <2>2. job'["flip"] = [job["flip"] EXCEPT !.at = "attach", !.track = t]
    BY <1>2 DEF Moves
  <2>3. /\ job'["flip"].at = "attach" /\ job'["flip"].track = t
        /\ job'["flip"].of = job["flip"].of
    BY <2>1, <2>2 DEF JobStates
  <2>4. job'["flip"] # Idle
    BY <2>3 DEF Idle
  <2>5. job'["mode"] = job["mode"] /\ job'["camera"] = job["camera"]
          /\ job'["screen"] = job["screen"]
    BY <1>2 DEF Moves, Jobs
  <2> QED
    BY <2>3, <2>4, <2>5
<1>a. /\ job["mode"].of \in Nat /\ job["mode"].of <= opened
      /\ job["mode"] # Idle => job["mode"].of # 0
      /\ job["flip"].track \in 0..made /\ job["flip"].mic \in 0..made
           /\ job["flip"].cam \in 0..made
      /\ job["flip"] = Idle => job["flip"].at = "idle"
      /\ job["flip"].at \in {"attach", "constrain", "reacquire", "build"} =>
             job["flip"].track # 0 /\ job["flip"] # Idle
      /\ job["flip"].at \in {"prompt", "attach"} => job["flip"].via # 0
           /\ job["flip"] # Idle
      /\ job["flip"] # Idle => job["flip"].cam # 0
  BY <1>1 DEF JobsOK, JobRight, JobStates, Jobs, Idle
<1>3. TracksTypeOK' /\ HeldTypeOK' /\ CallTypeOK'
  <2> USE DEF MediaInv, MediaTypeOK, FlipGranted, Captures, NoChange, mediaVars, trackVars,
          captureVars, senderVars, buttonVars, Tracks
  <2>1. TracksTypeOK'
    BY <1>0, <1>a, <1>t, MediaAssumption DEF TracksTypeOK, HeldTypeOK, GraphInv
  <2>2. HeldTypeOK'
    <3>1. UNCHANGED <<raw, graph, localMic, localCam, sentMic, sentCam, sentScreen, screen>>
      BY DEF NoChange, captureVars, senderVars, FlipGranted
    <3>2. HeldTypeOK
      OBVIOUS
    <3> HIDE DEF MediaInv, FlipGranted
    <3> QED
      BY <3>1, <3>2, <1>0, <1>t DEF HeldTypeOK, Grows
  <2>3. CallTypeOK'
    <3>1. /\ opened' \in Nat /\ capture' \in 0..opened' /\ senders' \in 0..opened'
          /\ mode' \in {"browser", "rnnoise"}
      BY <1>0 DEF CallTypeOK, Grows
    <3>2. cameraEnabled' \in BOOLEAN /\ told' \in BOOLEAN
      BY DEF CallTypeOK
    <3>3. micOn' \in BOOLEAN /\ deaf' \in BOOLEAN
      BY DEF CallTypeOK
    <3>4. micBefore' \in BOOLEAN
      BY DEF CallTypeOK
    <3>5. strayed' \in BOOLEAN /\ staleFlip' \in BOOLEAN
      BY DEF CallTypeOK
    <3> QED
      BY <3>1, <3>2, <3>3, <3>4, <3>5 DEF CallTypeOK
  <2> QED
    BY <2>1, <2>2, <2>3
<1>4. JobsInv'
  BY <1>2, <1>0
     DEF MediaInv, MediaTypeOK, JobsInv, CallTypeOK, JobsOK, Grows, FlipGranted, Captures,
         NoChange, mediaVars, trackVars, captureVars, senderVars, buttonVars
<1>g. GraphInv'
  BY <1>2, <1>a, <1>b, <1>t, <1>0
     DEF MediaInv, GraphInv, Grows, Waits, FlipGranted, Captures, NoChange, mediaVars,
         trackVars, captureVars, senderVars, buttonVars
<1>5. ASSUME ~strayed', ~staleFlip' PROVE MediaSound'
  <2>0. ~strayed /\ ~staleFlip /\ MicInv /\ CamInv /\ DevicesInv
    BY <1>5
       DEF MediaInv, MediaTypeOK, MediaSound, FlipGranted, Captures, NoChange, mediaVars,
           trackVars, captureVars, senderVars, buttonVars
  <2>1. MicInv'
    BY <2>0, <1>2, <1>a, <1>t, <1>b, <1>5
       DEF MediaTypeOK, TracksTypeOK, HeldTypeOK, CallTypeOK, FlipGranted, Captures,
           NoChange, mediaVars, trackVars, captureVars, senderVars, buttonVars, Waits,
           MicInv, MediaInv, GraphInv
  <2>2. CamInv'
    BY <2>0, <1>2, <1>a, <1>t, <1>b, <1>5
       DEF MediaTypeOK, TracksTypeOK, HeldTypeOK, CallTypeOK, FlipGranted, Captures,
           NoChange, mediaVars, trackVars, captureVars, senderVars, buttonVars, Waits,
           CamInv, MediaInv
  <2>3. DevicesInv'
    BY <2>0, <1>2, <1>a, <1>t, <1>b, <1>5
       DEF MediaTypeOK, TracksTypeOK, HeldTypeOK, CallTypeOK, FlipGranted, Captures,
           NoChange, mediaVars, trackVars, captureVars, senderVars, buttonVars, Waits,
           DevicesInv, MediaInv, Held, Brings
  <2> QED
    BY <2>1, <2>2, <2>3 DEF MediaSound
<1> QED
  BY <1>2, <1>3, <1>4, <1>g, <1>5 DEF MediaInv, MediaTypeOK, JobsOK

LEMMA FlipAttachedKeeps ==
    ASSUME MediaInv, FlipAttached PROVE MediaInv'
<1>0. Grows
  BY MediaAssumption
     DEF Grows, MediaInv, MediaTypeOK, CallTypeOK, TracksTypeOK, FlipAttached, Attached,
         CameraChanges, mediaVars, trackVars, captureVars, senderVars, buttonVars
<1>1. JobsOK
  BY DEF MediaInv, MediaTypeOK, JobsInv, JobsOK
<1>2. JobsOK' /\ Moves("flip", Idle)
  BY <1>1, <1>0, JobEnds
     DEF FlipAttached, Attached, CameraChanges, mediaVars, trackVars, captureVars,
         senderVars, buttonVars, Jobs
<1>b. /\ job'["flip"].at = "idle" /\ job'["flip"].track = 0 /\ job'["flip"] = Idle
      /\ job'["mode"] = job["mode"] /\ job'["camera"] = job["camera"]
           /\ job'["screen"] = job["screen"]
  BY <1>2, <1>1 DEF Moves, Jobs, Idle, JobsOK, JobStates
<1>a. /\ job["mode"].of \in Nat /\ job["mode"].of <= opened
      /\ job["mode"] # Idle => job["mode"].of # 0
      /\ job["flip"].track \in 0..made /\ job["flip"].mic \in 0..made
           /\ job["flip"].cam \in 0..made
      /\ job["flip"] = Idle => job["flip"].at = "idle"
      /\ job["flip"].at \in {"attach", "constrain", "reacquire", "build"} =>
             job["flip"].track # 0 /\ job["flip"] # Idle
      /\ job["flip"].at \in {"prompt", "attach"} => job["flip"].via # 0
           /\ job["flip"] # Idle
      /\ job["flip"] # Idle => job["flip"].cam # 0
  BY <1>1 DEF JobsOK, JobRight, JobStates, Jobs, Idle
<1>3. TracksTypeOK' /\ HeldTypeOK' /\ CallTypeOK'
  <2> USE DEF MediaInv, MediaTypeOK, FlipAttached, Attached, CameraChanges, mediaVars,
          trackVars, captureVars, senderVars, buttonVars, Tracks
  <2>1. TracksTypeOK'
    BY <1>0, <1>a, MediaAssumption DEF TracksTypeOK, HeldTypeOK, GraphInv
  <2>2. HeldTypeOK'
    BY <1>0, <1>a, <1>2 DEF TracksTypeOK, HeldTypeOK, Grows
  <2>3. CallTypeOK'
    <3>1. /\ opened' \in Nat /\ capture' \in 0..opened' /\ senders' \in 0..opened'
          /\ mode' \in {"browser", "rnnoise"}
      BY <1>0 DEF CallTypeOK, Grows
    <3>2. cameraEnabled' \in BOOLEAN /\ told' \in BOOLEAN
      BY DEF CallTypeOK
    <3>3. micOn' \in BOOLEAN /\ deaf' \in BOOLEAN
      BY DEF CallTypeOK
    <3>4. micBefore' \in BOOLEAN
      BY DEF CallTypeOK
    <3>5. strayed' \in BOOLEAN /\ staleFlip' \in BOOLEAN
      BY DEF CallTypeOK
    <3> QED
      BY <3>1, <3>2, <3>3, <3>4, <3>5 DEF CallTypeOK
  <2> QED
    BY <2>1, <2>2, <2>3
<1>4. JobsInv'
  BY <1>2, <1>0
     DEF MediaInv, MediaTypeOK, JobsInv, CallTypeOK, JobsOK, Grows, FlipAttached, Attached,
         CameraChanges, mediaVars, trackVars, captureVars, senderVars, buttonVars
<1>g. GraphInv'
  BY <1>2, <1>a, <1>b, <1>0
     DEF MediaInv, GraphInv, Grows, Waits, FlipAttached, Attached, CameraChanges, mediaVars,
         trackVars, captureVars, senderVars, buttonVars
<1>5. ASSUME ~strayed', ~staleFlip' PROVE MediaSound'
  <2>0. ~strayed /\ ~staleFlip /\ MicInv /\ CamInv /\ DevicesInv
    BY <1>5
       DEF MediaInv, MediaTypeOK, MediaSound, FlipAttached, Attached, CameraChanges,
           mediaVars, trackVars, captureVars, senderVars, buttonVars
  <2>1. MicInv'
    BY <2>0, <1>2, <1>a, <1>b, <1>5
       DEF MediaTypeOK, TracksTypeOK, HeldTypeOK, CallTypeOK, FlipAttached, Attached,
           CameraChanges, mediaVars, trackVars, captureVars, senderVars, buttonVars, Waits,
           MicInv, MediaInv, GraphInv
  <2>2. CamInv'
    BY <2>0, <1>2, <1>a, <1>b, <1>5
       DEF MediaTypeOK, TracksTypeOK, HeldTypeOK, CallTypeOK, FlipAttached, Attached,
           CameraChanges, mediaVars, trackVars, captureVars, senderVars, buttonVars, Waits,
           CamInv, MediaInv
  <2>3. DevicesInv'
    <3>1. /\ UNCHANGED <<raw, capture, feeds, screen>>
          /\ Brings("flip", job["flip"].track) /\ (job["flip"].cam = localCam
               \/ ~Attached("flip"))
      BY <1>5 DEF FlipAttached, CameraChanges, Waits, Brings
    <3>2. \/ /\ localMic' = localMic /\ live' = live \ {localCam}
            /\ localCam' = job["flip"].track
          \/ /\ localMic' = localMic /\ live' = live \ {job["flip"].track}
              /\ localCam' = localCam
      BY <3>1, <1>5 DEF FlipAttached
    <3> QED
      BY <3>1, <3>2, <2>0, <1>b DEF DevicesInv, Held, Brings, Waits
  <2> QED
    BY <2>1, <2>2, <2>3 DEF MediaSound
<1> QED
  BY <1>2, <1>3, <1>4, <1>g, <1>5 DEF MediaInv, MediaTypeOK, JobsOK

LEMMA StartScreenKeeps ==
    ASSUME MediaInv, StartScreen PROVE MediaInv'
<1>0. Grows
  BY MediaAssumption
     DEF Grows, MediaInv, MediaTypeOK, CallTypeOK, TracksTypeOK, StartScreen, NoChange,
         mediaVars, trackVars, captureVars, senderVars, buttonVars
<1>1. JobsOK
  BY DEF MediaInv, MediaTypeOK, JobsInv, JobsOK
<1>2. JobsOK' /\ Moves("screen", [at |-> "prompt", of |-> capture, via |-> senders,
                                mic |-> localMic, cam |-> localCam, track |-> 0])
  <2>1. senders \in 1..opened /\ capture \in 0..opened /\ localMic \in 0..made
          /\ localCam \in 0..made
    BY <1>0
       DEF StartScreen, NoChange, mediaVars, trackVars, captureVars, senderVars, buttonVars,
           MediaInv, MediaTypeOK, CallTypeOK, HeldTypeOK, JobsInv, Grows
  <2>2. "screen" = "flip" => localCam # 0
    BY DEF StartScreen
  <2>3. Start("screen", "prompt") /\ "screen" \in Jobs \ {"mode"}
    BY DEF StartScreen, Jobs
  <2> QED
    BY <1>1, <1>0, <2>1, <2>2, <2>3, JobStarts
<1>b. /\ job'["screen"].at = "prompt" /\ job'["screen"].track = 0 /\ job'["screen"] # Idle
      /\ job'["mode"] = job["mode"] /\ job'["camera"] = job["camera"]
           /\ job'["flip"] = job["flip"]
  BY <1>2, <1>1 DEF Moves, Jobs, Idle, JobsOK, JobStates
<1>a. /\ job["mode"].of \in Nat /\ job["mode"].of <= opened
      /\ job["mode"] # Idle => job["mode"].of # 0
      /\ job["screen"].track \in 0..made /\ job["screen"].mic \in 0..made
           /\ job["screen"].cam \in 0..made
      /\ job["screen"] = Idle => job["screen"].at = "idle"
      /\ job["screen"].at \in {"attach", "constrain", "reacquire", "build"} =>
             job["screen"].track # 0 /\ job["screen"] # Idle
      /\ job["screen"].at \in {"prompt", "attach"} => job["screen"].via # 0
           /\ job["screen"] # Idle
  BY <1>1 DEF JobsOK, JobRight, JobStates, Jobs, Idle
<1>3. TracksTypeOK' /\ HeldTypeOK' /\ CallTypeOK'
  <2> USE DEF MediaInv, MediaTypeOK, StartScreen, NoChange, mediaVars, trackVars,
          captureVars, senderVars, buttonVars, Tracks
  <2>1. TracksTypeOK'
    BY <1>0, <1>a, MediaAssumption DEF TracksTypeOK, HeldTypeOK, GraphInv
  <2>2. HeldTypeOK'
    BY <1>0, <1>a, <1>2 DEF TracksTypeOK, HeldTypeOK, Grows
  <2>3. CallTypeOK'
    <3>1. /\ opened' \in Nat /\ capture' \in 0..opened' /\ senders' \in 0..opened'
          /\ mode' \in {"browser", "rnnoise"}
      BY <1>0 DEF CallTypeOK, Grows
    <3>2. cameraEnabled' \in BOOLEAN /\ told' \in BOOLEAN
      BY DEF CallTypeOK
    <3>3. micOn' \in BOOLEAN /\ deaf' \in BOOLEAN
      BY DEF CallTypeOK
    <3>4. micBefore' \in BOOLEAN
      BY DEF CallTypeOK
    <3>5. strayed' \in BOOLEAN /\ staleFlip' \in BOOLEAN
      BY DEF CallTypeOK
    <3> QED
      BY <3>1, <3>2, <3>3, <3>4, <3>5 DEF CallTypeOK
  <2> QED
    BY <2>1, <2>2, <2>3
<1>4. JobsInv'
  BY <1>2, <1>0
     DEF MediaInv, MediaTypeOK, JobsInv, CallTypeOK, JobsOK, Grows, StartScreen, NoChange,
         mediaVars, trackVars, captureVars, senderVars, buttonVars
<1>g. GraphInv'
  BY <1>2, <1>a, <1>b, <1>0
     DEF MediaInv, GraphInv, Grows, Waits, StartScreen, NoChange, mediaVars, trackVars,
         captureVars, senderVars, buttonVars
<1>5. ASSUME ~strayed', ~staleFlip' PROVE MediaSound'
  <2>0. ~strayed /\ ~staleFlip /\ MicInv /\ CamInv /\ DevicesInv
    BY <1>5
       DEF MediaInv, MediaTypeOK, MediaSound, StartScreen, NoChange, mediaVars, trackVars,
           captureVars, senderVars, buttonVars
  <2>1. MicInv'
    BY <2>0, <1>2, <1>a, <1>b, <1>5
       DEF MediaTypeOK, TracksTypeOK, HeldTypeOK, CallTypeOK, StartScreen, NoChange,
           mediaVars, trackVars, captureVars, senderVars, buttonVars, Waits, MicInv,
           MediaInv, GraphInv
  <2>2. CamInv'
    BY <2>0, <1>2, <1>a, <1>b, <1>5
       DEF MediaTypeOK, TracksTypeOK, HeldTypeOK, CallTypeOK, StartScreen, NoChange,
           mediaVars, trackVars, captureVars, senderVars, buttonVars, Waits, CamInv,
               MediaInv
  <2>3. DevicesInv'
    BY <2>0, <1>2, <1>a, <1>b, <1>5
       DEF MediaTypeOK, TracksTypeOK, HeldTypeOK, CallTypeOK, StartScreen, NoChange,
           mediaVars, trackVars, captureVars, senderVars, buttonVars, Waits, DevicesInv,
           MediaInv, Held, Brings
  <2> QED
    BY <2>1, <2>2, <2>3 DEF MediaSound
<1> QED
  BY <1>2, <1>3, <1>4, <1>g, <1>5 DEF MediaInv, MediaTypeOK, JobsOK

LEMMA ScreenGrantedKeeps ==
    ASSUME MediaInv, ScreenGranted PROVE MediaInv'
<1>0. Grows
  BY MediaAssumption
     DEF Grows, MediaInv, MediaTypeOK, CallTypeOK, TracksTypeOK, ScreenGranted, Captures,
         Attached, mediaVars, trackVars, captureVars, senderVars, buttonVars
<1>1. JobsOK
  BY DEF MediaInv, MediaTypeOK, JobsInv, JobsOK
<1>t. PICK t : t = made' /\ t \in 1..made' /\ Proceed("screen", "attach", t)
  BY <1>0, <1>1
     DEF ScreenGranted, Captures, Attached, mediaVars, trackVars, captureVars, senderVars,
         buttonVars, Jobs, JobsOK, JobRight, Waits, Grows, JobStates
<1>u. job["screen"] # Idle
  BY <1>1 DEF ScreenGranted, Waits, Idle
<1>2. JobsOK' /\ Moves("screen", [job["screen"] EXCEPT !.at = "attach", !.track = t])
  BY <1>1, <1>0, <1>t, <1>u, JobProceeds DEF Jobs
<1>b. /\ job'["screen"].at = "attach" /\ job'["screen"].track = t /\ job'["screen"] # Idle
      /\ job'["screen"].of = job["screen"].of
      /\ job'["mode"] = job["mode"] /\ job'["camera"] = job["camera"]
           /\ job'["flip"] = job["flip"]
  <2>1. job["screen"] \in JobStates
    BY <1>1 DEF JobsOK, Jobs
  <2>2. job'["screen"] = [job["screen"] EXCEPT !.at = "attach", !.track = t]
    BY <1>2 DEF Moves
  <2>3. /\ job'["screen"].at = "attach" /\ job'["screen"].track = t
        /\ job'["screen"].of = job["screen"].of
    BY <2>1, <2>2 DEF JobStates
  <2>4. job'["screen"] # Idle
    BY <2>3 DEF Idle
  <2>5. job'["mode"] = job["mode"] /\ job'["camera"] = job["camera"]
          /\ job'["flip"] = job["flip"]
    BY <1>2 DEF Moves, Jobs
  <2> QED
    BY <2>3, <2>4, <2>5
<1>a. /\ job["mode"].of \in Nat /\ job["mode"].of <= opened
      /\ job["mode"] # Idle => job["mode"].of # 0
      /\ job["screen"].track \in 0..made /\ job["screen"].mic \in 0..made
           /\ job["screen"].cam \in 0..made
      /\ job["screen"] = Idle => job["screen"].at = "idle"
      /\ job["screen"].at \in {"attach", "constrain", "reacquire", "build"} =>
             job["screen"].track # 0 /\ job["screen"] # Idle
      /\ job["screen"].at \in {"prompt", "attach"} => job["screen"].via # 0
           /\ job["screen"] # Idle
  BY <1>1 DEF JobsOK, JobRight, JobStates, Jobs, Idle
<1>3. TracksTypeOK' /\ HeldTypeOK' /\ CallTypeOK'
  <2> USE DEF MediaInv, MediaTypeOK, ScreenGranted, Captures, Attached, mediaVars,
        trackVars,
          captureVars, senderVars, buttonVars, Tracks
  <2>1. TracksTypeOK'
    BY <1>0, <1>a, <1>t, MediaAssumption DEF TracksTypeOK, HeldTypeOK, GraphInv
  <2>2. HeldTypeOK'
    <3>1. UNCHANGED <<raw, graph, localMic, localCam, sentMic, sentCam, sentScreen,
            capture>>
      BY DEF captureVars, senderVars, ScreenGranted
    <3>3. screen' = made'
      BY DEF ScreenGranted, Captures
    <3>2. HeldTypeOK
      OBVIOUS
    <3> HIDE DEF MediaInv, ScreenGranted
    <3> QED
      BY <3>1, <3>2, <3>3, <1>0, <1>t DEF HeldTypeOK, Grows
  <2>3. CallTypeOK'
    <3>1. /\ opened' \in Nat /\ capture' \in 0..opened' /\ senders' \in 0..opened'
          /\ mode' \in {"browser", "rnnoise"}
      BY <1>0 DEF CallTypeOK, Grows
    <3>2. cameraEnabled' \in BOOLEAN /\ told' \in BOOLEAN
      BY DEF CallTypeOK
    <3>3. micOn' \in BOOLEAN /\ deaf' \in BOOLEAN
      BY DEF CallTypeOK
    <3>4. micBefore' \in BOOLEAN
      BY DEF CallTypeOK
    <3>5. strayed' \in BOOLEAN /\ staleFlip' \in BOOLEAN
      BY DEF CallTypeOK
    <3> QED
      BY <3>1, <3>2, <3>3, <3>4, <3>5 DEF CallTypeOK
  <2> QED
    BY <2>1, <2>2, <2>3
<1>4. JobsInv'
  BY <1>2, <1>0
     DEF MediaInv, MediaTypeOK, JobsInv, CallTypeOK, JobsOK, Grows, ScreenGranted, Captures,
         Attached, mediaVars, trackVars, captureVars, senderVars, buttonVars
<1>g. GraphInv'
  BY <1>2, <1>a, <1>b, <1>t, <1>0
     DEF MediaInv, GraphInv, Grows, Waits, ScreenGranted, Captures, Attached, mediaVars,
         trackVars, captureVars, senderVars, buttonVars
<1>5. ASSUME ~strayed', ~staleFlip' PROVE MediaSound'
  <2>0. ~strayed /\ ~staleFlip /\ MicInv /\ CamInv /\ DevicesInv
    BY <1>5
       DEF MediaInv, MediaTypeOK, MediaSound, ScreenGranted, Captures, Attached, mediaVars,
           trackVars, captureVars, senderVars, buttonVars
  <2>1. MicInv'
    BY <2>0, <1>2, <1>a, <1>t, <1>b, <1>5
       DEF MediaTypeOK, TracksTypeOK, HeldTypeOK, CallTypeOK, ScreenGranted, Captures,
           Attached, mediaVars, trackVars, captureVars, senderVars, buttonVars, Waits,
           MicInv, MediaInv, GraphInv
  <2>2. CamInv'
    BY <2>0, <1>2, <1>a, <1>t, <1>b, <1>5
       DEF MediaTypeOK, TracksTypeOK, HeldTypeOK, CallTypeOK, ScreenGranted, Captures,
           Attached, mediaVars, trackVars, captureVars, senderVars, buttonVars, Waits,
           CamInv, MediaInv
  <2>3. DevicesInv'
    <3>1. /\ live' = live \cup {t} /\ screen' = t /\ feeds' = feeds /\ t = made'
               /\ made' # 0
          /\ screen = 0 /\ Waits("screen", "prompt")
      BY <1>t, <1>0, <2>0 DEF ScreenGranted, Captures, DevicesInv, Grows
    <3>2. capture # 0
      BY <1>5, <1>a, <1>4, <3>1 DEF ScreenGranted, Attached, Waits, MediaInv, JobsInv
    <3>3. UNCHANGED <<raw, localMic, localCam, capture>> /\ screen' # 0
      BY <3>1 DEF ScreenGranted, captureVars
    <3>4. 0 \notin live
      BY DEF MediaInv, MediaTypeOK, TracksTypeOK
    <3> QED
      BY <3>4, <3>1, <3>2, <3>3, <2>0, <1>b DEF DevicesInv, Held, Brings, Waits
  <2> QED
    BY <2>1, <2>2, <2>3 DEF MediaSound
<1> QED
  BY <1>2, <1>3, <1>4, <1>g, <1>5 DEF MediaInv, MediaTypeOK, JobsOK

LEMMA ScreenAttachedKeeps ==
    ASSUME MediaInv, ScreenAttached PROVE MediaInv'
<1>0. Grows
  BY MediaAssumption
     DEF Grows, MediaInv, MediaTypeOK, CallTypeOK, TracksTypeOK, ScreenAttached, Attached,
         mediaVars, trackVars, captureVars, senderVars, buttonVars
<1>1. JobsOK
  BY DEF MediaInv, MediaTypeOK, JobsInv, JobsOK
<1>2. JobsOK' /\ Moves("screen", Idle)
  BY <1>1, <1>0, JobEnds
     DEF ScreenAttached, Attached, mediaVars, trackVars, captureVars, senderVars,
         buttonVars,
         Jobs
<1>b. /\ job'["screen"].at = "idle" /\ job'["screen"].track = 0 /\ job'["screen"] = Idle
      /\ job'["mode"] = job["mode"] /\ job'["camera"] = job["camera"]
           /\ job'["flip"] = job["flip"]
  BY <1>2, <1>1 DEF Moves, Jobs, Idle, JobsOK, JobStates
<1>a. /\ job["mode"].of \in Nat /\ job["mode"].of <= opened
      /\ job["mode"] # Idle => job["mode"].of # 0
      /\ job["screen"].track \in 0..made /\ job["screen"].mic \in 0..made
           /\ job["screen"].cam \in 0..made
      /\ job["screen"] = Idle => job["screen"].at = "idle"
      /\ job["screen"].at \in {"attach", "constrain", "reacquire", "build"} =>
             job["screen"].track # 0 /\ job["screen"] # Idle
      /\ job["screen"].at \in {"prompt", "attach"} => job["screen"].via # 0
           /\ job["screen"] # Idle
  BY <1>1 DEF JobsOK, JobRight, JobStates, Jobs, Idle
<1>3. TracksTypeOK' /\ HeldTypeOK' /\ CallTypeOK'
  <2> USE DEF MediaInv, MediaTypeOK, ScreenAttached, Attached, mediaVars, trackVars,
          captureVars, senderVars, buttonVars, Tracks
  <2>1. TracksTypeOK'
    BY <1>0, <1>a, MediaAssumption DEF TracksTypeOK, HeldTypeOK, GraphInv
  <2>2. HeldTypeOK'
    BY <1>0, <1>a, <1>2 DEF TracksTypeOK, HeldTypeOK, Grows
  <2>3. CallTypeOK'
    <3>1. /\ opened' \in Nat /\ capture' \in 0..opened' /\ senders' \in 0..opened'
          /\ mode' \in {"browser", "rnnoise"}
      BY <1>0 DEF CallTypeOK, Grows
    <3>2. cameraEnabled' \in BOOLEAN /\ told' \in BOOLEAN
      BY DEF CallTypeOK
    <3>3. micOn' \in BOOLEAN /\ deaf' \in BOOLEAN
      BY DEF CallTypeOK
    <3>4. micBefore' \in BOOLEAN
      BY DEF CallTypeOK
    <3>5. strayed' \in BOOLEAN /\ staleFlip' \in BOOLEAN
      BY DEF CallTypeOK
    <3> QED
      BY <3>1, <3>2, <3>3, <3>4, <3>5 DEF CallTypeOK
  <2> QED
    BY <2>1, <2>2, <2>3
<1>4. JobsInv'
  BY <1>2, <1>0
     DEF MediaInv, MediaTypeOK, JobsInv, CallTypeOK, JobsOK, Grows, ScreenAttached,
         Attached,
         mediaVars, trackVars, captureVars, senderVars, buttonVars
<1>g. GraphInv'
  BY <1>2, <1>a, <1>b, <1>0
     DEF MediaInv, GraphInv, Grows, Waits, ScreenAttached, Attached, mediaVars, trackVars,
         captureVars, senderVars, buttonVars
<1>5. ASSUME ~strayed', ~staleFlip' PROVE MediaSound'
  <2>0. ~strayed /\ ~staleFlip /\ MicInv /\ CamInv /\ DevicesInv
    BY <1>5
       DEF MediaInv, MediaTypeOK, MediaSound, ScreenAttached, Attached, mediaVars,
           trackVars,
           captureVars, senderVars, buttonVars
  <2>1. MicInv'
    BY <2>0, <1>2, <1>a, <1>b, <1>5
       DEF MediaTypeOK, TracksTypeOK, HeldTypeOK, CallTypeOK, ScreenAttached, Attached,
           mediaVars, trackVars, captureVars, senderVars, buttonVars, Waits, MicInv,
           MediaInv, GraphInv
  <2>2. CamInv'
    BY <2>0, <1>2, <1>a, <1>b, <1>5
       DEF MediaTypeOK, TracksTypeOK, HeldTypeOK, CallTypeOK, ScreenAttached, Attached,
           mediaVars, trackVars, captureVars, senderVars, buttonVars, Waits, CamInv,
               MediaInv
  <2>3. DevicesInv'
    BY <2>0, <1>2, <1>a, <1>b, <1>5
       DEF MediaTypeOK, TracksTypeOK, HeldTypeOK, CallTypeOK, ScreenAttached, Attached,
           mediaVars, trackVars, captureVars, senderVars, buttonVars, Waits, DevicesInv,
           MediaInv, Held, Brings
  <2> QED
    BY <2>1, <2>2, <2>3 DEF MediaSound
<1> QED
  BY <1>2, <1>3, <1>4, <1>g, <1>5 DEF MediaInv, MediaTypeOK, JobsOK

LEMMA StopScreenKeeps ==
    ASSUME MediaInv, StopScreen PROVE MediaInv'
<1>0. Grows
  BY MediaAssumption
     DEF Grows, MediaInv, MediaTypeOK, CallTypeOK, TracksTypeOK, StopScreen, mediaVars,
         trackVars, captureVars, senderVars, buttonVars
<1>1. JobsOK
  BY DEF MediaInv, MediaTypeOK, JobsInv, JobsOK
<1>2. JobsOK' /\ UNCHANGED job
  BY <1>1, <1>0, JobsStay
     DEF StopScreen, mediaVars, trackVars, captureVars, senderVars, buttonVars
<1>a. /\ job["mode"].of \in Nat /\ job["mode"].of <= opened
      /\ job["mode"] # Idle => job["mode"].of # 0
  BY <1>1 DEF JobsOK, JobRight, JobStates, Jobs
<1>3. TracksTypeOK' /\ HeldTypeOK' /\ CallTypeOK'
  <2> USE DEF MediaInv, MediaTypeOK, StopScreen, mediaVars, trackVars, captureVars,
          senderVars, buttonVars, Tracks
  <2>1. TracksTypeOK'
    BY <1>0, <1>a, MediaAssumption DEF TracksTypeOK, HeldTypeOK, GraphInv
  <2>2. HeldTypeOK'
    BY <1>0, <1>a, <1>2 DEF TracksTypeOK, HeldTypeOK, Grows
  <2>3. CallTypeOK'
    <3>1. /\ opened' \in Nat /\ capture' \in 0..opened' /\ senders' \in 0..opened'
          /\ mode' \in {"browser", "rnnoise"}
      BY <1>0 DEF CallTypeOK, Grows
    <3>2. cameraEnabled' \in BOOLEAN /\ told' \in BOOLEAN
      BY DEF CallTypeOK
    <3>3. micOn' \in BOOLEAN /\ deaf' \in BOOLEAN
      BY DEF CallTypeOK
    <3>4. micBefore' \in BOOLEAN
      BY DEF CallTypeOK
    <3>5. strayed' \in BOOLEAN /\ staleFlip' \in BOOLEAN
      BY DEF CallTypeOK
    <3> QED
      BY <3>1, <3>2, <3>3, <3>4, <3>5 DEF CallTypeOK
  <2> QED
    BY <2>1, <2>2, <2>3
<1>4. JobsInv'
  BY <1>2, <1>0
     DEF MediaInv, MediaTypeOK, JobsInv, CallTypeOK, JobsOK, Grows, StopScreen, mediaVars,
         trackVars, captureVars, senderVars, buttonVars
<1>g. GraphInv'
  BY <1>2, <1>a, <1>0
     DEF MediaInv, GraphInv, Grows, Waits, StopScreen, mediaVars, trackVars, captureVars,
         senderVars, buttonVars
<1>5. ASSUME ~strayed', ~staleFlip' PROVE MediaSound'
  <2>0. ~strayed /\ ~staleFlip /\ MicInv /\ CamInv /\ DevicesInv
    BY <1>5
       DEF MediaInv, MediaTypeOK, MediaSound, StopScreen, mediaVars, trackVars, captureVars,
           senderVars, buttonVars
  <2>1. MicInv'
    BY <2>0, <1>2, <1>a, <1>5
       DEF MediaTypeOK, TracksTypeOK, HeldTypeOK, CallTypeOK, StopScreen, mediaVars,
           trackVars, captureVars, senderVars, buttonVars, Waits, MicInv, MediaInv, GraphInv
  <2>2. CamInv'
    BY <2>0, <1>2, <1>a, <1>5
       DEF MediaTypeOK, TracksTypeOK, HeldTypeOK, CallTypeOK, StopScreen, mediaVars,
           trackVars, captureVars, senderVars, buttonVars, Waits, CamInv, MediaInv
  <2>3. DevicesInv'
    BY <2>0, <1>2, <1>a, <1>5
       DEF MediaTypeOK, TracksTypeOK, HeldTypeOK, CallTypeOK, StopScreen, mediaVars,
           trackVars, captureVars, senderVars, buttonVars, Waits, DevicesInv, MediaInv,
               Held,
           Brings
  <2> QED
    BY <2>1, <2>2, <2>3 DEF MediaSound
<1> QED
  BY <1>2, <1>3, <1>4, <1>g, <1>5 DEF MediaInv, MediaTypeOK, JobsOK

LEMMA DeclinedKeeps ==
    ASSUME MediaInv, NEW j \in Jobs, Declined(j) PROVE MediaInv'
<1>1. JobsOK
  BY DEF MediaInv, MediaTypeOK, JobsInv, JobsOK
<1>2. /\ UNCHANGED <<trackVars, captureVars, senderVars, screen, cameraEnabled, buttonVars,
                     strayed, staleFlip>>
      /\ End(j) /\ job[j].at = "prompt"
  BY DEF Declined, NoChange, Waits
<1>3. Grows
  BY <1>2, MediaAssumption
     DEF Grows, MediaInv, MediaTypeOK, CallTypeOK, TracksTypeOK, trackVars, senderVars
<1>4. JobsOK' /\ Moves(j, Idle)
  BY <1>1, <1>2, <1>3, JobEnds
<1>5. j # "mode"
  BY <1>1, <1>2 DEF JobsOK, JobRight, Idle
<1>6. /\ job'["mode"] = job["mode"]
      /\ \A k \in {"camera", "flip", "screen"} : job'[k] = job[k]
           \/ (job[k].at = "prompt" /\ job'[k] = Idle)
  BY <1>2, <1>4, <1>5 DEF Moves, Jobs
<1>7. TracksTypeOK' /\ HeldTypeOK' /\ CallTypeOK' /\ (capture' = 0 <=> senders' = 0)
  BY <1>2
     DEF MediaInv, MediaTypeOK, JobsInv, TracksTypeOK, HeldTypeOK, CallTypeOK, trackVars,
         captureVars, senderVars, buttonVars
<1>8. GraphInv'
  BY <1>2, <1>6 DEF MediaInv, GraphInv, captureVars
<1>9. ASSUME ~strayed', ~staleFlip' PROVE MediaSound'
  <2>1. MicInv /\ CamInv /\ DevicesInv
    BY <1>2, <1>9 DEF MediaInv, MediaSound
  <2>2. MicInv'
    BY <1>2, <2>1 DEF MicInv, captureVars, senderVars, trackVars, buttonVars
  <2>3. CamInv'
    BY <1>2, <1>6, <2>1 DEF CamInv, captureVars, senderVars
  <2>4. DevicesInv'
    BY <1>2, <1>6, <2>1 DEF DevicesInv, Held, Brings, Waits, Idle, captureVars, trackVars
  <2> QED
    BY <2>2, <2>3, <2>4 DEF MediaSound
<1> QED
  BY <1>4, <1>7, <1>8, <1>9 DEF MediaInv, MediaTypeOK, JobsInv, JobsOK

LEMMA MediaIdles ==
    ASSUME MediaInv, UNCHANGED mediaVars PROVE MediaInv'
  BY DEF MediaInv, MediaTypeOK, TracksTypeOK, HeldTypeOK, CallTypeOK, JobsInv, JobRight,
         GraphInv,
         MediaSound, MicInv, CamInv, DevicesInv, Held, Brings, Waits,
         mediaVars, trackVars, captureVars, senderVars, buttonVars

LEMMA MediaStarts ==
    MediaInit => MediaInv
<1> SUFFICES ASSUME MediaInit PROVE MediaInv
  OBVIOUS
<1>1. Idle \in JobStates /\ Idle.at = "idle"
  BY DEF Idle, JobStates
<1>2. job \in [Jobs -> JobStates] /\ \A j \in Jobs : job[j] = Idle
  BY <1>1 DEF MediaInit
<1>3. TracksTypeOK
  BY MediaAssumption DEF MediaInit, TracksTypeOK, Tracks
<1>4. HeldTypeOK /\ CallTypeOK
  <2>1. HeldTypeOK
    BY DEF MediaInit, HeldTypeOK
  <2>2. micOn \in BOOLEAN /\ deaf \in BOOLEAN /\ micBefore \in BOOLEAN
    BY DEF MediaInit
  <2>3. /\ cameraEnabled \in BOOLEAN /\ told \in BOOLEAN
        /\ strayed \in BOOLEAN /\ staleFlip \in BOOLEAN
    BY DEF MediaInit
  <2>4. /\ opened \in Nat /\ capture \in 0..opened /\ senders \in 0..opened
        /\ mode \in {"browser", "rnnoise"}
    BY DEF MediaInit
  <2> QED
    BY <2>1, <2>2, <2>3, <2>4 DEF CallTypeOK
<1>5. JobsInv
  BY <1>2 DEF MediaInit, JobsInv, JobRight, Idle
<1>6. GraphInv /\ MicInv /\ CamInv
  BY <1>2 DEF MediaInit, GraphInv, MicInv, CamInv, Jobs
<1>7. DevicesInv
  BY DEF MediaInit, DevicesInv
<1> QED
  BY <1>2, <1>3, <1>4, <1>5, <1>6, <1>7 DEF MediaInv, MediaTypeOK, MediaSound

(* What is captured in a call is held by the call or by the job that waits *)
(* with it, and what is sent and told follows what is held, through every  *)
(* interleaving of the four async calls with joins, leaves and rejoins.    *)
THEOREM MediaInvHolds == MediaSpec => []MediaInv
<1>1. MediaInv /\ [MediaNext]_mediaVars => MediaInv'
  <2> SUFFICES ASSUME MediaInv, [MediaNext]_mediaVars PROVE MediaInv'
    OBVIOUS
  <2>1. ASSUME NEW j \in Jobs, Declined(j) PROVE MediaInv'
    BY <2>1, DeclinedKeeps
  <2>2. CASE UNCHANGED mediaVars
    BY <2>2, MediaIdles
  <2>3. CASE JoinCall \/ LeaveCall \/ RejoinCall \/ ToggleMicrophone \/ ToggleDeafen
    BY <2>3, JoinCallKeeps, LeaveCallKeeps, RejoinCallKeeps, ToggleMicrophoneKeeps,
       ToggleDeafenKeeps
  <2>4. CASE StartMode \/ ModeConstrained \/ ModeRefused \/ ModeReacquired \/ ModeBuilt
          \/ Watchdog
    BY <2>4, StartModeKeeps, ModeConstrainedKeeps, ModeRefusedKeeps, ModeReacquiredKeeps,
       ModeBuiltKeeps, WatchdogKeeps
  <2>5. CASE StartCamera \/ CameraGranted \/ CameraAttached \/ StopCamera
    BY <2>5, StartCameraKeeps, CameraGrantedKeeps, CameraAttachedKeeps, StopCameraKeeps
  <2>6. CASE StartFlip \/ FlipGranted \/ FlipAttached
    BY <2>6, StartFlipKeeps, FlipGrantedKeeps, FlipAttachedKeeps
  <2>7. CASE StartScreen \/ ScreenGranted \/ ScreenAttached \/ StopScreen
    BY <2>7, StartScreenKeeps, ScreenGrantedKeeps, ScreenAttachedKeeps, StopScreenKeeps
  <2> QED
    BY <2>1, <2>2, <2>3, <2>4, <2>5, <2>6, <2>7 DEF MediaNext
<1> QED
  BY MediaStarts, <1>1, PTL DEF MediaSpec

(* Who is shown as muted is not heard: the track that is sent is the one   *)
(* the buttons mute.                                                       *)
THEOREM AMutedMicrophoneIsSilent == MediaSpec => []MutedIsSilent
<1>1. MediaInv => MutedIsSilent
  BY DEF MediaInv, MediaSound, MicInv, MutedIsSilent, Heard
<1> QED
  BY <1>1, MediaInvHolds, PTL

(* A left call leaves no device open, and the server believes of the       *)
(* camera what is the case.                                                *)
THEOREM DevicesFollowTheCall == MediaSpec => []DevicesFollow
<1>1. MediaInv => DevicesReleased
  <2> SUFFICES ASSUME MediaInv, capture = 0, \A j \in Jobs : job[j] = Idle, ~strayed,
                        ~staleFlip,
                      NEW t \in live, feeds[t] = 0
               PROVE  FALSE
    BY DEF DevicesReleased
  <2>1. GraphInv /\ MicInv /\ CamInv /\ DevicesInv /\ TracksTypeOK
    BY DEF MediaInv, MediaSound, MediaTypeOK
  <2>2. raw = 0 /\ localMic = 0 /\ localCam = 0 /\ screen = 0 /\ t # 0
    BY <2>1 DEF GraphInv, MicInv, CamInv, DevicesInv, TracksTypeOK
  <2>3. ~Brings("camera", t) /\ ~Brings("flip", t)
    BY DEF Brings, Waits, Idle, Jobs
  <2> QED
    BY <2>1, <2>2, <2>3 DEF DevicesInv, Held
<1>2. MediaInv => AnnouncedIsTrue
  BY DEF MediaInv, MediaSound, CamInv, AnnouncedIsTrue
<1> QED
  BY <1>1, <1>2, MediaInvHolds, PTL DEF DevicesFollow

-----------------------------------------------------------------------------
(* The player                                                              *)

PlayerSpec == PlayerInit /\ [][PlayerNext]_playerVars

(* The graph has taken over from the element, for good, as soon as boost   *)
(* or an effect needed it; an element that was muted then stays muted.     *)
LoudInv ==
    /\ volume \in 0..2 /\ boost \in 1..2 /\ muted \in BOOLEAN
         /\ extras \subseteq {"equalizer", "visualizer"}
    /\ routed \in BOOLEAN /\ elMuted \in BOOLEAN /\ mutedFirst \in BOOLEAN
    /\ routed => /\ elVolume = 2 /\ gain = (IF muted THEN 0 ELSE volume * boost)
                 /\ elMuted <=> mutedFirst
    /\ ~routed => /\ elVolume = volume /\ (elMuted <=> muted)
                  /\ boost = 1 /\ extras = {} /\ ~mutedFirst

(* A shuffled order has no track twice, and the current track in it.       *)
ShuffleInv ==
    /\ order \in Seq(0..queue - 1)
    /\ \A p, q \in DOMAIN order : p # q => order[p] # order[q]
    /\ shuffled /\ Len(order) = queue => \E p \in 1..queue : order[p] = index

TrackInv ==
    /\ queue \in Nat \ {0} /\ index \in 0..queue - 1
    /\ shuffled \in BOOLEAN /\ loopMode \in {"off", "all", "one"} /\ playing \in BOOLEAN
    /\ position \in {"start", "late", "end"}
    /\ ShuffleInv /\ EndIsHandled

PlayerInv == LoudInv /\ TrackInv

LEMMA SetsLoudness ==
    ASSUME LoudInv, NEW v \in 0..2, NEW b \in 1..2, NEW m \in BOOLEAN,
           NEW fx \in SUBSET {"equalizer", "visualizer"}, SetLoudness(v, b, m, fx)
    PROVE  LoudInv'
<1>1. volume' = v /\ boost' = b /\ muted' = m /\ extras' = fx
  BY DEF SetLoudness
<1>2. CASE <<v, b, m, fx>> = <<volume, boost, muted, extras>>
  <2>1. v = volume /\ b = boost /\ m = muted /\ fx = extras
    BY <1>2
  <2>2. UNCHANGED <<routed, elVolume, elMuted, gain, mutedFirst>>
    BY <1>2 DEF SetLoudness
  <2> QED
    BY <1>1, <2>1, <2>2 DEF LoudInv
<1>3. CASE <<v, b, m, fx>> # <<volume, boost, muted, extras>>
  <2>1. ApplyVolume(v, b, m, fx)
    BY <1>3 DEF SetLoudness
  <2>2. CASE routed \/ b > 1 \/ fx # {}
    <3>1. /\ routed' = TRUE /\ elVolume' = 2 /\ gain' = (IF m THEN 0 ELSE v * b)
          /\ mutedFirst' = (mutedFirst \/ (~routed /\ elMuted)) /\ elMuted' = elMuted
      BY <2>1, <2>2 DEF ApplyVolume
    <3>2. mutedFirst' \in BOOLEAN /\ elMuted' \in BOOLEAN /\ (elMuted' <=> mutedFirst')
      BY <3>1 DEF LoudInv
    <3> QED
      BY <1>1, <3>1, <3>2 DEF LoudInv
  <2>3. CASE ~(routed \/ b > 1 \/ fx # {})
    <3>1. elVolume' = v /\ elMuted' = m /\ UNCHANGED <<routed, gain, mutedFirst>>
      BY <2>1, <2>3 DEF ApplyVolume
    <3>2. ~routed /\ b = 1 /\ fx = {}
      BY <2>3
    <3> QED
      BY <1>1, <3>1, <3>2 DEF LoudInv
  <2> QED
    BY <2>2, <2>3
<1> QED
  BY <1>2, <1>3

LEMMA LoudKeeps ==
    ASSUME PlayerInv, NEW v \in 0..2, NEW b \in 1..2, NEW m \in BOOLEAN,
           NEW fx \in SUBSET {"equalizer", "visualizer"}, SetLoudness(v, b, m, fx)
    PROVE  PlayerInv'
<1>1. LoudInv'
  BY SetsLoudness DEF PlayerInv
<1>2. UNCHANGED trackVarsOfPlayer
  BY DEF SetLoudness
<1> QED
  BY <1>1, <1>2 DEF PlayerInv, TrackInv, ShuffleInv, EndIsHandled, trackVarsOfPlayer

(* The order in use: no track twice, the current one in it.                *)
LEMMA OrderInUse ==
    ASSUME TrackInv
    PROVE  /\ ActiveOrder \in [1..queue -> 0..queue - 1]
           /\ \A p, q \in 1..queue : p # q => ActiveOrder[p] # ActiveOrder[q]
           /\ Place(index) \in 1..queue /\ ActiveOrder[Place(index)] = index
<1>1. CASE shuffled /\ Len(order) = queue
  <2>1. ActiveOrder = order /\ DOMAIN order = 1..queue
    BY <1>1 DEF ActiveOrder, TrackInv, ShuffleInv
  <2>2. order \in [1..queue -> 0..queue - 1]
    BY <1>1 DEF TrackInv, ShuffleInv
  <2>3. \E p \in 1..queue : ActiveOrder[p] = index
    BY <1>1, <2>1 DEF TrackInv, ShuffleInv
  <2>4. Place(index) \in 1..queue /\ ActiveOrder[Place(index)] = index
    BY <2>3 DEF Place
  <2> QED
    BY <2>1, <2>2, <2>4 DEF TrackInv, ShuffleInv
<1>2. CASE ~(shuffled /\ Len(order) = queue)
  <2>1. ActiveOrder = Straight
    BY <1>2 DEF ActiveOrder
  <2>2. /\ Straight \in [1..queue -> 0..queue - 1]
        /\ \A p \in 1..queue : Straight[p] = p - 1
    BY DEF Straight, TrackInv
  <2>3. index + 1 \in 1..queue /\ Straight[index + 1] = index
    BY <2>2 DEF TrackInv
  <2>4. \E p \in 1..queue : ActiveOrder[p] = index
    BY <2>1, <2>3
  <2>5. Place(index) \in 1..queue /\ ActiveOrder[Place(index)] = index
    BY <2>4 DEF Place
  <2>6. \A p, q \in 1..queue : p # q => Straight[p] # Straight[q]
    BY <2>2 DEF TrackInv
  <2> QED
    BY <2>1, <2>2, <2>5, <2>6
<1> QED
  BY <1>1, <1>2

(* The next track is none, or one of the list and another one, unless the  *)
(* list has one track; the one before too.                                 *)
LEMMA NextIndexes ==
    ASSUME TrackInv, NEW i \in {GetNextIndex, GetPreviousIndex}, i # Stop
    PROVE  /\ i \in 0..queue - 1 /\ \E p \in 1..queue : ActiveOrder[p] = i
           /\ queue # 1 => i # index
<1> DEFINE at == Place(index)
<1>1. /\ ActiveOrder \in [1..queue -> 0..queue - 1]
      /\ \A p, q \in 1..queue : p # q => ActiveOrder[p] # ActiveOrder[q]
      /\ at \in 1..queue /\ ActiveOrder[at] = index /\ queue \in Nat \ {0}
  BY OrderInUse DEF TrackInv
<1>2. \/ at < queue /\ i = ActiveOrder[at + 1]
      \/ at = queue /\ i = ActiveOrder[1]
      \/ at > 1 /\ i = ActiveOrder[at - 1]
      \/ at = 1 /\ i = ActiveOrder[queue]
  <2> HIDE DEF at
  <2>1. CASE i = GetNextIndex
    BY <2>1, <1>1 DEF GetNextIndex, at
  <2>2. CASE i = GetPreviousIndex
    BY <2>2, <1>1 DEF GetPreviousIndex, at
  <2> QED
    BY <2>1, <2>2
<1>3. PICK p \in 1..queue : i = ActiveOrder[p] /\ (queue # 1 => p # at)
  <2> HIDE DEF at
  <2>1. CASE at < queue /\ i = ActiveOrder[at + 1]
    <3>1. at + 1 \in 1..queue /\ at + 1 # at
      BY <2>1, <1>1
    <3> QED
      BY <3>1, <2>1
  <2>2. CASE at = queue /\ i = ActiveOrder[1]
    BY <2>2, <1>1
  <2>3. CASE at > 1 /\ i = ActiveOrder[at - 1]
    <3>1. at - 1 \in 1..queue /\ at - 1 # at
      BY <2>3, <1>1
    <3> QED
      BY <3>1, <2>3
  <2>4. CASE at = 1 /\ i = ActiveOrder[queue]
    BY <2>4, <1>1
  <2> QED
    BY <1>2, <2>1, <2>2, <2>3, <2>4
<1> HIDE DEF at
<1> QED
  BY <1>1, <1>3

(* A step of the player's own that ends on a track of the list, or none.   *)
Plays ==
    /\ UNCHANGED <<queue, order, shuffled, loopMode>>
    /\ playing' \in BOOLEAN /\ position' \in {"start", "late", "end"}
    /\ index' \in 0..queue - 1
    /\ index' = index \/ \E p \in 1..queue : ActiveOrder[p] = index'

LEMMA PlaysKeeps ==
    ASSUME PlayerInv, UNCHANGED loudVars, Plays, EndIsHandled'
    PROVE  PlayerInv'
<1>1. LoudInv'
  BY DEF PlayerInv, LoudInv, loudVars
<1>2. ShuffleInv'
  <2>1. ShuffleInv /\ UNCHANGED <<queue, order, shuffled>>
    BY DEF PlayerInv, TrackInv, Plays
  <2>2. shuffled /\ Len(order) = queue => \E p \in 1..queue : order[p] = index'
    <3> SUFFICES ASSUME shuffled,
                          Len(order) = queue PROVE \E p \in 1..queue : order[p] = index'
      OBVIOUS
    <3>1. ActiveOrder = order
      BY DEF ActiveOrder
    <3>2. CASE index' = index
      BY <3>2, <2>1 DEF ShuffleInv
    <3>3. CASE \E p \in 1..queue : ActiveOrder[p] = index'
      BY <3>1, <3>3
    <3> QED
      BY <3>2, <3>3 DEF Plays
  <2> QED
    BY <2>1, <2>2 DEF ShuffleInv
<1> QED
  BY <1>1, <1>2 DEF PlayerInv, TrackInv, Plays

LEMMA NextPlays ==
    ASSUME PlayerInv, NextTrack, SameList
    PROVE  Plays /\ (position' # "end" \/ (queue = 1 /\ UNCHANGED <<playing, position>>))
<1>1. TrackInv
  BY DEF PlayerInv
<1>2. CASE GetNextIndex = Stop
  BY <1>1, <1>2 DEF NextTrack, StopPlaying, SameList, Plays, TrackInv
<1>3. CASE GetNextIndex # Stop
  <2>1. PICK i : i = GetNextIndex
    OBVIOUS
  <2>2. i \in 0..queue - 1 /\ \E p \in 1..queue : ActiveOrder[p] = i
    BY <1>1, <1>3, <2>1, NextIndexes
  <2>3. PlayTrackAt(i)
    BY <1>3, <2>1 DEF NextTrack
  <2>4. i = index => queue = 1
    BY <1>1, <1>3, <2>1, NextIndexes
  <2> QED
    BY <1>1, <2>2, <2>3, <2>4 DEF PlayTrackAt, SameList, Plays, TrackInv
<1> QED
  BY <1>2, <1>3

(* play() may start the track, which is from the list.                     *)
LEMMA PlaysAnother ==
    ASSUME PlayerInv, NEW i \in {GetNextIndex, GetPreviousIndex}, i # Stop,
           PlayTrackAt(i), SameList
    PROVE  Plays /\ (position' # "end" \/ (queue = 1 /\ UNCHANGED <<playing, position>>))
<1>1. TrackInv
  BY DEF PlayerInv
<1>2. i \in 0..queue - 1 /\ (\E p \in 1..queue : ActiveOrder[p] = i) /\ (i = index
        => queue = 1)
  BY <1>1, NextIndexes
<1> QED
  BY <1>1, <1>2 DEF PlayTrackAt, SameList, Plays, TrackInv

LEMMA ButtonsKeep ==
    ASSUME PlayerInv,
           \/ PressNext \/ PressStop \/ PressPrevious \/ TogglePlay
           \/ \E to \in {"start", "late"} : Seek(to)
           \/ PlaysOn \/ Ended
    PROVE  PlayerInv'
<1>1. TrackInv /\ EndIsHandled
  BY DEF PlayerInv, TrackInv
<1>2. UNCHANGED loudVars
  BY DEF PressNext, PressStop, PressPrevious, TogglePlay, Seek, PlaysOn, Ended, SameList
<1>3. UNCHANGED <<queue, order, shuffled, loopMode>> /\ SameList
  BY DEF PressNext, PressStop, PressPrevious, TogglePlay, Seek, PlaysOn, Ended, SameList
<1>4. Plays /\ EndIsHandled'
  <2>1. CASE PressNext
    BY <2>1, <1>1, <1>3, NextPlays DEF PressNext, EndIsHandled
  <2>2. CASE PressStop
    BY <2>2, <1>1, <1>3 DEF PressStop, StopPlaying, Plays, TrackInv, EndIsHandled
  <2>3. CASE PressPrevious
    <3>1. CASE position # "start"
      BY <2>3, <3>1, <1>1, <1>3 DEF PressPrevious, Plays, TrackInv, EndIsHandled
    <3>2. CASE position = "start" /\ GetPreviousIndex = Stop
      BY <2>3, <3>2, <1>1, <1>3 DEF PressPrevious, Plays, TrackInv, EndIsHandled
    <3>3. CASE position = "start" /\ GetPreviousIndex # Stop
      <4>1. PICK i : i = GetPreviousIndex
        OBVIOUS
      <4>2. PlayTrackAt(i)
        BY <2>3, <3>3, <4>1 DEF PressPrevious
      <4>3. Plays /\ (position' # "end" \/ (queue = 1 /\ UNCHANGED <<playing, position>>))
        BY <1>3, <3>3, <4>1, <4>2, PlaysAnother
      <4> QED
        BY <4>3, <1>1, <1>3 DEF EndIsHandled
    <3> QED
      BY <3>1, <3>2, <3>3
  <2>4. CASE TogglePlay
    <3>1. playing' = ~playing /\ playing' \in BOOLEAN /\ index' = index
      BY <2>4, <1>1 DEF TogglePlay, TrackInv
    <3>2. position' = (IF position = "end" /\ ~playing THEN "start" ELSE position)
      BY <2>4 DEF TogglePlay
    <3>3. position' # "end"
      BY <3>2, <1>1 DEF EndIsHandled
    <3> QED
      BY <3>1, <3>2, <3>3, <1>1, <1>3 DEF Plays, TrackInv, EndIsHandled
  <2>5. CASE \E to \in {"start", "late"} : Seek(to)
    BY <2>5, <1>1, <1>3 DEF Seek, Plays, TrackInv, EndIsHandled
  <2>6. CASE PlaysOn
    BY <2>6, <1>1, <1>3 DEF PlaysOn, Plays, TrackInv, EndIsHandled
  <2>7. CASE Ended
    <3>1. CASE loopMode = "one"
      BY <2>7, <3>1, <1>1, <1>3 DEF Ended, TrackEnds, Plays, TrackInv, EndIsHandled
    <3>2. CASE loopMode # "one" /\ GetNextIndex = index
      <4>1. playing' = FALSE /\ position' = "end" /\ index' = index
        BY <2>7, <3>2 DEF Ended, TrackEnds
      <4>2. index # Stop
        BY <1>1 DEF TrackInv, Stop
      <4>3. PICK i : i = GetNextIndex
        OBVIOUS
      <4>4. queue = 1
        BY <1>1, <3>2, <4>2, <4>3, NextIndexes
      <4> QED
        BY <4>1, <4>4, <1>1, <1>3 DEF Plays, TrackInv, EndIsHandled
    <3>3. CASE loopMode # "one" /\ GetNextIndex # index
      <4>1. NextTrack
        BY <2>7, <3>3 DEF Ended, TrackEnds
      <4> QED
        BY <4>1, <1>1, <1>3, NextPlays DEF EndIsHandled
    <3> QED
      BY <3>1, <3>2, <3>3
  <2> QED
    BY <2>1, <2>2, <2>3, <2>4, <2>5, <2>6, <2>7
<1> QED
  BY <1>2, <1>4, PlaysKeeps

(* An order that is shuffled starts with the current track and has none    *)
(* twice.                                                                  *)
LEMMA ShuffledOrders ==
    ASSUME NEW q \in Nat \ {0}, NEW i \in 0..q - 1, NEW rest \in SetToSeqs((0..q - 1) \ {i})
    PROVE  /\ <<i>> \o rest \in Seq(0..q - 1) /\ Len(<<i>> \o rest) >= 1
                /\ (<<i>> \o rest)[1] = i
           /\ \A k, l \in DOMAIN (<<i>> \o rest) : k # l
                => (<<i>> \o rest)[k] # (<<i>> \o rest)[l]
<1>1. IsFiniteSet(0..q - 1)
  <2>1. 0 \in Int /\ q - 1 \in Int
    OBVIOUS
  <2> QED
    BY <2>1, FS_Interval
<1>2. PICK S : S = (0..q - 1) \ {i}
  OBVIOUS
<1>3. PICK n \in Nat : n = Cardinality(S)
  <2>1. IsFiniteSet(S)
    BY <1>1, <1>2, FS_Subset
  <2> QED
    BY <2>1, FS_CardinalityType
<1>4. rest \in [1..n -> S] /\ \A k, l \in 1..n : k # l => rest[k] # rest[l]
  BY <1>2, <1>3 DEF SetToSeqs
<1>5. rest \in Seq(S) /\ Len(rest) = n /\ i \notin S /\ S \subseteq 0..q - 1
  BY <1>2, <1>4
<1>6. PICK f : f = <<i>> \o rest
  OBVIOUS
<1>7. /\ f \in Seq(0..q - 1) /\ Len(f) = n + 1 /\ f[1] = i
  <2>1. PICK D : D = 0..q - 1
    OBVIOUS
  <2>2. rest \in Seq(D) /\ <<i>> \in Seq(D)
    <3>1. S \subseteq D /\ i \in D
      BY <1>5, <2>1
    <3>2. rest \in [1..n -> D]
      BY <1>4, <3>1
    <3>3. <<i>> \in [1..1 -> D]
      BY <3>1
    <3> QED
      BY <3>2, <3>3
  <2>3. f \in Seq(D)
    BY <1>6, <2>2
  <2>4. Len(f) = n + 1 /\ f[1] = i
    BY <1>5, <1>6
  <2> QED
    BY <2>1, <2>3, <2>4
<1>8. \A k \in 2..n + 1 : f[k] = rest[k - 1] /\ k - 1 \in 1..n
  BY <1>5, <1>6
<1>9. \A k \in 1..n + 1 : k = 1 \/ k \in 2..n + 1
  OBVIOUS
<1>10. \A k \in 2..n + 1 : f[k] # i
  BY <1>4, <1>5, <1>8
<1>11. \A k, l \in 2..n + 1 : k # l => f[k] # f[l]
  <2> SUFFICES ASSUME NEW k \in 2..n + 1, NEW l \in 2..n + 1, k # l PROVE f[k] # f[l]
    OBVIOUS
  <2>1. k - 1 # l - 1 /\ k - 1 \in 1..n /\ l - 1 \in 1..n
    OBVIOUS
  <2> QED
    BY <2>1, <1>4, <1>8
<1>12. DOMAIN f = 1..n + 1
  BY <1>7
<1>13. \A k, l \in DOMAIN f : k # l => f[k] # f[l]
  <2> SUFFICES ASSUME NEW k \in 1..n + 1, NEW l \in 1..n + 1, k # l PROVE f[k] # f[l]
    BY <1>12
  <2>1. CASE k = 1
    BY <2>1, <1>7, <1>9, <1>10
  <2>2. CASE l = 1
    BY <2>2, <1>7, <1>9, <1>10
  <2>3. CASE k \in 2..n + 1 /\ l \in 2..n + 1
    BY <2>3, <1>11
  <2> QED
    BY <2>1, <2>2, <2>3, <1>9
<1>14. f \in Seq(0..q - 1) /\ Len(f) >= 1 /\ f[1] = i
  BY <1>7
<1> QED
  BY ONLY <1>6, <1>13, <1>14

LEMMA ModesKeep ==
    ASSUME PlayerInv, CycleLoopMode \/ ToggleShuffle
    PROVE  PlayerInv'
<1>1. LoudInv /\ TrackInv /\ ShuffleInv /\ EndIsHandled
  BY DEF PlayerInv, TrackInv
<1>2. UNCHANGED loudVars /\ UNCHANGED <<queue, index, playing, position>>
  BY DEF CycleLoopMode, ToggleShuffle
<1>3. LoudInv'
  BY <1>1, <1>2 DEF LoudInv, loudVars
<1>4. EndIsHandled'
  BY <1>1, <1>2 DEF EndIsHandled
<1>5. CASE CycleLoopMode
  <2>1. UNCHANGED <<order, shuffled>> /\ loopMode' \in {"off", "all", "one"}
    BY <1>5 DEF CycleLoopMode
  <2>2. ShuffleInv'
    BY <2>1, <1>1, <1>2 DEF ShuffleInv
  <2> QED
    BY <2>1, <2>2, <1>1, <1>2, <1>3, <1>4 DEF PlayerInv, TrackInv
<1>6. CASE ToggleShuffle
  <2>1. shuffled' = ~shuffled /\ shuffled' \in BOOLEAN /\ UNCHANGED loopMode
    BY <1>6, <1>1 DEF ToggleShuffle, TrackInv
  <2>2. ShuffleInv'
    <3>1. CASE shuffled
      <4>1. order' = <<>> /\ shuffled' = FALSE
        BY <3>1, <1>6, <2>1 DEF ToggleShuffle
      <4> QED
        BY <4>1, <1>2 DEF ShuffleInv
    <3>2. CASE ~shuffled
      <4>1. PICK rest \in SetToSeqs((0..queue - 1) \ {index}) : order' = <<index>> \o rest
        BY <3>2, <1>6 DEF ToggleShuffle
      <4>2. PICK q \in Nat \ {0} : q = queue
        BY <1>1 DEF TrackInv
      <4>5. PICK i \in 0..q - 1 : i = index
        BY <1>1, <4>2 DEF TrackInv
      <4>3. PICK f : f = <<i>> \o rest /\ f = order'
        BY <4>1, <4>5
      <4>6. rest \in SetToSeqs((0..q - 1) \ {i})
        BY <4>1, <4>2, <4>5
      <4>7. /\ <<i>> \o rest \in Seq(0..q - 1) /\ Len(<<i>> \o rest) >= 1
                 /\ (<<i>> \o rest)[1] = i
            /\ \A k, l \in DOMAIN (<<i>> \o rest) : k # l
                 => (<<i>> \o rest)[k] # (<<i>> \o rest)[l]
        BY <4>6, ShuffledOrders
      <4>8. /\ order' \in Seq(0..queue - 1) /\ Len(order') >= 1 /\ order'[1] = index
            /\ \A k, l \in DOMAIN order' : k # l => order'[k] # order'[l]
        BY <4>2, <4>3, <4>5, <4>7
      <4>9. Len(order') = queue => 1 \in 1..queue
        BY <4>2
      <4> QED
        BY <4>8, <4>9, <1>2 DEF ShuffleInv
    <3> QED
      BY <3>1, <3>2
  <2> QED
    BY <2>1, <2>2, <1>1, <1>2, <1>3, <1>4 DEF PlayerInv, TrackInv
<1> QED
  BY <1>5, <1>6

(* useMediaPlayer keeps a shuffled order without repetitions that holds the*)
(* current track, and once the graph exists what is heard comes out of it. *)
THEOREM PlayerInvHolds == PlayerSpec => []PlayerInv
<1>1. PlayerInit => PlayerInv
  <2> SUFFICES ASSUME PlayerInit PROVE PlayerInv
    OBVIOUS
  <2>1. LoudInv
    <3>1. muted \in BOOLEAN /\ routed \in BOOLEAN /\ elMuted \in BOOLEAN
            /\ mutedFirst \in BOOLEAN
      BY DEF PlayerInit
    <3>2. ~routed /\ ~mutedFirst /\ (elMuted <=> muted)
      BY DEF PlayerInit
    <3>3. volume = 2 /\ boost = 1 /\ extras = {} /\ elVolume = volume
      BY DEF PlayerInit
    <3> QED
      BY <3>1, <3>2, <3>3 DEF LoudInv
  <2>2. queue \in Nat \ {0} /\ index = 0 /\ order = <<>> /\ ~shuffled
    BY PlayerAssumption DEF PlayerInit
  <2>3. ShuffleInv
    BY <2>2 DEF ShuffleInv
  <2> QED
    <3>1. /\ shuffled \in BOOLEAN /\ playing \in BOOLEAN
      BY DEF PlayerInit
    <3>2. loopMode = "off" /\ position = "start"
      BY DEF PlayerInit
    <3> QED
      BY <2>1, <2>2, <2>3, <3>1, <3>2 DEF PlayerInv, TrackInv, EndIsHandled
<1>2. PlayerInv /\ [PlayerNext]_playerVars => PlayerInv'
  <2> SUFFICES ASSUME PlayerInv, [PlayerNext]_playerVars PROVE PlayerInv'
    OBVIOUS
  <2>0. volume \in 0..2 /\ boost \in 1..2 /\ muted \in BOOLEAN
          /\ extras \subseteq {"equalizer", "visualizer"}
    BY DEF PlayerInv, LoudInv
  <2>1. ASSUME NEW v \in 0..2, SetVolume(v) PROVE PlayerInv'
    <3>1. PICK m \in BOOLEAN : m = (muted /\ v = 0)
      OBVIOUS
    <3> QED
      BY <2>0, <2>1, <3>1, LoudKeeps DEF SetVolume
  <2>2. ASSUME NEW b \in 1..2, SetBoost(b) PROVE PlayerInv'
    BY <2>0, <2>2, LoudKeeps DEF SetBoost
  <2>3. CASE ToggleMute
    <3>1. PICK m \in BOOLEAN : m = ~muted
      OBVIOUS
    <3> QED
      BY <2>0, <2>3, <3>1, LoudKeeps DEF ToggleMute
  <2>4. ASSUME NEW x \in {"equalizer", "visualizer"}, ToggleExtra(x) PROVE PlayerInv'
    <3>1. PICK fx \in SUBSET {"equalizer",
            "visualizer"} : fx = (extras \ {x}) \union ({x} \ extras)
      BY <2>0
    <3> QED
      BY <2>0, <2>4, <3>1, LoudKeeps DEF ToggleExtra
  <2>5. CASE \/ PressNext \/ PressStop \/ PressPrevious \/ TogglePlay
             \/ \E to \in {"start", "late"} : Seek(to)
             \/ PlaysOn \/ Ended
    BY <2>5, ButtonsKeep
  <2>6. CASE CycleLoopMode \/ ToggleShuffle
    BY <2>6, ModesKeep
  <2>7. CASE UNCHANGED playerVars
    BY <2>7 DEF playerVars, loudVars, trackVarsOfPlayer, PlayerInv, LoudInv, TrackInv,
         ShuffleInv,
       EndIsHandled
  <2> QED
    BY <2>1, <2>2, <2>3, <2>4, <2>5, <2>6, <2>7 DEF PlayerNext
<1> QED
  BY <1>1, <1>2, PTL DEF PlayerSpec

(* What the element and the graph put out is what the volume, the boost and*)
(* the mute button of useMediaPlayer say, and a track that has ended is    *)
(* followed by the next one, or by nothing.                                *)
THEOREM ThePlayerObeys == PlayerSpec => []PlayerObeys
<1>1. PlayerInv => LoudnessIsSet
  <2> SUFFICES ASSUME LoudInv PROVE LoudnessIsSet
    BY DEF PlayerInv
  <2>1. CASE routed
    <3>1. gain \in Nat /\ gain = (IF muted THEN 0 ELSE volume * boost)
      BY <2>1 DEF LoudInv
    <3> QED
      BY <2>1, <3>1 DEF LoudInv, LoudnessIsSet, Loudness
  <2>2. CASE ~routed
    BY <2>2 DEF LoudInv, LoudnessIsSet, Loudness
  <2> QED
    BY <2>1, <2>2
<1>2. PlayerInv => EndIsHandled
  BY DEF PlayerInv, TrackInv
<1> QED
  BY <1>1, <1>2, PlayerInvHolds, PTL DEF PlayerObeys

-----------------------------------------------------------------------------
(* What is seen of another user                                            *)

RemoteSpec == RemoteInit /\ [][RemoteNext]_remoteVars

Kinds == {"published", "unpublished", "left", "speaks", "silent", "offer"}
Event == [event : Kinds, source : Sources, of : Nat]
Ask == [source : Sources, quality : {"low", "high"}, first : BOOLEAN,
        got : {"nothing", "ack", "timeout"}]

RemoteTypeOK ==
    /\ present \in Nat /\ joins \in Nat /\ present <= joins
    /\ active \subseteq Sources /\ tracked \subseteq Sources
    /\ want \in [Sources -> {"none", "low", "high"}]
    /\ events \in Seq(Event) /\ coming \in Seq(Sources \X Nat)
    /\ slot \in [Sources -> Nat] /\ tile \in BOOLEAN /\ hidden \subseteq Sources
    /\ subscribed \subseteq Sources /\ wishes \subseteq Sources
    /\ debounce \in BOOLEAN /\ loud \in BOOLEAN /\ asks \in Seq(Ask)
    /\ failedAsk \in BOOLEAN /\ lateTrack \in BOOLEAN
    /\ \A i \in DOMAIN coming : coming[i][2] <= joins
    /\ \A i \in DOMAIN events : events[i].of <= joins

(* What the room is, whatever the listener has been told.                  *)
RoomRight ==
    /\ present \in Nat /\ joins \in Nat /\ present <= joins
    /\ on \subseteq active /\ active \subseteq Sources /\ tracked \subseteq Sources
    /\ present = 0 => active = {} /\ tracked = {}
    /\ untold \subseteq (Sources \cup {"left"}) \X (0..joins)
    /\ failedAsk \in BOOLEAN /\ lateTrack \in BOOLEAN

(* An event that waits is fresh if no leaving waits behind it, or has yet  *)
(* to be told.                                                             *)
LeftUntold == \E u \in untold : u[1] = "left"
IsLeft(i) == events[i].event = "left"
Gone == LeftUntold \/ \E i \in DOMAIN events : IsLeft(i)
Fresh(i) == ~LeftUntold /\ \A k \in DOMAIN events : k > i => ~IsLeft(k)
Awaits(kind, s) ==
    \E i \in DOMAIN events : events[i].event = kind /\ events[i].source = s /\ Fresh(i)

(* Whether s will be hidden once what waits has arrived.                   *)
Turns(e, s) == e.event = "left" \/ (e.event \in {"published", "unpublished"} /\ e.source = s)
Hides(s) ==
    \/ \E i \in DOMAIN events : /\ events[i].event = "unpublished" /\ events[i].source = s
                                /\ \A k \in DOMAIN events : k > i => ~Turns(events[k], s)
    \/ s \in hidden /\ \A k \in DOMAIN events : ~Turns(events[k], s)

(* The quality the server will feed once the commands are served.          *)
ToServe(a, s) == a.source = s /\ a.got = "nothing"
WillFeed(s, q) ==
    \/ \E i \in DOMAIN asks : /\ ToServe(asks[i], s) /\ asks[i].quality = q
                              /\ \A k \in DOMAIN asks : k > i => ~ToServe(asks[k], s)
    \/ want[s] = q /\ \A k \in DOMAIN asks : ~ToServe(asks[k], s)

Failing == failedAsk \/ \E i \in DOMAIN asks : asks[i].got = "timeout"

(* The tile is made from the tracks and what is paused.                    *)
ViewRight ==
    /\ onScreen = Desired(slot, hidden)
    /\ ~tile => \A s \in Sources : slot[s] = 0

(* Of a user who has left only endings can be fresh.                       *)
OnlyEnds == \A i \in DOMAIN events : Fresh(i) => events[i].event \in {"unpublished", "left"}

(* Sessions: nothing outlives its own but what a leaving will sweep away.  *)
SessionRight ==
    /\ present = 0 => /\ active = {} /\ tracked = {} /\ OnlyEnds
                      /\ Gone \/ (subscribed = {} /\ wishes = {})
    /\ present # 0 => untold = {} /\ ending = {}
    /\ \A s \in Sources : want[s] # "none" => s \in tracked \/ Stale(s)
    /\ \A i \in DOMAIN events : events[i].event = "offer" =>
         events[i].of # 0 /\ (events[i].of = present <=> Fresh(i))
    /\ \A i \in DOMAIN coming : coming[i][2] # 0 /\ (coming[i][2] = present => ~Gone)
    /\ ~lateTrack => \A s \in Sources : slot[s] \in {0, present} \/ Gone

(* A source that is off and not hidden has not been asked for.             *)
NotAsked(s) ==
    /\ want[s] = "none" /\ ~Awaits("offer", s) /\ ~Awaits("published", s)
    /\ s \in tracked => ~Gone /\ \A i \in DOMAIN asks : asks[i].source # s
    /\ ~Gone => /\ s \notin subscribed /\ s \notin wishes
                /\ ~lateTrack => slot[s] = 0
                /\ \A i \in DOMAIN coming : coming[i] # <<s, present>>

(* From the announcement of a source to its track on the screen.           *)
OnIsSeen(s) == s \in active => ~Hides(s)
OffIsQuiet(s) == present # 0 /\ s \notin active /\ ~Hides(s) => NotAsked(s)
OnIsAsked(s) ==
    ~Failing /\ s \in tracked /\ (s \in active \/ Hides(s)) =>
        Awaits("published", s) \/ (~Gone /\ s \in subscribed \union wishes)
AskedIsFed(s) == ~Failing /\ ~Gone /\ s \in subscribed => WillFeed(s, QualityFor(s, loud))
FedHasTrack(s) ==
    ~lateTrack /\ s \in tracked /\ want[s] # "none" =>
        \/ Awaits("offer", s)
        \/ ~Gone /\ (slot[s] = present \/ \E i \in DOMAIN coming : coming[i] = <<s, present>>)

(* Until a joining overtakes what is left of a leaving.                    *)
RemoteAgrees ==
    /\ RemoteTypeOK /\ ViewRight /\ SessionRight
    /\ wishes # {} => debounce
    /\ \A i \in DOMAIN asks : i # 1 => asks[i].got = "nothing"
    /\ \A s \in Sources :
         OnIsSeen(s) /\ OffIsQuiet(s) /\ OnIsAsked(s) /\ AskedIsFed(s) /\ FedHasTrack(s)

RemoteInv == RoomRight /\ (lateEnd \/ RemoteAgrees)

(* One event more, the one of a leaving perhaps that was to be told.       *)
LEMMA EventsMore ==
    ASSUME events \in Seq(Event), NEW e \in Event, events' = Append(events, e),
           LeftUntold' => LeftUntold, LeftUntold /\ ~LeftUntold' => e.event = "left"
    PROVE  /\ events' \in Seq(Event) /\ Len(events) \in Nat /\ events' # <<>>
           /\ Len(events') = Len(events) + 1 /\ events'[Len(events) + 1] = e
           /\ \A i \in DOMAIN events : /\ i \in DOMAIN events' /\ events'[i] = events[i]
                                       /\ i \in Nat /\ i < Len(events) + 1
           /\ \A i \in DOMAIN events' : i \in DOMAIN events \/ i = Len(events) + 1
           /\ Len(events) + 1 \in DOMAIN events'
           /\ Gone' <=> (Gone \/ e.event = "left")
           /\ \A i \in DOMAIN events : Fresh(i)' <=> Fresh(i) /\ e.event # "left"
           /\ \A i \in DOMAIN events' : i = Len(events) + 1 => (Fresh(i)' <=> ~LeftUntold')
           /\ \A kind, s : Awaits(kind, s)' <=>
                \/ Awaits(kind, s) /\ e.event # "left"
                \/ e.event = kind /\ e.source = s /\ ~LeftUntold'
<1> DEFINE n == Len(events)
<1>1. /\ events' \in Seq(Event) /\ n \in Nat /\ Len(events') = n + 1 /\ events'[n + 1] = e
      /\ \A i \in DOMAIN events : /\ i \in DOMAIN events' /\ events'[i] = events[i]
                                  /\ i \in Nat /\ i < n + 1
      /\ \A i \in DOMAIN events' : i \in DOMAIN events \/ i = n + 1
      /\ n + 1 \in DOMAIN events'
  OBVIOUS
<1>l. (LeftUntold' => LeftUntold) /\ (LeftUntold /\ ~LeftUntold' => e.event = "left")
  OBVIOUS
<1>2. Gone' <=> (Gone \/ e.event = "left")
  BY ONLY <1>1, <1>l DEF Gone, IsLeft
<1>3. \A i \in DOMAIN events : Fresh(i)' <=> Fresh(i) /\ e.event # "left"
  BY ONLY <1>1, <1>l DEF Fresh, IsLeft
<1>4. ASSUME NEW i \in DOMAIN events', i = n + 1 PROVE Fresh(i)' <=> ~LeftUntold'
  <2>1. \A k \in DOMAIN events' : ~(k > i)
    BY <1>1, <1>4
  <2> QED
    BY ONLY <2>1 DEF Fresh
<1>5. ASSUME NEW kind, NEW s
      PROVE  Awaits(kind, s)' <=> \/ Awaits(kind, s) /\ e.event # "left"
                                  \/ e.event = kind /\ e.source = s /\ ~LeftUntold'
  <2>1. Awaits(kind, s)' => \/ Awaits(kind, s) /\ e.event # "left"
                            \/ e.event = kind /\ e.source = s /\ ~LeftUntold'
    BY ONLY <1>1, <1>3, <1>4 DEF Awaits
  <2>2. Awaits(kind, s) /\ e.event # "left" => Awaits(kind, s)'
    BY ONLY <1>1, <1>3 DEF Awaits
  <2>3. e.event = kind /\ e.source = s /\ ~LeftUntold' => Awaits(kind, s)'
    BY ONLY <1>1, <1>4 DEF Awaits
  <2> QED
    BY <2>1, <2>2, <2>3
<1>6. events' # <<>>
  BY <1>1
<1> HIDE DEF n
<1> QED
  BY <1>1, <1>2, <1>3, <1>4, <1>5, <1>6 DEF n

LEMMA HidesMore ==
    ASSUME events \in Seq(Event), NEW e \in Event, events' = Append(events, e),
           hidden' = hidden, NEW s
    PROVE  /\ Turns(e, s) => (Hides(s)' <=> e.event = "unpublished")
           /\ ~Turns(e, s) => (Hides(s)' <=> Hides(s))
<1> DEFINE n == Len(events)
<1>1. /\ n \in Nat /\ events'[n + 1] = e
      /\ \A i \in DOMAIN events : /\ i \in DOMAIN events' /\ events'[i] = events[i]
                                  /\ i \in Nat /\ i < n + 1
      /\ \A i \in DOMAIN events' : i \in DOMAIN events \/ i = n + 1
      /\ n + 1 \in DOMAIN events'
  OBVIOUS
<1>2. \A i \in DOMAIN events : \A k \in DOMAIN events : n + 1 > i /\ k < n + 1
  BY <1>1
<1> HIDE DEF n
<1>3. ASSUME Turns(e, s) PROVE Hides(s)' <=> e.event = "unpublished"
  <2>1. ASSUME e.event = "unpublished" PROVE Hides(s)'
    <3>1. \A k \in DOMAIN events' : ~(k > n + 1)
      BY <1>1
    <3>2. e.source = s
      BY <2>1, <1>3 DEF Turns
    <3> QED
      BY <3>1, <3>2, <2>1, <1>1 DEF Hides
  <2>2. ASSUME Hides(s)' PROVE e.event = "unpublished"
    <3>1. ~\A k \in DOMAIN events' : ~Turns(events'[k], s)
      BY <1>1, <1>3
    <3>2. PICK i \in DOMAIN events' : /\ events'[i].event = "unpublished"
                                      /\ \A k \in DOMAIN events' : k > i => ~Turns(events'[k], s)
      BY <3>1, <2>2 DEF Hides, Turns
    <3> QED
      BY <3>2, <1>1, <1>2, <1>3
  <2> QED
    BY <2>1, <2>2
<1>4. ASSUME ~Turns(e, s) PROVE Hides(s)' <=> Hides(s)
  <2>1. (\A k \in DOMAIN events' : ~Turns(events'[k], s))
          <=> \A k \in DOMAIN events : ~Turns(events[k], s)
    BY <1>1, <1>4
  <2>2. ASSUME NEW i \in DOMAIN events
        PROVE  (\A k \in DOMAIN events' : k > i => ~Turns(events'[k], s))
                 <=> \A k \in DOMAIN events : k > i => ~Turns(events[k], s)
    BY <1>1, <1>4
  <2>3. e.event = "unpublished" => e.source # s
    BY <1>4 DEF Turns
  <2>4. (\E i \in DOMAIN events' : /\ events'[i].event = "unpublished" /\ events'[i].source = s
                                   /\ \A k \in DOMAIN events' : k > i => ~Turns(events'[k], s))
          <=> \E i \in DOMAIN events : /\ events[i].event = "unpublished" /\ events[i].source = s
                                       /\ \A k \in DOMAIN events : k > i => ~Turns(events[k], s)
    BY <2>2, <2>3, <1>1
  <2> QED
    BY <2>1, <2>4 DEF Hides, Turns
<1> QED
  BY <1>3, <1>4

(* The first event is delivered.                                           *)
LEMMA EventsTaken ==
    ASSUME events \in Seq(Event), events # <<>>, events' = Tail(events), NEW h, h = Head(events),
           LeftUntold' <=> LeftUntold
    PROVE  /\ events' \in Seq(Event) /\ h \in Event /\ 1 \in DOMAIN events /\ h = events[1]
           /\ \A i \in DOMAIN events' : /\ i + 1 \in DOMAIN events /\ events'[i] = events[i + 1]
                                        /\ i \in Nat /\ i + 1 > 1
           /\ \A i \in DOMAIN events : i # 1 =>
                i - 1 \in DOMAIN events' /\ events'[i - 1] = events[i] /\ i \in Nat /\ i > 1
           /\ Gone <=> (Gone' \/ h.event = "left")
           /\ \A i \in DOMAIN events' : Fresh(i)' <=> Fresh(i + 1)
           /\ Fresh(1) <=> ~Gone'
           /\ \A kind, s : Awaits(kind, s) <=>
                Awaits(kind, s)' \/ (h.event = kind /\ h.source = s /\ ~Gone')
<1>1. /\ events' \in Seq(Event) /\ h \in Event /\ 1 \in DOMAIN events /\ h = events[1]
      /\ \A i \in DOMAIN events' : /\ i + 1 \in DOMAIN events /\ events'[i] = events[i + 1]
                                   /\ i \in Nat /\ i + 1 > 1
      /\ \A i \in DOMAIN events : i # 1 =>
           i - 1 \in DOMAIN events' /\ events'[i - 1] = events[i] /\ i \in Nat /\ i > 1
  OBVIOUS
<1>l. LeftUntold' <=> LeftUntold
  OBVIOUS
<1>2. Gone <=> (Gone' \/ h.event = "left")
  BY ONLY <1>1, <1>l DEF Gone, IsLeft
<1>3. ASSUME NEW i \in DOMAIN events' PROVE Fresh(i)' <=> Fresh(i + 1)
  <2>1. ASSUME Fresh(i + 1), NEW k \in DOMAIN events', k > i PROVE ~IsLeft(k)'
    <3>1. k + 1 \in DOMAIN events /\ k + 1 > i + 1 /\ events'[k] = events[k + 1]
      BY <1>1, <2>1
    <3> QED
      BY <3>1, <2>1 DEF Fresh, IsLeft
  <2>2. ASSUME Fresh(i)', NEW k \in DOMAIN events, k > i + 1 PROVE ~IsLeft(k)
    <3>1. k - 1 \in DOMAIN events' /\ k - 1 > i /\ events'[k - 1] = events[k]
      BY <1>1, <2>2
    <3> QED
      BY <3>1, <2>2 DEF Fresh, IsLeft
  <2>3. Fresh(i + 1) => \A k \in DOMAIN events' : k > i => ~IsLeft(k)'
    BY <2>1
  <2>4. Fresh(i)' => \A k \in DOMAIN events : k > i + 1 => ~IsLeft(k)
    BY <2>2
  <2> QED
    BY ONLY <2>3, <2>4, LeftUntold' <=> LeftUntold DEF Fresh
<1>4. Fresh(1) <=> ~Gone'
  BY <1>1 DEF Fresh, Gone, IsLeft
<1>5. ASSUME NEW kind, NEW s
      PROVE  Awaits(kind, s) <=> Awaits(kind, s)' \/ (h.event = kind /\ h.source = s /\ ~Gone')
  <2>1. ASSUME NEW i \in DOMAIN events, events[i].event = kind, events[i].source = s, Fresh(i), i # 1
        PROVE  Awaits(kind, s)'
    <3>1. i - 1 \in DOMAIN events' /\ events'[i - 1] = events[i] /\ (i - 1) + 1 = i
      BY <2>1, <1>1
    <3>2. Fresh(i - 1)'
      BY <3>1, <2>1, <1>3
    <3> QED
      BY <3>1, <3>2, <2>1 DEF Awaits
  <2>2. Awaits(kind, s) => Awaits(kind, s)' \/ (h.event = kind /\ h.source = s /\ ~Gone')
    BY <2>1, <1>1, <1>4 DEF Awaits
  <2>3. Awaits(kind, s)' => Awaits(kind, s)
    BY <1>1, <1>3 DEF Awaits
  <2>4. h.event = kind /\ h.source = s /\ ~Gone' => Awaits(kind, s)
    BY <1>1, <1>4 DEF Awaits
  <2> QED
    BY <2>2, <2>3, <2>4
<1> QED
  BY <1>1, <1>2, <1>3, <1>4, <1>5

LEMMA HidesTaken ==
    ASSUME events \in Seq(Event), events # <<>>, events' = Tail(events), NEW h, h = Head(events),
           NEW s, s \in hidden' <=> IF Turns(h, s) THEN h.event = "unpublished" ELSE s \in hidden
    PROVE  Hides(s)' <=> Hides(s)
<1>1. /\ 1 \in DOMAIN events /\ h = events[1]
      /\ \A i \in DOMAIN events' : /\ i + 1 \in DOMAIN events /\ events'[i] = events[i + 1]
                                   /\ i \in Nat /\ i + 1 > 1
      /\ \A i \in DOMAIN events : i # 1 =>
           i - 1 \in DOMAIN events' /\ events'[i - 1] = events[i] /\ i \in Nat /\ i > 1
  OBVIOUS
<1>2. (\A k \in DOMAIN events : ~Turns(events[k], s))
        <=> ~Turns(h, s) /\ \A k \in DOMAIN events' : ~Turns(events'[k], s)
  BY <1>1
<1>3. ASSUME NEW i \in DOMAIN events'
      PROVE  (\A k \in DOMAIN events' : k > i => ~Turns(events'[k], s))
               <=> \A k \in DOMAIN events : k > i + 1 => ~Turns(events[k], s)
  <2>1. \A k \in DOMAIN events' : k > i => k + 1 \in DOMAIN events /\ k + 1 > i + 1
    BY <1>1
  <2>2. \A k \in DOMAIN events : k > i + 1 => k # 1 /\ k - 1 \in DOMAIN events' /\ k - 1 > i
    BY <1>1
  <2> QED
    BY <2>1, <2>2, <1>1
<1>4. (\A k \in DOMAIN events : k > 1 => ~Turns(events[k], s))
        <=> \A k \in DOMAIN events' : ~Turns(events'[k], s)
  BY <1>1
<1>5. ASSUME Hides(s) PROVE Hides(s)'
  <2>1. CASE s \in hidden /\ \A k \in DOMAIN events : ~Turns(events[k], s)
    BY <2>1, <1>2 DEF Hides, Turns
  <2>2. ASSUME NEW i \in DOMAIN events, events[i].event = "unpublished", events[i].source = s,
               \A k \in DOMAIN events : k > i => ~Turns(events[k], s)
        PROVE  Hides(s)'
    <3>1. CASE i = 1
      <4>1. s \in hidden'
        BY <3>1, <2>2, <1>1 DEF Turns
      <4> QED
        BY <4>1, <3>1, <2>2, <1>4 DEF Hides, Turns
    <3>2. CASE i # 1
      <4>1. i - 1 \in DOMAIN events' /\ events'[i - 1] = events[i] /\ (i - 1) + 1 = i
        BY <3>2, <1>1
      <4> QED
        BY <4>1, <2>2, <1>3 DEF Hides, Turns
    <3> QED
      BY <3>1, <3>2
  <2> QED
    BY <2>1, <2>2, <1>5 DEF Hides
<1>6. ASSUME Hides(s)' PROVE Hides(s)
  <2>1. CASE s \in hidden' /\ \A k \in DOMAIN events' : ~Turns(events'[k], s)
    <3>1. CASE Turns(h, s)
      BY <3>1, <2>1, <1>1, <1>4 DEF Hides, Turns
    <3>2. CASE ~Turns(h, s)
      BY <3>2, <2>1, <1>2 DEF Hides
    <3> QED
      BY <3>1, <3>2
  <2>2. ASSUME NEW i \in DOMAIN events', events'[i].event = "unpublished", events'[i].source = s,
               \A k \in DOMAIN events' : k > i => ~Turns(events'[k], s)
        PROVE  Hides(s)
    BY <2>2, <1>1, <1>3 DEF Hides
  <2> QED
    BY <2>1, <2>2, <1>6 DEF Hides, Turns
<1> QED
  BY <1>5, <1>6

(* What an event on its way leaves as it is.                               *)
LEMMA Emitted ==
    ASSUME RemoteAgrees, NEW e \in Event, events' = Append(events, e), e.of <= joins',
           joins' \in Nat, joins <= joins', present' \in Nat, present' <= joins',
           active' \subseteq Sources, tracked' \subseteq Sources,
           want' \in [Sources -> {"none", "low", "high"}],
           LeftUntold' => LeftUntold, LeftUntold /\ ~LeftUntold' => e.event = "left",
           UNCHANGED <<coming, viewVars, subVars, failedAsk, lateTrack>>
    PROVE  /\ RemoteTypeOK' /\ ViewRight' /\ (wishes # {} => debounce)'
           /\ (\A i \in DOMAIN asks : i # 1 => asks[i].got = "nothing")'
           /\ Failing' <=> Failing
           /\ \A s, q : want'[s] = want[s] => (WillFeed(s, q)' <=> WillFeed(s, q))
           /\ Gone' <=> (Gone \/ e.event = "left")
           /\ \A kind, s : Awaits(kind, s)' <=>
                \/ Awaits(kind, s) /\ e.event # "left"
                \/ e.event = kind /\ e.source = s /\ ~LeftUntold'
           /\ \A s : IF Turns(e, s) THEN Hides(s)' <=> e.event = "unpublished"
                                    ELSE Hides(s)' <=> Hides(s)
<1>t. RemoteTypeOK /\ events \in Seq(Event)
  BY DEF RemoteAgrees, RemoteTypeOK
<1>u. UNCHANGED <<coming, slot, tile, onScreen, hidden, subscribed, wishes, debounce, loud, asks,
                  failedAsk, lateTrack>>
  BY DEF viewVars, subVars
<1>m. /\ events' \in Seq(Event)
      /\ \A i \in DOMAIN events : i \in DOMAIN events' /\ events'[i] = events[i]
      /\ \A i \in DOMAIN events' : i \in DOMAIN events \/ i = Len(events) + 1
      /\ events'[Len(events) + 1] = e
      /\ Gone' <=> (Gone \/ e.event = "left")
      /\ \A kind, s : Awaits(kind, s)' <=>
           \/ Awaits(kind, s) /\ e.event # "left"
           \/ e.event = kind /\ e.source = s /\ ~LeftUntold'
  BY <1>t, EventsMore
<1>1. RemoteTypeOK'
  <2>1. ASSUME NEW i \in DOMAIN events' PROVE events'[i].of <= joins'
    <3>1. CASE i \in DOMAIN events
      <4>1. events[i] \in Event /\ events[i].of <= joins
        BY <3>1, <1>t DEF RemoteTypeOK
      <4>2. events[i].of \in Nat /\ joins \in Nat
        BY <4>1, <1>t DEF RemoteTypeOK, Event
      <4> QED
        BY <3>1, <4>1, <4>2, <1>m
    <3> QED
      BY <3>1, <1>m
  <2>2. ASSUME NEW i \in DOMAIN coming PROVE coming[i][2] <= joins'
    <3>1. coming[i] \in Sources \X Nat /\ coming[i][2] <= joins /\ joins \in Nat
      BY <1>t DEF RemoteTypeOK
    <3>2. coming[i][2] \in Nat
      BY <3>1
    <3> QED
      BY <3>1, <3>2
  <2>3. \A i \in DOMAIN coming' : coming'[i][2] <= joins'
    BY <2>2, <1>u
  <2>4. coming \in Seq(Sources \X Nat) /\ asks \in Seq(Ask)
    BY <1>t DEF RemoteTypeOK
  <2>5. /\ slot \in [Sources -> Nat] /\ tile \in BOOLEAN /\ hidden \subseteq Sources
        /\ subscribed \subseteq Sources /\ wishes \subseteq Sources
        /\ debounce \in BOOLEAN /\ loud \in BOOLEAN
        /\ failedAsk \in BOOLEAN /\ lateTrack \in BOOLEAN
    BY <1>t DEF RemoteTypeOK
  <2> QED
    BY ONLY <2>1, <2>3, <2>4, <2>5, <1>m, <1>u, joins' \in Nat, present' \in Nat, present' <= joins',
       active' \subseteq Sources, tracked' \subseteq Sources,
       want' \in [Sources -> {"none", "low", "high"}] DEF RemoteTypeOK
<1>2. ViewRight'
  BY <1>u DEF RemoteAgrees, ViewRight, Desired
<1>3. (wishes # {} => debounce)' /\ (\A i \in DOMAIN asks : i # 1 => asks[i].got = "nothing")'
  BY <1>u DEF RemoteAgrees
<1>4. Failing' <=> Failing
  BY <1>u DEF Failing
<1>5. \A s, q : want'[s] = want[s] => (WillFeed(s, q)' <=> WillFeed(s, q))
  BY <1>u DEF WillFeed, ToServe
<1>6. ASSUME NEW s PROVE IF Turns(e, s) THEN Hides(s)' <=> e.event = "unpublished"
                                        ELSE Hides(s)' <=> Hides(s)
  BY <1>t, <1>u, HidesMore
<1> QED
  BY <1>1, <1>2, <1>3, <1>4, <1>5, <1>6, <1>m

(* The sessions of what waits, when the next event is no offer.            *)
LEMMA SessionsKept ==
    ASSUME RemoteAgrees, NEW e \in Event, events' = Append(events, e), e.event # "offer",
           e.event = "left" => present' = 0,
           e.event # "left" => present' = present,
           LeftUntold' => LeftUntold, LeftUntold /\ ~LeftUntold' => e.event = "left",
           UNCHANGED coming
    PROVE  /\ (\A i \in DOMAIN events : events[i].event = "offer" =>
                 events[i].of # 0 /\ (events[i].of = present <=> Fresh(i)))'
           /\ (\A i \in DOMAIN coming : coming[i][2] # 0 /\ (coming[i][2] = present => ~Gone))'
<1>t. events \in Seq(Event)
  BY DEF RemoteAgrees, RemoteTypeOK
<1>m. /\ \A i \in DOMAIN events : i \in DOMAIN events' /\ events'[i] = events[i]
      /\ \A i \in DOMAIN events' : i \in DOMAIN events \/ i = Len(events) + 1
      /\ events'[Len(events) + 1] = e
      /\ Gone' <=> (Gone \/ e.event = "left")
      /\ \A i \in DOMAIN events : Fresh(i)' <=> Fresh(i) /\ e.event # "left"
  BY <1>t, EventsMore
<1>s. /\ \A i \in DOMAIN events : events[i].event = "offer" =>
           events[i].of # 0 /\ (events[i].of = present <=> Fresh(i))
      /\ \A i \in DOMAIN coming : coming[i][2] # 0 /\ (coming[i][2] = present => ~Gone)
  BY DEF RemoteAgrees, SessionRight
<1>1. ASSUME NEW i \in DOMAIN events', events'[i].event = "offer"
      PROVE  events'[i].of # 0 /\ (events'[i].of = present' <=> Fresh(i)')
  <2>1. i \in DOMAIN events /\ events'[i] = events[i]
    BY <1>1, <1>m
  <2> QED
    BY <2>1, <1>1, <1>m, <1>s
<1>2. ASSUME NEW i \in DOMAIN coming'
      PROVE  coming'[i][2] # 0 /\ (coming'[i][2] = present' => ~Gone')
  BY <1>m, <1>s
<1> QED
  BY <1>1, <1>2

LEMMA OtherMoves ==
    ASSUME RoomRight, RemoteAgrees, ~lateEnd', ~lateEnd,
           \/ RemoteJoins \/ SpeakerChanges
           \/ \E s \in Sources : RemoteToggles(s) \/ TrackArrives(s)
    PROVE  RemoteAgrees'
<1>t. RemoteTypeOK /\ SessionRight
  BY DEF RemoteAgrees
<1>p. /\ present \in Nat /\ joins \in Nat /\ present <= joins
      /\ active \subseteq Sources /\ tracked \subseteq Sources
      /\ want \in [Sources -> {"none", "low", "high"}]
  BY <1>t DEF RemoteTypeOK
<1>s. \A s \in Sources : /\ OnIsSeen(s) /\ OffIsQuiet(s) /\ OnIsAsked(s)
                         /\ AskedIsFed(s) /\ FedHasTrack(s)
  BY DEF RemoteAgrees
<1>n. untold = {} => ~LeftUntold
  BY DEF LeftUntold
<1>k. untold' = untold => (LeftUntold' <=> LeftUntold)
  BY DEF LeftUntold
<1>ev. \A k \in Kinds : \A s \in Sources : [event |-> k, source |-> s, of |-> present] \in Event
  BY <1>p DEF Event
<1>1. CASE RemoteJoins
  <2> DEFINE x == [event |-> "unpublished", source |-> "camera", of |-> present]
  <2>0. lateEnd' = (lateEnd \/ untold # {} \/ ending # {})
    BY <1>1 DEF RemoteJoins
  <2>1. /\ present = 0 /\ joins' = joins + 1 /\ present' = joins' /\ active' = {} /\ tracked' = {}
        /\ events' = Append(events, x) /\ untold = {} /\ ending = {} /\ untold' = {} /\ ending' = {}
        /\ UNCHANGED <<want, coming, viewVars, subVars, failedAsk, lateTrack>>
    BY <1>1, <2>0 DEF RemoteJoins, Emit, EmitOf, leaveVars
  <2>l. ~LeftUntold /\ ~LeftUntold'
    BY <2>1, <1>n, <1>k
  <2>2. PICK e \in Event : e = x
    BY <1>ev DEF Kinds, Sources
  <2>3. /\ RemoteTypeOK' /\ ViewRight' /\ (wishes # {} => debounce)'
        /\ (\A i \in DOMAIN asks : i # 1 => asks[i].got = "nothing")'
        /\ Failing' <=> Failing
        /\ \A s, q : want'[s] = want[s] => (WillFeed(s, q)' <=> WillFeed(s, q))
        /\ Gone' <=> Gone
        /\ \A kind, s : kind # "unpublished" => (Awaits(kind, s)' <=> Awaits(kind, s))
        /\ Hides("camera")' /\ (Hides("screen")' <=> Hides("screen"))
    <3>1. e.event = "unpublished" /\ e.source = "camera" /\ e.of = present /\ events' = Append(events, e)
      BY <2>1, <2>2
    <3>2. Turns(e, "camera") /\ ~Turns(e, "screen")
      BY <3>1 DEF Turns
    <3>3. joins' \in Nat /\ e.of <= joins' /\ joins <= joins' /\ present' \in Nat /\ present' <= joins'
      BY <2>1, <3>1, <1>p
    <3> QED
      BY <2>1, <2>l, <3>1, <3>2, <3>3, <1>p, Emitted
  <2>4. /\ \A s \in Sources : want[s] = "none"
        /\ OnlyEnds
        /\ Gone \/ (subscribed = {} /\ wishes = {})
    BY <2>1, <1>t DEF SessionRight, Stale
  <2>5. ASSUME NEW kind \in {"published", "offer"}, NEW s PROVE ~Awaits(kind, s)
    <3> SUFFICES ASSUME NEW i \in DOMAIN events, events[i].event = kind, Fresh(i) PROVE FALSE
      BY DEF Awaits
    <3> QED
      BY <2>4 DEF OnlyEnds
  <2>u. UNCHANGED <<want, coming, slot, hidden, subscribed, wishes, loud, asks, lateTrack>>
    BY <2>1 DEF viewVars, subVars
  <2>6. SessionRight'
    <3>1. \A s \in Sources : want'[s] = "none"
      BY <2>4, <2>u
    <3>2. present' # 0 /\ present' > joins
      BY <2>1, <1>p
    <3>3. ASSUME NEW i \in DOMAIN events', events'[i].event = "offer"
          PROVE  events'[i].of # 0 /\ (events'[i].of = present' <=> Fresh(i)')
      <4>1. i \in DOMAIN events /\ events'[i] = events[i] /\ events[i] \in Event /\ (Fresh(i)' <=> Fresh(i))
        <5>1. events'[Len(events) + 1] # events'[i]
          BY <2>1, <3>3, <1>t DEF RemoteTypeOK
        <5> QED
          BY <5>1, <2>1, <2>2, <2>l, <1>t, EventsMore DEF RemoteTypeOK
      <4>2. events[i].of # 0 /\ events[i].of <= joins /\ events[i].of \in Nat
        BY <4>1, <3>3, <1>t DEF SessionRight, RemoteTypeOK, Event
      <4>3. ~Fresh(i)
        BY <4>1, <3>3, <2>5 DEF Awaits
      <4> QED
        BY <4>1, <4>2, <4>3, <3>2, <1>p
    <3>4. ASSUME NEW i \in DOMAIN coming'
          PROVE  coming'[i][2] # 0 /\ coming'[i][2] # present'
      <4>1. coming[i] \in Sources \X Nat /\ coming[i][2] <= joins /\ coming[i][2] # 0
        BY <2>u, <1>t DEF RemoteTypeOK, SessionRight
      <4>2. coming[i][2] \in Nat
        BY <4>1
      <4> QED
        BY <4>1, <4>2, <3>2, <2>u, <1>p
    <3>5. ~lateTrack' => \A s \in Sources : slot'[s] \in {0, present'} \/ Gone'
      BY <2>u, <2>1, <2>3, <1>t DEF SessionRight
    <3> QED
      BY <2>1, <3>1, <3>2, <3>3, <3>4, <3>5 DEF SessionRight
  <2>7. ASSUME NEW s \in Sources
        PROVE  (OnIsSeen(s) /\ OffIsQuiet(s) /\ OnIsAsked(s) /\ AskedIsFed(s) /\ FedHasTrack(s))'
    <3>1. OnIsSeen(s)' /\ OnIsAsked(s)' /\ FedHasTrack(s)'
      BY <2>1, <2>4, <2>u DEF OnIsSeen, OnIsAsked, FedHasTrack
    <3>2. AskedIsFed(s)'
      BY <1>s, <2>3, <2>u DEF AskedIsFed
    <3>3. NotAsked(s)'
      <4>1. \A i \in DOMAIN coming' : coming'[i] # <<s, present'>>
        <5> SUFFICES ASSUME NEW i \in DOMAIN coming', coming'[i] = <<s, present'>> PROVE FALSE
          OBVIOUS
        <5>1. coming[i][2] <= joins /\ coming[i][2] = present'
          BY <2>u, <1>t DEF RemoteTypeOK
        <5> QED
          BY <5>1, <2>1, <1>p
      <4>2. ~Gone' => /\ s \notin subscribed' /\ s \notin wishes' /\ (~lateTrack' => slot'[s] = 0)
        BY <2>1, <2>3, <2>4, <2>u, <1>t DEF SessionRight
      <4>3. ~Awaits("offer", s)' /\ ~Awaits("published", s)'
        BY <2>3, <2>5
      <4>4. want'[s] = "none" /\ s \notin tracked'
        BY <2>1, <2>4, <2>u
      <4> QED
        BY <4>1, <4>2, <4>3, <4>4 DEF NotAsked
    <3> QED
      BY <3>1, <3>2, <3>3 DEF OffIsQuiet
  <2> QED
    BY <2>3, <2>6, <2>7 DEF RemoteAgrees
<1>3. CASE SpeakerChanges
  <2>1. PICK k \in {"speaks", "silent"} :
          events' = Append(events, [event |-> k, source |-> "camera", of |-> present])
    BY <1>3 DEF SpeakerChanges, Emit, EmitOf
  <2>2. PICK e \in Event : e = [event |-> k, source |-> "camera", of |-> present]
    BY <1>ev DEF Kinds, Sources
  <2>a. /\ e.event = k /\ e.of = present /\ events' = Append(events, e) /\ \A s : ~Turns(e, s)
        /\ present # 0 /\ UNCHANGED <<present, active, tracked, want, joins>>
        /\ UNCHANGED <<coming, viewVars, subVars, failedAsk, lateTrack, untold, ending>>
    BY <2>1, <2>2, <1>3 DEF Turns, SpeakerChanges, roomVars, sourceVars, leaveVars, history
  <2>l. ~LeftUntold /\ ~LeftUntold'
    BY <2>a, <1>t, <1>n, <1>k DEF SessionRight
  <2>3. /\ RemoteTypeOK' /\ ViewRight' /\ (wishes # {} => debounce)'
        /\ (\A i \in DOMAIN asks : i # 1 => asks[i].got = "nothing")'
        /\ Failing' <=> Failing
        /\ \A s, q : WillFeed(s, q)' <=> WillFeed(s, q)
        /\ Gone' <=> Gone
        /\ \A s : (Awaits("published", s)' <=> Awaits("published", s)) /\ (Awaits("offer", s)' <=> Awaits("offer", s))
        /\ \A s : Hides(s)' <=> Hides(s)
    <3>1. e.of <= joins' /\ joins' \in Nat /\ joins <= joins' /\ present' \in Nat /\ present' <= joins'
      BY <2>a, <1>p
    <3> QED
      BY <2>a, <2>l, <3>1, <1>p, Emitted
  <2>u. UNCHANGED <<want, coming, slot, hidden, subscribed, wishes, loud, asks, lateTrack>>
    BY <2>a DEF viewVars, subVars
  <2>4. SessionRight'
    <3>1. /\ (\A i \in DOMAIN events : events[i].event = "offer" =>
                 events[i].of # 0 /\ (events[i].of = present <=> Fresh(i)))'
          /\ (\A i \in DOMAIN coming : coming[i][2] # 0 /\ (coming[i][2] = present => ~Gone))'
      BY <2>a, <2>l, SessionsKept
    <3> QED
      BY <2>a, <2>3, <2>u, <3>1, <1>t DEF SessionRight, Stale
  <2>5. ASSUME NEW s \in Sources
        PROVE  (OnIsSeen(s) /\ OffIsQuiet(s) /\ OnIsAsked(s) /\ AskedIsFed(s) /\ FedHasTrack(s))'
    <3>1. NotAsked(s) => NotAsked(s)'
      BY <2>a, <2>3, <2>u DEF NotAsked
    <3> QED
      BY <1>s, <2>a, <2>3, <2>u, <3>1 DEF OnIsSeen, OffIsQuiet, OnIsAsked, AskedIsFed, FedHasTrack
  <2> QED
    BY <2>3, <2>4, <2>5 DEF RemoteAgrees
<1>4. ASSUME NEW t \in Sources, RemoteToggles(t) \/ TrackArrives(t) PROVE RemoteAgrees'
  <2>1. PICK k \in {"published", "unpublished"} :
          /\ events' = Append(events, [event |-> k, source |-> t, of |-> present])
          /\ active' = IF k = "published" THEN active \union {t} ELSE active \ {t}
          /\ tracked' \in {tracked, tracked \union {t}}
          /\ k = "unpublished" => t \in active /\ tracked' = tracked
          /\ \A s \in tracked' : s \in tracked \/ (k = "published" /\ s = t)
    <3>1. CASE RemoteToggles(t) /\ t \in on
      BY <3>1 DEF RemoteToggles, Emit, EmitOf, RoomRight
    <3>2. CASE RemoteToggles(t) /\ t \notin on
      BY <3>2 DEF RemoteToggles, Emit, EmitOf
    <3>3. CASE TrackArrives(t)
      BY <3>3 DEF TrackArrives, Emit, EmitOf
    <3> QED
      BY <3>1, <3>2, <3>3, <1>4
  <2>2. PICK e \in Event : e = [event |-> k, source |-> t, of |-> present]
    BY <1>ev DEF Kinds
  <2>a. /\ e.event = k /\ e.source = t /\ e.of = present /\ events' = Append(events, e)
        /\ Turns(e, t) /\ \A s : s # t => ~Turns(e, s)
        /\ present # 0 /\ UNCHANGED <<present, want, joins>>
        /\ UNCHANGED <<coming, viewVars, subVars, failedAsk, lateTrack, untold, ending>>
    BY <2>1, <2>2, <1>4 DEF Turns, RemoteToggles, TrackArrives, leaveVars, history
  <2>l. ~LeftUntold /\ ~LeftUntold'
    BY <2>a, <1>t, <1>n, <1>k DEF SessionRight
  <2>b. active' \subseteq Sources /\ tracked' \subseteq Sources
    BY <2>1, <1>p
  <2>3. /\ RemoteTypeOK' /\ ViewRight' /\ (wishes # {} => debounce)'
        /\ (\A i \in DOMAIN asks : i # 1 => asks[i].got = "nothing")'
        /\ Failing' <=> Failing
        /\ \A s, q : WillFeed(s, q)' <=> WillFeed(s, q)
        /\ Gone' <=> Gone
        /\ \A s : Awaits("offer", s)' <=> Awaits("offer", s)
        /\ \A s : Awaits("published", s)' <=> Awaits("published", s) \/ (k = "published" /\ s = t)
        /\ Hides(t)' <=> k = "unpublished"
        /\ \A s : s # t => (Hides(s)' <=> Hides(s))
    <3>1. e.of <= joins' /\ joins' \in Nat /\ joins <= joins' /\ present' \in Nat /\ present' <= joins'
      BY <2>a, <1>p
    <3> QED
      BY <2>a, <2>b, <2>l, <3>1, <1>p, Emitted
  <2>u. UNCHANGED <<want, coming, slot, hidden, subscribed, wishes, loud, asks, lateTrack>>
    BY <2>a DEF viewVars, subVars
  <2>4. SessionRight'
    <3>1. /\ (\A i \in DOMAIN events : events[i].event = "offer" =>
                 events[i].of # 0 /\ (events[i].of = present <=> Fresh(i)))'
          /\ (\A i \in DOMAIN coming : coming[i][2] # 0 /\ (coming[i][2] = present => ~Gone))'
      BY <2>a, <2>l, SessionsKept
    <3>2. \A s \in Sources : want'[s] # "none" => s \in tracked' \/ Stale(s)'
      BY <2>1, <2>a, <2>u, <1>t DEF SessionRight, Stale
    <3> QED
      BY <2>a, <2>3, <2>u, <3>1, <3>2, <1>t DEF SessionRight
  <2>5. ASSUME NEW s \in Sources
        PROVE  (OnIsSeen(s) /\ OffIsQuiet(s) /\ OnIsAsked(s) /\ AskedIsFed(s) /\ FedHasTrack(s))'
    <3>0. want[s] # "none" => s \in tracked
      BY <2>a, <1>t DEF SessionRight, Stale
    <3>1. AskedIsFed(s)' /\ FedHasTrack(s)'
      BY <1>s, <2>a, <2>3, <2>u, <3>0 DEF AskedIsFed, FedHasTrack
    <3>2. CASE s # t
      <4>1. (s \in active' <=> s \in active) /\ (s \in tracked' <=> s \in tracked)
        BY <2>1, <3>2
      <4>2. NotAsked(s) => NotAsked(s)'
        BY <2>a, <2>3, <2>u, <3>2, <4>1 DEF NotAsked
      <4> QED
        BY <1>s, <2>a, <2>3, <2>u, <3>1, <3>2, <4>1, <4>2 DEF OnIsSeen, OffIsQuiet, OnIsAsked
    <3>3. CASE s = t /\ k = "published"
      BY <2>1, <2>3, <3>1, <3>3 DEF OnIsSeen, OffIsQuiet, OnIsAsked
    <3>4. CASE s = t /\ k = "unpublished"
      <4>1. OnIsAsked(s)'
        BY <1>s, <2>1, <2>3, <2>u, <3>4 DEF OnIsAsked
      <4> QED
        BY <2>1, <2>3, <3>1, <3>4, <4>1 DEF OnIsSeen, OffIsQuiet
    <3> QED
      BY <3>2, <3>3, <3>4
  <2> QED
    BY <2>3, <2>4, <2>5 DEF RemoteAgrees
<1> QED
  BY <1>1, <1>3, <1>4

(* A leaving: all that is fresh no longer is.                              *)
LEMMA LeavesKeep ==
    ASSUME RemoteAgrees, RemoteLeaves
    PROVE  RemoteAgrees'
<1>t. /\ RemoteTypeOK /\ SessionRight /\ ViewRight
      /\ want \in [Sources -> {"none", "low", "high"}]
  BY DEF RemoteAgrees, RemoteTypeOK
<1>u. /\ UNCHANGED <<want, events, coming, slot, tile, onScreen, hidden, subscribed, wishes, debounce,
                     loud, asks, joins, failedAsk, lateTrack>>
      /\ present # 0 /\ present' = 0 /\ active' = {} /\ tracked' = {}
      /\ untold' = untold \cup {<<what, present>> : what \in tracked \cup {"left"}}
      /\ ending' = ending \cup {<<s, present>> : s \in {x \in Sources : want[x] # "none" /\ ~Stale(x)}}
  BY DEF RemoteLeaves, viewVars, subVars, boundVars, history
<1>1. LeftUntold'
  <2>1. <<"left", present>> \in untold' /\ <<"left", present>>[1] = "left"
    BY <1>u
  <2> QED
    BY ONLY <2>1 DEF LeftUntold
<1>2. Gone' /\ (\A i : ~Fresh(i)') /\ OnlyEnds' /\ \A kind, s : ~Awaits(kind, s)'
  BY ONLY <1>1 DEF Gone, Fresh, OnlyEnds, Awaits
<1>3. RemoteTypeOK'
  BY <1>t, <1>u DEF RemoteTypeOK
<1>4. ViewRight' /\ (wishes # {} => debounce)'
      /\ (\A i \in DOMAIN asks : i # 1 => asks[i].got = "nothing")'
  BY <1>t, <1>u DEF RemoteAgrees, ViewRight, Desired
<1>5. SessionRight'
  <2>1. ASSUME NEW s \in Sources, want[s] # "none" PROVE Stale(s)'
    <3>1. CASE Stale(s)
      BY <3>1, <1>u DEF Stale
    <3>2. CASE ~Stale(s)
      <4>1. <<s, present>> \in ending' /\ <<s, present>>[1] = s
        BY <2>1, <3>2, <1>u
      <4> QED
        BY ONLY <4>1 DEF Stale
    <3> QED
      BY <3>1, <3>2
  <2>2. \A i \in DOMAIN coming' : coming'[i][2] # 0
    BY <1>t, <1>u DEF SessionRight
  <2>3. \A i \in DOMAIN events' : events'[i].event = "offer" => events'[i].of # 0
    BY <1>t, <1>u DEF SessionRight
  <2> QED
    BY <2>1, <2>2, <2>3, <1>2, <1>u DEF SessionRight
<1>6. ASSUME NEW s \in Sources
      PROVE  (OnIsSeen(s) /\ OffIsQuiet(s) /\ OnIsAsked(s) /\ AskedIsFed(s) /\ FedHasTrack(s))'
  BY <1>2, <1>u DEF OnIsSeen, OffIsQuiet, OnIsAsked, AskedIsFed, FedHasTrack
<1> QED
  BY <1>3, <1>4, <1>5, <1>6 DEF RemoteAgrees

(* What is told of a leaving, while the user is gone.                      *)
LEMMA TellKeeps ==
    ASSUME RoomRight, RemoteAgrees, NEW what, NEW p, TellOfLeaving(what, p)
    PROVE  RemoteAgrees'
<1>t. /\ RemoteTypeOK /\ SessionRight
      /\ \A s \in Sources : AskedIsFed(s)
  BY DEF RemoteAgrees
<1>u. /\ UNCHANGED <<present, active, tracked, ending, want, coming, slot, subscribed, wishes, loud,
                     asks, joins, failedAsk, lateTrack>>
      /\ UNCHANGED <<coming, viewVars, subVars, failedAsk, lateTrack>>
      /\ <<what, p>> \in untold /\ untold' = untold \ {<<what, p>>}
  BY DEF TellOfLeaving, sourceVars, viewVars, subVars, boundVars, history
<1>0. present = 0 /\ active = {} /\ tracked = {} /\ OnlyEnds
  BY <1>t, <1>u DEF SessionRight
<1>w. what \in Sources \cup {"left"} /\ p \in 0..joins /\ joins \in Nat
  BY <1>u DEF RoomRight
<1>l. /\ LeftUntold' => LeftUntold
      /\ what = "left" => LeftUntold
      /\ what # "left" => (LeftUntold => LeftUntold')
  <2>1. LeftUntold' => LeftUntold
    BY <1>u DEF LeftUntold
  <2>2. what = "left" => LeftUntold
    BY <1>u DEF LeftUntold
  <2>3. ASSUME what # "left", LeftUntold PROVE LeftUntold'
    <3>1. PICK x \in untold : x[1] = "left"
      BY <2>3 DEF LeftUntold
    <3>2. <<what, p>>[1] = what
      OBVIOUS
    <3>3. x \in untold'
      BY <3>1, <3>2, <2>3, <1>u
    <3> QED
      BY ONLY <3>1, <3>3 DEF LeftUntold
  <2> QED
    BY <2>1, <2>2, <2>3
<1> DEFINE kind == IF what = "left" THEN "left" ELSE "unpublished"
           of == IF what = "left" THEN "camera" ELSE what
<1>1. PICK e \in Event : e = [event |-> kind, source |-> of, of |-> p]
  <2>1. kind \in Kinds /\ of \in Sources /\ p \in Nat
    BY <1>w DEF Kinds, Sources
  <2> HIDE DEF kind, of
  <2> QED
    BY ONLY <2>1 DEF Event
<1>a. /\ events' = Append(events, e) /\ e.event \in {"left", "unpublished"}
      /\ e.event = "left" <=> what = "left"
      /\ e.of <= joins
  <2>1. events' = Append(events, [event |-> kind, source |-> of, of |-> p])
    BY DEF TellOfLeaving, EmitOf
  <2>2. e.of = p /\ e.event = kind
    BY <1>1
  <2>3. p <= joins
    BY <1>w
  <2> QED
    BY <2>1, <2>2, <2>3, <1>1
<1>b. /\ joins' \in Nat /\ joins <= joins' /\ e.of <= joins' /\ present' \in Nat /\ present' <= joins'
      /\ active' \subseteq Sources /\ tracked' \subseteq Sources
      /\ want' \in [Sources -> {"none", "low", "high"}]
      /\ LeftUntold /\ ~LeftUntold' => e.event = "left"
  BY <1>a, <1>l, <1>t, <1>u, <1>w DEF RemoteTypeOK
<1>2. /\ RemoteTypeOK' /\ ViewRight' /\ (wishes # {} => debounce)'
      /\ (\A i \in DOMAIN asks : i # 1 => asks[i].got = "nothing")'
      /\ Failing' <=> Failing
      /\ \A s, q : WillFeed(s, q)' <=> WillFeed(s, q)
      /\ Gone' <=> (Gone \/ e.event = "left")
  BY <1>a, <1>b, <1>l, <1>u, Emitted
<1>3. OnlyEnds'
  <2>1. /\ \A i \in DOMAIN events : events'[i] = events[i]
        /\ \A i \in DOMAIN events' : i \in DOMAIN events \/ i = Len(events) + 1
        /\ \A i \in DOMAIN events : Fresh(i)' <=> Fresh(i) /\ e.event # "left"
        /\ events'[Len(events) + 1] = e
    BY <1>a, <1>b, <1>l, <1>t, EventsMore DEF RemoteTypeOK
  <2> QED
    BY <2>1, <1>a, <1>0 DEF OnlyEnds
<1>4. SessionRight'
  <2>1. /\ (\A i \in DOMAIN events : events[i].event = "offer" =>
               events[i].of # 0 /\ (events[i].of = present <=> Fresh(i)))'
        /\ (\A i \in DOMAIN coming : coming[i][2] # 0 /\ (coming[i][2] = present => ~Gone))'
    BY <1>a, <1>b, <1>l, <1>u, <1>0, SessionsKept
  <2> QED
    BY <2>1, <1>0, <1>2, <1>3, <1>t, <1>u DEF SessionRight, Stale
<1>5. ASSUME NEW s \in Sources
      PROVE  (OnIsSeen(s) /\ OffIsQuiet(s) /\ OnIsAsked(s) /\ AskedIsFed(s) /\ FedHasTrack(s))'
  <2>1. Gone \/ s \notin subscribed
    BY <1>0, <1>t DEF SessionRight
  <2> QED
    BY <2>1, <1>0, <1>2, <1>u DEF OnIsSeen, OffIsQuiet, OnIsAsked, AskedIsFed, FedHasTrack
<1> QED
  BY <1>2, <1>4, <1>5 DEF RemoteAgrees

(* A set in some order: every member once.                                 *)
LEMMA SetToSeqFacts ==
    ASSUME NEW S, IsFiniteSet(S)
    PROVE  /\ SetToSeq(S) \in Seq(S)
           /\ \A i, k \in DOMAIN SetToSeq(S) : SetToSeq(S)[i] = SetToSeq(S)[k] => i = k
           /\ \A x \in S : \E i \in DOMAIN SetToSeq(S) : SetToSeq(S)[i] = x
<1> DEFINE n == Cardinality(S)
           f == SetToSeq(S)
<1>1. n \in Nat /\ ExistsBijection(1..n, S)
  BY FS_CardinalityType
<1>2. \E g \in [1..n -> S] : IsInjective(g)
  BY <1>1 DEF ExistsBijection, Bijection, Injection, IsInjective
<1>3. f \in [1..n -> S] /\ IsInjective(f)
  BY <1>2 DEF SetToSeq
<1>4. f \in Injection(1..n, S)
  BY <1>3 DEF Injection
<1>5. IsFiniteSet(1..n) /\ Cardinality(1..n) = n
  BY <1>1, FS_Interval
<1>6. f \in Surjection(1..n, S)
  BY <1>4, <1>5, FS_Injection
<1>7. \A x \in S : \E i \in 1..n : f[i] = x
  BY <1>6 DEF Surjection
<1>8. f \in Seq(S) /\ DOMAIN f = 1..n
  BY <1>1, <1>3
<1> QED
  BY <1>3, <1>7, <1>8 DEF IsInjective

(* One event or command for each of some sources.                          *)
LEMMA PairFinite ==
    ASSUME NEW a, NEW b, NEW S \in SUBSET {a, b}
    PROVE  IsFiniteSet(S)
<1>1. IsFiniteSet({a})
  BY FS_Singleton
<1>2. IsFiniteSet({a} \cup {b})
  BY <1>1, FS_AddElement
<1>3. S \in SUBSET ({a} \cup {b})
  OBVIOUS
<1> QED
  BY <1>2, <1>3, FS_Subset

Wished(W, l) == {AskForVideo(s, TRUE, l) : s \in W}
Snapshot(W, p) == {[event |-> "published", source |-> s, of |-> p] : s \in W}
Announces(t, W, p) ==
    /\ t \in Seq(Event)
    /\ \A i \in DOMAIN t : t[i].event = "published" /\ t[i].source \in W /\ t[i].of = p
    /\ \A s \in W : \E i \in DOMAIN t : t[i].source = s

LEMMA WishesAsked ==
    ASSUME NEW W \in SUBSET Sources, NEW l \in BOOLEAN,
           NEW t, t = SetToSeq(Wished(W, l))
    PROVE  /\ t \in Seq(Ask)
           /\ \A i \in DOMAIN t : /\ t[i].source \in W /\ t[i].got = "nothing"
                                  /\ t[i].quality = QualityFor(t[i].source, l)
           /\ \A i, k \in DOMAIN t : t[i].source = t[k].source => i = k
           /\ \A s \in W : \E i \in DOMAIN t : t[i].source = s
<1> DEFINE S == Wished(W, l)
<1>1. S \in SUBSET {AskForVideo("camera", TRUE, l), AskForVideo("screen", TRUE, l)}
  BY DEF Sources, Wished
<1>2. IsFiniteSet(S)
  BY <1>1, PairFinite
<1>3. S \subseteq Ask
  <2> SUFFICES ASSUME NEW s \in W PROVE AskForVideo(s, TRUE, l) \in Ask
    BY DEF Wished
  <2>1. QualityFor(s, TRUE) \in {"low", "high"} /\ QualityFor(s, l) \in {"low", "high"} /\ s \in Sources
    BY DEF QualityFor
  <2> QED
    BY <2>1 DEF AskForVideo, Ask
<1>4. \A a \in S : /\ a.source \in W /\ a.got = "nothing" /\ a.quality = QualityFor(a.source, l)
                   /\ a = AskForVideo(a.source, TRUE, l)
  BY DEF AskForVideo, Wished
<1>5. \A s \in W : AskForVideo(s, TRUE, l) \in S /\ AskForVideo(s, TRUE, l).source = s
  BY DEF AskForVideo, Wished
<1> HIDE DEF S
<1>6. /\ t \in Seq(S)
      /\ \A i, k \in DOMAIN t : t[i] = t[k] => i = k
      /\ \A x \in S : \E i \in DOMAIN t : t[i] = x
  BY <1>2, SetToSeqFacts DEF S
<1>7. \A i \in DOMAIN t : t[i] \in S
  BY <1>6
<1>8. t \in Seq(Ask)
  BY <1>3, <1>6
<1>9. ASSUME NEW i \in DOMAIN t, NEW k \in DOMAIN t, t[i].source = t[k].source PROVE i = k
  <2>1. t[i] = AskForVideo(t[i].source, TRUE, l) /\ t[k] = AskForVideo(t[k].source, TRUE, l)
    BY <1>4, <1>7
  <2>2. t[i] = t[k]
    BY <2>1, <1>9
  <2> QED
    BY <2>2, <1>6
<1>10. ASSUME NEW s \in W PROVE \E i \in DOMAIN t : t[i].source = s
  <2>1. PICK x \in S : x.source = s
    BY <1>5
  <2>2. PICK i \in DOMAIN t : t[i] = x
    BY <1>6
  <2> QED
    BY <2>1, <2>2
<1> QED
  BY <1>4, <1>7, <1>8, <1>9, <1>10

(* The snapshot a new session gets.                                        *)
LEMMA SnapshotSent ==
    ASSUME NEW W \in SUBSET Sources, NEW p \in Nat,
           NEW t, t = SetToSeq(Snapshot(W, p))
    PROVE  Announces(t, W, p)
<1> USE DEF Announces
<1> DEFINE Say(s) == [event |-> "published", source |-> s, of |-> p]
           S == Snapshot(W, p)
<1>1. S \in SUBSET {Say("camera"), Say("screen")}
  BY DEF Sources, Snapshot
<1>2. IsFiniteSet(S)
  BY <1>1, PairFinite
<1>3. S \subseteq Event
  BY DEF Event, Kinds, Snapshot
<1>4. \A a \in S : a.event = "published" /\ a.source \in W /\ a.of = p
  BY DEF Snapshot
<1>5. \A s \in W : Say(s) \in S /\ Say(s).source = s
  BY DEF Snapshot
<1>6. t = SetToSeq(S)
  OBVIOUS
<1> HIDE DEF S
<1>7. t \in Seq(S) /\ \A x \in S : \E i \in DOMAIN t : t[i] = x
  BY <1>2, <1>6, SetToSeqFacts
<1>8. \A i \in DOMAIN t : t[i] \in S
  BY <1>7
<1>9. t \in Seq(Event)
  BY <1>3, <1>7
<1>10. ASSUME NEW s \in W PROVE \E i \in DOMAIN t : t[i].source = s
  <2>1. PICK x \in S : x.source = s
    BY <1>5
  <2>2. PICK i \in DOMAIN t : t[i] = x
    BY <1>7
  <2> QED
    BY <2>1, <2>2
<1> QED
  BY <1>4, <1>8, <1>9, <1>10

(* Commands are added: what will be fed follows the last one of a source.  *)
LEMMA AsksMore ==
    ASSUME asks \in Seq(Ask), NEW t \in Seq(Ask), asks' = asks \o t,
           \A i \in DOMAIN t : t[i].got = "nothing",
           \A i, k \in DOMAIN t : t[i].source = t[k].source => i = k,
           NEW s, want'[s] = want[s]
    PROVE  /\ asks' \in Seq(Ask)
           /\ \A i \in DOMAIN asks : i \in DOMAIN asks' /\ asks'[i] = asks[i]
           /\ \A i \in DOMAIN asks' : i \notin DOMAIN asks => \E k \in DOMAIN t : asks'[i] = t[k]
           /\ \A k \in DOMAIN t : t[k].source = s => WillFeed(s, t[k].quality)'
           /\ \A q : (\A k \in DOMAIN t : t[k].source # s) => (WillFeed(s, q) => WillFeed(s, q)')
<1> DEFINE n == Len(asks)
<1>1. /\ asks' \in Seq(Ask) /\ n \in Nat
      /\ \A i \in DOMAIN asks : i \in DOMAIN asks' /\ asks'[i] = asks[i] /\ i \in Nat /\ i <= n
      /\ \A k \in DOMAIN t : k + n \in DOMAIN asks' /\ asks'[k + n] = t[k] /\ k \in Nat /\ k >= 1
      /\ \A i \in DOMAIN asks' : i \in DOMAIN asks \/ (i - n \in DOMAIN t /\ asks'[i] = t[i - n])
      /\ \A i \in DOMAIN asks' : i \in Nat
  OBVIOUS
<1> HIDE DEF n
<1>2. ASSUME NEW k \in DOMAIN t, t[k].source = s PROVE WillFeed(s, t[k].quality)'
  <2>1. k + n \in DOMAIN asks' /\ asks'[k + n] = t[k]
    BY <1>1
  <2>2. ASSUME NEW i \in DOMAIN asks', i > k + n PROVE ~ToServe(asks'[i], s)
    <3>1. i \notin DOMAIN asks
      BY <1>1, <2>2
    <3>2. i - n \in DOMAIN t /\ asks'[i] = t[i - n] /\ i - n # k
      BY <1>1, <2>2, <3>1
    <3> QED
      BY <3>2, <1>2 DEF ToServe
  <2> QED
    BY <2>1, <2>2, <1>2 DEF WillFeed, ToServe
<1>3. ASSUME NEW q, \A k \in DOMAIN t : t[k].source # s, WillFeed(s, q) PROVE WillFeed(s, q)'
  <2>1. \A i \in DOMAIN asks' : ToServe(asks'[i], s) => i \in DOMAIN asks /\ asks'[i] = asks[i]
    BY <1>1, <1>3 DEF ToServe
  <2>2. CASE want[s] = q /\ \A k \in DOMAIN asks : ~ToServe(asks[k], s)
    <3>1. \A k \in DOMAIN asks' : ~ToServe(asks'[k], s)
      BY <2>1, <2>2
    <3> QED
      BY <3>1, <2>2 DEF WillFeed, ToServe
  <2>3. ASSUME NEW i \in DOMAIN asks, ToServe(asks[i], s), asks[i].quality = q,
               \A k \in DOMAIN asks : k > i => ~ToServe(asks[k], s)
        PROVE  WillFeed(s, q)'
    <3>1. \A k \in DOMAIN asks' : k > i => ~ToServe(asks'[k], s)
      BY <2>1, <2>3
    <3>2. i \in DOMAIN asks' /\ asks'[i] = asks[i]
      BY <1>1
    <3> QED
      BY <3>1, <3>2, <2>3 DEF WillFeed, ToServe
  <2> QED
    BY <2>2, <2>3, <1>3 DEF WillFeed
<1> QED
  BY <1>1, <1>2, <1>3

(* The first command, answered or failed.                                  *)
LEMMA AskServed ==
    ASSUME asks \in Seq(Ask), asks # <<>>, NEW g \in {"ack", "timeout"},
           asks' = [asks EXCEPT ![1].got = g], Head(asks).got = "nothing"
    PROVE  /\ asks' \in Seq(Ask) /\ 1 \in DOMAIN asks /\ asks[1] = Head(asks)
           /\ DOMAIN asks' = DOMAIN asks /\ asks'[1].got = g
           /\ \A i \in DOMAIN asks : asks'[i].source = asks[i].source
           /\ \A i \in DOMAIN asks : i # 1 => asks'[i] = asks[i]
           /\ \A s, q : (s # asks[1].source /\ want'[s] = want[s])
                            \/ (s = asks[1].source /\ want'[s] = asks[1].quality)
                          => (WillFeed(s, q) => WillFeed(s, q)')
<1>1. /\ 1 \in DOMAIN asks /\ asks[1] = Head(asks) /\ asks[1] \in Ask
      /\ \A i \in DOMAIN asks : i \in Nat /\ i >= 1
  OBVIOUS
<1>2. /\ DOMAIN asks' = DOMAIN asks
      /\ \A i \in DOMAIN asks : i # 1 => asks'[i] = asks[i]
      /\ asks'[1] = [asks[1] EXCEPT !.got = g]
  BY <1>1
<1>3. asks'[1] \in Ask /\ asks'[1].got = g /\ asks'[1].source = asks[1].source
  BY <1>1, <1>2 DEF Ask
<1>4. asks' \in Seq(Ask)
  BY <1>1, <1>3
<1>5. \A s : ~ToServe(asks'[1], s)
  BY <1>3 DEF ToServe
<1>6. ASSUME NEW s, NEW q, WillFeed(s, q), s # asks[1].source, want'[s] = want[s]
      PROVE  WillFeed(s, q)'
  <2>1. \A i \in DOMAIN asks : ToServe(asks'[i], s) <=> ToServe(asks[i], s)
    BY <1>2, <1>5, <1>6 DEF ToServe
  <2>2. \A i \in DOMAIN asks : ToServe(asks[i], s) => asks'[i] = asks[i]
    BY <1>2, <1>6 DEF ToServe
  <2> QED
    BY ONLY <2>1, <2>2, <1>2, <1>6 DEF WillFeed
<1>7. ASSUME NEW s, NEW q, WillFeed(s, q), s = asks[1].source, want'[s] = asks[1].quality
      PROVE  WillFeed(s, q)'
  <2>1. ToServe(asks[1], s)
    BY <1>1, <1>7 DEF ToServe
  <2>2. PICK i \in DOMAIN asks : /\ ToServe(asks[i], s) /\ asks[i].quality = q
                                 /\ \A k \in DOMAIN asks : k > i => ~ToServe(asks[k], s)
    BY <2>1, <1>1, <1>7 DEF WillFeed
  <2>3. CASE i = 1
    <3>1. \A k \in DOMAIN asks' : ~ToServe(asks'[k], s)
      BY <2>2, <2>3, <1>1, <1>2, <1>5
    <3> QED
      BY <3>1, <2>2, <2>3, <1>7 DEF WillFeed
  <2>4. CASE i # 1
    <3>1. \A k \in DOMAIN asks' : k > i => ~ToServe(asks'[k], s)
      BY <2>2, <2>4, <1>1, <1>2
    <3> QED
      BY <3>1, <2>2, <2>4, <1>2 DEF WillFeed
  <2> QED
    BY <2>3, <2>4
<1> QED
  BY <1>1, <1>2, <1>3, <1>4, <1>6, <1>7

LEMMA ServeKeeps ==
    ASSUME RemoteAgrees, ServeAsk
    PROVE  RemoteAgrees'
<1>t. /\ RemoteTypeOK /\ SessionRight /\ ViewRight /\ asks \in Seq(Ask) /\ events \in Seq(Event)
      /\ want \in [Sources -> {"none", "low", "high"}]
      /\ \A s \in Sources :
           OnIsSeen(s) /\ OffIsQuiet(s) /\ OnIsAsked(s) /\ AskedIsFed(s) /\ FedHasTrack(s)
  BY DEF RemoteAgrees, RemoteTypeOK
<1>u. /\ UNCHANGED <<present, active, tracked, untold, ending, coming, slot, tile, onScreen, hidden, subscribed, wishes,
                     debounce, loud, joins, failedAsk, lateTrack>>
      /\ asks # <<>> /\ Head(asks).got = "nothing"
  BY DEF ServeAsk, sourceVars, leaveVars, viewVars, boundVars, history
<1>n. LeftUntold' <=> LeftUntold
  BY <1>u DEF LeftUntold
<1>h. 1 \in DOMAIN asks /\ asks[1] = Head(asks) /\ asks[1] \in Ask /\ asks[1].got = "nothing"
  BY <1>t, <1>u
<1>s. asks[1].source \in Sources /\ asks[1].quality \in {"low", "high"}
  BY <1>h DEF Ask
<1>1. ViewRight' /\ (wishes # {} => debounce)'
  BY <1>t, <1>u DEF RemoteAgrees, ViewRight, Desired
<1>2. CASE asks[1].source \in tracked
  <2>1. /\ want' = [want EXCEPT ![asks[1].source] = asks[1].quality]
        /\ asks' = [asks EXCEPT ![1].got = "ack"]
    BY <1>2, <1>h DEF ServeAsk
  <2>2. /\ asks' \in Seq(Ask) /\ DOMAIN asks' = DOMAIN asks /\ asks'[1].got = "ack"
        /\ \A i \in DOMAIN asks : asks'[i].source = asks[i].source
        /\ \A i \in DOMAIN asks : i # 1 => asks'[i] = asks[i]
        /\ \A s \in Sources : \A q : WillFeed(s, q) => WillFeed(s, q)'
    <3>1. \A s \in Sources : (s # asks[1].source /\ want'[s] = want[s])
                               \/ (s = asks[1].source /\ want'[s] = asks[1].quality)
      BY <2>1, <1>t, <1>s
    <3> QED
      BY <3>1, <2>1, <1>t, <1>u, AskServed
  <2>3. Failing' <=> Failing
    BY <2>2, <1>h, <1>u DEF Failing
  <2>4. /\ want' \in [Sources -> {"none", "low", "high"}]
        /\ \A s \in Sources : s # asks[1].source => want'[s] = want[s]
        /\ \A s \in Sources : want'[s] # "none" => s \in tracked \/ Stale(s)'
    BY <2>1, <1>2, <1>t, <1>s, <1>u DEF SessionRight, Stale
  <2>5. present # 0 /\ ~LeftUntold
    BY <1>2, <1>t DEF SessionRight, LeftUntold
  <2>6. /\ events' \in Seq(Event) /\ (\A i \in DOMAIN events : events[i].of <= joins)'
        /\ Gone' <=> Gone
        /\ \A s \in Sources : Awaits("published", s)' <=> Awaits("published", s)
        /\ \A s \in Sources : Awaits("offer", s)' <=>
             Awaits("offer", s) \/ (s = asks[1].source /\ want[s] = "none")
        /\ \A s \in Sources : Hides(s)' <=> Hides(s)
        /\ (\A i \in DOMAIN events : events[i].event = "offer" =>
              events[i].of # 0 /\ (events[i].of = present <=> Fresh(i)))'
    <3>1. CASE want[asks[1].source] = "none"
      <4>1. PICK e \in Event : e = [event |-> "offer", source |-> asks[1].source, of |-> present]
        BY <1>s, <1>t DEF RemoteTypeOK, Event, Kinds
      <4>2. events' = Append(events, e)
        BY <4>1, <3>1, <1>2, <1>h DEF ServeAsk, Emit, EmitOf
      <4>3. e.event = "offer" /\ e.source = asks[1].source /\ e.of = present /\ \A s : ~Turns(e, s)
        BY <4>1 DEF Turns
      <4>4. /\ events' \in Seq(Event) /\ events'[Len(events) + 1] = e
            /\ \A i \in DOMAIN events : i \in DOMAIN events' /\ events'[i] = events[i]
            /\ \A i \in DOMAIN events' : i \in DOMAIN events \/ i = Len(events) + 1
            /\ Gone' <=> Gone
            /\ \A i \in DOMAIN events : Fresh(i)' <=> Fresh(i)
            /\ \A i \in DOMAIN events' : i = Len(events) + 1 => Fresh(i)'
            /\ \A s \in Sources : Awaits("published", s)' <=> Awaits("published", s)
            /\ \A s \in Sources : Awaits("offer", s)' <=> Awaits("offer", s) \/ s = asks[1].source
        BY <4>2, <4>3, <2>5, <1>n, <1>t, EventsMore
      <4>5. \A s : Hides(s)' <=> Hides(s)
        BY <4>2, <4>3, <1>t, <1>u, HidesMore
      <4>6. ASSUME NEW i \in DOMAIN events'
            PROVE  /\ events'[i].of <= joins
                   /\ events'[i].event = "offer" =>
                        events'[i].of # 0 /\ (events'[i].of = present <=> Fresh(i)')
        <5>1. CASE i \in DOMAIN events
          BY <5>1, <4>4, <1>t DEF RemoteTypeOK, SessionRight
        <5>2. CASE i = Len(events) + 1
          BY <5>2, <4>3, <4>4, <2>5, <1>t DEF RemoteTypeOK
        <5> QED
          BY <5>1, <5>2, <4>4
      <4>7. \A s \in Sources : Awaits("offer", s)' <=>
             Awaits("offer", s) \/ (s = asks[1].source /\ want[s] = "none")
        BY <3>1, <4>4
      <4>8. /\ (\A i \in DOMAIN events : events[i].of <= joins)'
            /\ (\A i \in DOMAIN events : events[i].event = "offer" =>
                  events[i].of # 0 /\ (events[i].of = present <=> Fresh(i)))'
        BY <4>6, <1>u
      <4> QED
        BY <4>4, <4>5, <4>7, <4>8
    <3>2. CASE want[asks[1].source] # "none"
      <4>1. events' = events
        BY <3>2, <1>2, <1>h DEF ServeAsk
      <4>2. \A i : Fresh(i)' <=> Fresh(i)
        BY <4>1, <1>n DEF Fresh, IsLeft
      <4>3. Gone' <=> Gone
        BY <4>1, <1>n DEF Gone, IsLeft
      <4>4. \A s : Hides(s)' <=> Hides(s)
        BY <4>1, <1>u DEF Hides
      <4>5. \A kind, s : Awaits(kind, s)' <=> Awaits(kind, s)
        BY <4>1, <4>2 DEF Awaits
      <4>6. \A i \in DOMAIN events : events[i].event = "offer" =>
              events[i].of # 0 /\ (events[i].of = present <=> Fresh(i))
        BY <1>t DEF SessionRight
      <4>7. \A i \in DOMAIN events : events[i].of <= joins
        BY <1>t DEF RemoteTypeOK
      <4> QED
        BY <4>1, <4>2, <4>3, <4>4, <4>5, <4>6, <4>7, <3>2, <1>t, <1>u
    <3> QED
      BY <3>1, <3>2
  <2>7. RemoteTypeOK'
    BY <2>2, <2>4, <2>6, <1>t, <1>u DEF RemoteTypeOK
  <2>8. SessionRight'
    BY <2>4, <2>5, <2>6, <1>t, <1>u DEF SessionRight
  <2>9. ASSUME NEW s \in Sources
        PROVE  (OnIsSeen(s) /\ OffIsQuiet(s) /\ OnIsAsked(s) /\ AskedIsFed(s) /\ FedHasTrack(s))'
    <3>1. OnIsSeen(s)' /\ OnIsAsked(s)' /\ AskedIsFed(s)'
      BY <2>2, <2>3, <2>6, <1>t, <1>u DEF OnIsSeen, OnIsAsked, AskedIsFed
    <3>2. FedHasTrack(s)'
      BY <2>4, <2>6, <1>t, <1>u DEF FedHasTrack
    <3>3. NotAsked(s) => s # asks[1].source
      BY <1>2, <1>h DEF NotAsked
    <3>4. NotAsked(s) => NotAsked(s)'
      BY <3>3, <2>2, <2>4, <2>6, <1>u DEF NotAsked
    <3>5. OffIsQuiet(s)'
      BY <3>4, <2>6, <1>t, <1>u DEF OffIsQuiet
    <3> QED
      BY <3>1, <3>2, <3>5
  <2>10. (\A i \in DOMAIN asks : i # 1 => asks[i].got = "nothing")'
    BY <2>2 DEF RemoteAgrees
  <2> QED
    BY <1>1, <2>7, <2>8, <2>9, <2>10 DEF RemoteAgrees
<1>3. CASE asks[1].source \notin tracked
  <2>1. UNCHANGED <<want, events>> /\ asks' = [asks EXCEPT ![1].got = "timeout"]
    BY <1>3, <1>h DEF ServeAsk
  <2>2. /\ asks' \in Seq(Ask) /\ DOMAIN asks' = DOMAIN asks /\ asks'[1].got = "timeout"
        /\ \A i \in DOMAIN asks : asks'[i].source = asks[i].source
        /\ \A i \in DOMAIN asks : i # 1 => asks'[i] = asks[i]
    BY <2>1, <1>t, <1>u, AskServed
  <2>3. Failing'
    BY <2>2, <1>h DEF Failing
  <2>4. /\ Gone' <=> Gone
        /\ \A i : Fresh(i)' <=> Fresh(i)
        /\ \A s : Hides(s)' <=> Hides(s)
    BY <2>1, <1>u, <1>n DEF Gone, Fresh, IsLeft, Hides
  <2>5. \A kind, s : Awaits(kind, s)' <=> Awaits(kind, s)
    BY <2>1, <2>4 DEF Awaits
  <2>6. RemoteTypeOK'
    BY <2>1, <2>2, <1>t, <1>u DEF RemoteTypeOK
  <2>7. SessionRight'
    BY <2>1, <2>4, <1>t, <1>u DEF SessionRight, Stale, OnlyEnds
  <2>8. ASSUME NEW s \in Sources
        PROVE  (OnIsSeen(s) /\ OffIsQuiet(s) /\ OnIsAsked(s) /\ AskedIsFed(s) /\ FedHasTrack(s))'
    <3>1. NotAsked(s) => NotAsked(s)'
      BY <2>1, <2>2, <2>4, <2>5, <1>u DEF NotAsked
    <3> QED
      BY <3>1, <2>1, <2>3, <2>4, <2>5, <1>t, <1>u
         DEF OnIsSeen, OffIsQuiet, OnIsAsked, AskedIsFed, FedHasTrack
  <2>9. (\A i \in DOMAIN asks : i # 1 => asks[i].got = "nothing")'
    BY <2>2 DEF RemoteAgrees
  <2> QED
    BY <1>1, <2>6, <2>7, <2>8, <2>9 DEF RemoteAgrees
<1> QED
  BY <1>2, <1>3

(* Events that stay leave what is said of them as it is.                   *)
LEMMA EventsStay ==
    ASSUME UNCHANGED <<events, hidden>>, LeftUntold' <=> LeftUntold
    PROVE  /\ Gone' <=> Gone
           /\ \A i : (Fresh(i)' <=> Fresh(i)) /\ (IsLeft(i)' <=> IsLeft(i))
           /\ \A s : Hides(s)' <=> Hides(s)
           /\ \A kind, s : Awaits(kind, s)' <=> Awaits(kind, s)
<1>1. \A i : (Fresh(i)' <=> Fresh(i)) /\ (IsLeft(i)' <=> IsLeft(i))
  BY DEF Fresh, IsLeft
<1>2. Gone' <=> Gone
  BY <1>1 DEF Gone
<1>3. \A s : Hides(s)' <=> Hides(s)
  BY DEF Hides
<1>4. \A kind, s : Awaits(kind, s)' <=> Awaits(kind, s)
  BY <1>1 DEF Awaits
<1> QED
  BY <1>1, <1>2, <1>3, <1>4

(* A feed ends, while the user is gone.                                    *)
LEMMA FeedEndKeeps ==
    ASSUME RemoteAgrees, NEW x, NEW p, EndFeed(x, p)
    PROVE  RemoteAgrees'
<1>t. /\ RemoteTypeOK /\ SessionRight /\ ViewRight
      /\ want \in [Sources -> {"none", "low", "high"}]
      /\ \A s \in Sources : OnIsSeen(s) /\ FedHasTrack(s)
  BY DEF RemoteAgrees, RemoteTypeOK
<1>u. /\ UNCHANGED <<present, active, tracked, untold, events, coming, slot, tile, onScreen, hidden,
                     subscribed, wishes, debounce, loud, asks, joins, failedAsk, lateTrack>>
      /\ <<x, p>> \in ending /\ ending' = ending \ {<<x, p>>}
      /\ want' = [want EXCEPT ![x] = "none"]
  BY DEF EndFeed, sourceVars, viewVars, subVars, boundVars, history
<1>0. present = 0 /\ active = {} /\ tracked = {}
  BY <1>t, <1>u DEF SessionRight
<1>4. /\ Gone' <=> Gone
      /\ \A i : (Fresh(i)' <=> Fresh(i)) /\ (IsLeft(i)' <=> IsLeft(i))
  <2>1. LeftUntold' <=> LeftUntold
    BY <1>u DEF LeftUntold
  <2> QED
    BY <2>1, <1>u, EventsStay
<1>w. want' \in [Sources -> {"none", "low", "high"}] /\ \A s \in Sources : want'[s] # "none" =>
        s # x /\ want'[s] = want[s]
  BY <1>t, <1>u
<1>1. RemoteTypeOK'
  BY <1>t, <1>u, <1>w DEF RemoteTypeOK
<1>2. ViewRight' /\ (wishes # {} => debounce)'
      /\ (\A i \in DOMAIN asks : i # 1 => asks[i].got = "nothing")'
  BY <1>t, <1>u DEF RemoteAgrees, ViewRight, Desired
<1>3. SessionRight'
  <2>1. ASSUME NEW s \in Sources, want'[s] # "none" PROVE Stale(s)'
    <3>1. PICK feed \in ending : feed[1] = s
      BY <2>1, <1>0, <1>t, <1>w DEF SessionRight, Stale
    <3>2. <<x, p>>[1] = x
      OBVIOUS
    <3>3. feed \in ending'
      BY <3>1, <3>2, <2>1, <1>u, <1>w
    <3> QED
      BY ONLY <3>1, <3>3 DEF Stale
  <2>2. OnlyEnds'
    BY <1>0, <1>4, <1>t, <1>u DEF SessionRight, OnlyEnds
  <2> QED
    BY <2>1, <2>2, <1>0, <1>4, <1>t, <1>u DEF SessionRight
<1>5. ASSUME NEW s \in Sources
      PROVE  (OnIsSeen(s) /\ OffIsQuiet(s) /\ OnIsAsked(s) /\ AskedIsFed(s) /\ FedHasTrack(s))'
  <2>1. Gone \/ s \notin subscribed
    BY <1>0, <1>t DEF SessionRight
  <2> QED
    BY <2>1, <1>0, <1>4, <1>u DEF OnIsSeen, OffIsQuiet, OnIsAsked, AskedIsFed, FedHasTrack
<1> QED
  BY <1>1, <1>2, <1>3, <1>5 DEF RemoteAgrees

LEMMA FlushKeeps ==
    ASSUME RemoteAgrees, FlushPendingSubscriptions
    PROVE  RemoteAgrees'
<1>t. /\ RemoteTypeOK /\ SessionRight /\ ViewRight /\ asks \in Seq(Ask) /\ loud \in BOOLEAN
      /\ wishes \in SUBSET Sources /\ subscribed \subseteq Sources
      /\ \A s \in Sources :
           OnIsSeen(s) /\ OffIsQuiet(s) /\ OnIsAsked(s) /\ AskedIsFed(s) /\ FedHasTrack(s)
  BY DEF RemoteAgrees, RemoteTypeOK
<1>u. /\ UNCHANGED <<present, active, tracked, untold, ending, want, events, coming, slot, tile, onScreen, hidden,
                     loud, joins, failedAsk, lateTrack>>
      /\ debounce' = FALSE /\ wishes' = {} /\ subscribed' = subscribed \cup wishes
  BY DEF FlushPendingSubscriptions, roomVars, sourceVars, leaveVars, viewVars, boundVars, history
<1>0. PICK t : t = SetToSeq(Wished(wishes, loud))
  OBVIOUS
<1>1. asks' = asks \o t
  BY <1>0 DEF FlushPendingSubscriptions, Wished
<1>2. /\ t \in Seq(Ask)
      /\ \A i \in DOMAIN t : /\ t[i].source \in wishes /\ t[i].got = "nothing"
                             /\ t[i].quality = QualityFor(t[i].source, loud)
      /\ \A i, k \in DOMAIN t : t[i].source = t[k].source => i = k
      /\ \A s \in wishes : \E i \in DOMAIN t : t[i].source = s
  <2>1. wishes \in SUBSET Sources /\ loud \in BOOLEAN
    BY <1>t
  <2> QED
    BY ONLY <1>0, <2>1, WishesAsked
<1>3. /\ asks' \in Seq(Ask)
      /\ \A i \in DOMAIN asks : i \in DOMAIN asks' /\ asks'[i] = asks[i]
      /\ \A i \in DOMAIN asks' : i \notin DOMAIN asks => \E k \in DOMAIN t : asks'[i] = t[k]
      /\ \A s : \A k \in DOMAIN t : t[k].source = s => WillFeed(s, t[k].quality)'
      /\ \A s : \A q : (\A k \in DOMAIN t : t[k].source # s) => (WillFeed(s, q) => WillFeed(s, q)')
  <2>1. ASSUME NEW s
        PROVE  /\ asks' \in Seq(Ask)
               /\ \A i \in DOMAIN asks : i \in DOMAIN asks' /\ asks'[i] = asks[i]
               /\ \A i \in DOMAIN asks' : i \notin DOMAIN asks => \E k \in DOMAIN t : asks'[i] = t[k]
               /\ \A k \in DOMAIN t : t[k].source = s => WillFeed(s, t[k].quality)'
               /\ \A q : (\A k \in DOMAIN t : t[k].source # s) => (WillFeed(s, q) => WillFeed(s, q)')
    <3>1. want'[s] = want[s] /\ asks \in Seq(Ask) /\ t \in Seq(Ask)
      BY <1>u, <1>t, <1>2
    <3>2. /\ \A i \in DOMAIN t : t[i].got = "nothing"
          /\ \A i, k \in DOMAIN t : t[i].source = t[k].source => i = k
      BY <1>2
    <3> QED
      BY ONLY <3>1, <3>2, <1>1, AsksMore
  <2> QED
    BY <2>1
<1>4. /\ Gone' <=> Gone
      /\ \A i : (Fresh(i)' <=> Fresh(i)) /\ (IsLeft(i)' <=> IsLeft(i))
      /\ \A s : Hides(s)' <=> Hides(s)
      /\ \A kind, s : Awaits(kind, s)' <=> Awaits(kind, s)
  <2>1. LeftUntold' <=> LeftUntold
    BY <1>u DEF LeftUntold
  <2> QED
    BY <2>1, <1>u, EventsStay
<1>5. \A i \in DOMAIN asks' : i \in DOMAIN asks \/ (asks'[i].got = "nothing" /\ asks'[i].source \in wishes)
  BY <1>2, <1>3
<1>6. (\A i \in DOMAIN asks : i # 1 => asks[i].got = "nothing")'
  BY <1>3, <1>5 DEF RemoteAgrees
<1>7. Failing' <=> Failing
  BY <1>3, <1>5, <1>u DEF Failing
<1>8. RemoteTypeOK'
  BY <1>3, <1>t, <1>u DEF RemoteTypeOK
<1>9. ViewRight' /\ (wishes # {} => debounce)'
  BY <1>t, <1>u DEF ViewRight, Desired
<1>10. SessionRight'
  BY <1>4, <1>t, <1>u DEF SessionRight, Stale, OnlyEnds
<1>11. ASSUME NEW s \in Sources
       PROVE  (OnIsSeen(s) /\ OffIsQuiet(s) /\ OnIsAsked(s) /\ AskedIsFed(s) /\ FedHasTrack(s))'
  <2>1. OnIsSeen(s)' /\ OnIsAsked(s)' /\ FedHasTrack(s)'
    BY <1>4, <1>7, <1>t, <1>u DEF OnIsSeen, OnIsAsked, FedHasTrack
  <2>2. NotAsked(s) => NotAsked(s)'
    <3>1. ASSUME NotAsked(s), s \in tracked, NEW i \in DOMAIN asks' PROVE asks'[i].source # s
      BY <3>1, <1>3, <1>5 DEF NotAsked
    <3> QED
      BY <3>1, <1>4, <1>u DEF NotAsked
  <2>3. OffIsQuiet(s)'
    BY <2>2, <1>4, <1>t, <1>u DEF OffIsQuiet
  <2>4. AskedIsFed(s)'
    <3>1. CASE s \in wishes
      <4>1. PICK k \in DOMAIN t : t[k].source = s
        BY <3>1, <1>2
      <4>2. \A q : q = t[k].quality => WillFeed(s, q)'
        BY <4>1, <1>3
      <4>3. \A q : q = QualityFor(s, loud) => WillFeed(s, q)'
        BY <4>1, <4>2, <1>2
      <4>4. ASSUME NEW q, q = QualityFor(s, loud) PROVE AskedIsFed(s)'
        BY <4>3, <4>4, <1>u DEF AskedIsFed, QualityFor
      <4> QED
        BY <4>4
    <3>2. CASE s \notin wishes
      <4>1. \A q : WillFeed(s, q) => WillFeed(s, q)'
        BY <3>2, <1>2, <1>3
      <4> QED
        BY <4>1, <3>2, <1>4, <1>7, <1>t, <1>u DEF AskedIsFed
    <3> QED
      BY <3>1, <3>2
  <2> QED
    BY <2>1, <2>3, <2>4
<1> QED
  BY <1>6, <1>8, <1>9, <1>10, <1>11 DEF RemoteAgrees

LEMMA SettleKeeps ==
    ASSUME RemoteAgrees, SettleAsk
    PROVE  RemoteAgrees'
<1>t. /\ RemoteTypeOK /\ SessionRight /\ ViewRight /\ asks \in Seq(Ask) /\ subscribed \subseteq Sources
      /\ failedAsk \in BOOLEAN
      /\ \A s \in Sources :
           OnIsSeen(s) /\ OffIsQuiet(s) /\ OnIsAsked(s) /\ AskedIsFed(s) /\ FedHasTrack(s)
  BY DEF RemoteAgrees, RemoteTypeOK
<1>u. /\ UNCHANGED <<present, active, tracked, untold, ending, want, events, coming, slot, tile, onScreen, hidden,
                     wishes, debounce, loud, joins, lateTrack>>
      /\ asks # <<>> /\ Head(asks).got # "nothing" /\ asks' = Tail(asks)
      /\ failedAsk' = (failedAsk \/ Head(asks).got = "timeout")
  BY DEF SettleAsk, roomVars, sourceVars, leaveVars, viewVars, boundVars
<1>s. subscribed' \subseteq subscribed /\ (Head(asks).got # "timeout" => subscribed' = subscribed)
  BY DEF SettleAsk
<1>1. /\ asks' \in Seq(Ask) /\ 1 \in DOMAIN asks /\ Head(asks) = asks[1]
      /\ \A i \in DOMAIN asks' : /\ i + 1 \in DOMAIN asks /\ asks'[i] = asks[i + 1]
                                 /\ i \in Nat /\ i + 1 # 1
      /\ \A i \in DOMAIN asks : i # 1 => i - 1 \in DOMAIN asks' /\ asks'[i - 1] = asks[i]
                                         /\ i \in Nat
  BY <1>t, <1>u
<1>4. /\ Gone' <=> Gone
      /\ \A i : (Fresh(i)' <=> Fresh(i)) /\ (IsLeft(i)' <=> IsLeft(i))
      /\ \A s : Hides(s)' <=> Hides(s)
      /\ \A kind, s : Awaits(kind, s)' <=> Awaits(kind, s)
  <2>1. LeftUntold' <=> LeftUntold
    BY <1>u DEF LeftUntold
  <2> QED
    BY <2>1, <1>u, EventsStay
<1>5. \A i \in DOMAIN asks' : asks'[i].got = "nothing"
  BY <1>1 DEF RemoteAgrees
<1>6. (\A i \in DOMAIN asks : i # 1 => asks[i].got = "nothing")'
  BY <1>5
<1>7. Failing' <=> Failing
  <2>1. Failing => failedAsk \/ asks[1].got = "timeout"
    BY <1>1 DEF Failing, RemoteAgrees
  <2>2. Failing' <=> failedAsk'
    BY <1>5 DEF Failing
  <2>3. failedAsk \/ asks[1].got = "timeout" => Failing
    BY <1>1 DEF Failing
  <2> QED
    BY <2>1, <2>2, <2>3, <1>1, <1>u
<1>8. RemoteTypeOK'
  <2>1. failedAsk' \in BOOLEAN
    BY <1>u, <1>t
  <2> QED
    BY <2>1, <1>1, <1>s, <1>t, <1>u DEF RemoteTypeOK
<1>9. ViewRight' /\ (wishes # {} => debounce)'
  BY <1>t, <1>u DEF RemoteAgrees, ViewRight, Desired
<1>10. SessionRight'
  BY <1>4, <1>s, <1>t, <1>u DEF SessionRight, Stale, OnlyEnds
<1>11. ASSUME NEW s \in Sources
       PROVE  (OnIsSeen(s) /\ OffIsQuiet(s) /\ OnIsAsked(s) /\ AskedIsFed(s) /\ FedHasTrack(s))'
  <2>1. OnIsSeen(s)' /\ FedHasTrack(s)'
    BY <1>4, <1>t, <1>u DEF OnIsSeen, FedHasTrack
  <2>2. NotAsked(s) => NotAsked(s)'
    BY <1>1, <1>4, <1>s, <1>u DEF NotAsked
  <2>3. OffIsQuiet(s)'
    BY <2>2, <1>4, <1>t, <1>u DEF OffIsQuiet
  <2>4. Head(asks).got # "timeout" \/ Failing
    BY <1>1 DEF Failing
  <2>5. OnIsAsked(s)'
    BY <2>4, <1>4, <1>7, <1>s, <1>t, <1>u DEF OnIsAsked
  <2>6. ASSUME NEW q, WillFeed(s, q) PROVE WillFeed(s, q)'
    <3>1. \A i \in DOMAIN asks : ToServe(asks[i], s) => i # 1
      BY <1>1, <1>u DEF ToServe
    <3>2. CASE want[s] = q /\ \A k \in DOMAIN asks : ~ToServe(asks[k], s)
      <4>1. \A k \in DOMAIN asks' : ~ToServe(asks'[k], s)
        BY <3>2, <1>1
      <4> QED
        BY <4>1, <3>2, <1>u DEF WillFeed, ToServe
    <3>3. ASSUME NEW i \in DOMAIN asks, ToServe(asks[i], s), asks[i].quality = q,
                 \A k \in DOMAIN asks : k > i => ~ToServe(asks[k], s)
          PROVE  WillFeed(s, q)'
      <4>1. i - 1 \in DOMAIN asks' /\ asks'[i - 1] = asks[i] /\ i \in Nat
        BY <3>1, <3>3, <1>1
      <4>2. ASSUME NEW k \in DOMAIN asks', k > i - 1 PROVE ~ToServe(asks'[k], s)
        <5>1. k + 1 \in DOMAIN asks /\ asks'[k] = asks[k + 1] /\ k + 1 > i
          BY <4>1, <4>2, <1>1
        <5> QED
          BY <5>1, <3>3
      <4> QED
        BY <4>1, <4>2, <3>3 DEF WillFeed, ToServe
    <3> QED
      BY <3>2, <3>3, <2>6 DEF WillFeed
  <2>7. AskedIsFed(s)'
    BY <2>6, <1>4, <1>7, <1>s, <1>t, <1>u DEF AskedIsFed
  <2> QED
    BY <2>1, <2>3, <2>5, <2>7
<1> QED
  BY <1>6, <1>8, <1>9, <1>10, <1>11 DEF RemoteAgrees

(* A sequence without its first element.                                   *)
LEMMA TailFacts ==
    ASSUME NEW S, NEW q \in Seq(S), q # <<>>
    PROVE  /\ Tail(q) \in Seq(S) /\ 1 \in DOMAIN q /\ Head(q) = q[1] /\ q[1] \in S
           /\ \A i \in DOMAIN Tail(q) : i + 1 \in DOMAIN q /\ Tail(q)[i] = q[i + 1]
           /\ \A i \in DOMAIN q : i # 1 => i - 1 \in DOMAIN Tail(q) /\ Tail(q)[i - 1] = q[i]
  OBVIOUS

LEMMA TrackKeeps ==
    ASSUME RemoteAgrees, OnTrack
    PROVE  RemoteAgrees'
<1>t. /\ RemoteTypeOK /\ SessionRight /\ ViewRight /\ coming \in Seq(Sources \X Nat)
      /\ slot \in [Sources -> Nat]
      /\ \A s \in Sources :
           OnIsSeen(s) /\ OffIsQuiet(s) /\ OnIsAsked(s) /\ AskedIsFed(s) /\ FedHasTrack(s)
  BY DEF RemoteAgrees, RemoteTypeOK
<1>u. /\ UNCHANGED <<present, active, tracked, untold, ending, want, events, hidden, subscribed, wishes, debounce, loud,
                     asks, joins, failedAsk>>
      /\ coming # <<>> /\ coming' = Tail(coming)
      /\ tile' = TRUE /\ onScreen' = Desired(slot', hidden)
      /\ lateTrack' = (lateTrack \/ (Head(coming)[2] # present
                       /\ (\A word \in untold : word[1] # "left")
                       /\ \A i \in DOMAIN events : events[i].event # "left"))
  BY DEF OnTrack, ShowTile, roomVars, sourceVars, leaveVars, subVars, boundVars
<1>1. /\ coming' \in Seq(Sources \X Nat) /\ 1 \in DOMAIN coming /\ Head(coming) = coming[1]
      /\ coming[1] \in Sources \X Nat
      /\ \A i \in DOMAIN coming' : i + 1 \in DOMAIN coming /\ coming'[i] = coming[i + 1]
      /\ \A i \in DOMAIN coming : i # 1 => i - 1 \in DOMAIN coming' /\ coming'[i - 1] = coming[i]
  BY <1>t, <1>u, TailFacts
<1>2. PICK x \in Sources, p \in Nat : coming[1] = <<x, p>>
  BY <1>1
<1>h. Head(coming)[1] = x /\ Head(coming)[2] = p
  BY <1>1, <1>2
<1>3. slot' = [slot EXCEPT ![x] = p] /\ slot' \in [Sources -> Nat]
  <2>1. slot' = [slot EXCEPT ![Head(coming)[1]] = Head(coming)[2]]
    BY DEF OnTrack
  <2> QED
    BY <2>1, <1>h, <1>t
<1>l. lateTrack' <=> lateTrack \/ (p # present /\ ~Gone)
  BY <1>h, <1>u DEF Gone, IsLeft, LeftUntold
<1>4. /\ Gone' <=> Gone
      /\ \A i : (Fresh(i)' <=> Fresh(i)) /\ (IsLeft(i)' <=> IsLeft(i))
      /\ \A s : Hides(s)' <=> Hides(s)
      /\ \A kind, s : Awaits(kind, s)' <=> Awaits(kind, s)
  <2>1. LeftUntold' <=> LeftUntold
    BY <1>u DEF LeftUntold
  <2> QED
    BY <2>1, <1>u, EventsStay
<1>7. Failing' <=> Failing
  BY <1>u DEF Failing
<1>8. RemoteTypeOK'
  <2>1. lateTrack' \in BOOLEAN
    BY <1>u, <1>t DEF RemoteTypeOK
  <2>2. \A i \in DOMAIN coming' : coming'[i][2] <= joins
    BY <1>1, <1>t DEF RemoteTypeOK
  <2> QED
    BY <2>1, <2>2, <1>1, <1>3, <1>t, <1>u DEF RemoteTypeOK
<1>9. ViewRight' /\ (wishes # {} => debounce)'
  BY <1>u DEF RemoteAgrees, ViewRight, Desired
<1>10. SessionRight'
  <2>1. \A i \in DOMAIN coming' : coming'[i][2] # 0 /\ (coming'[i][2] = present => ~Gone)
    BY <1>1, <1>t DEF SessionRight
  <2>2. ASSUME ~lateTrack', NEW s \in Sources PROVE slot'[s] \in {0, present} \/ Gone
    BY <2>2, <1>3, <1>l, <1>t DEF SessionRight
  <2> QED
    BY <2>1, <2>2, <1>4, <1>t, <1>u DEF SessionRight, Stale, OnlyEnds
<1>11. ASSUME NEW s \in Sources
       PROVE  (OnIsSeen(s) /\ OffIsQuiet(s) /\ OnIsAsked(s) /\ AskedIsFed(s) /\ FedHasTrack(s))'
  <2>1. OnIsSeen(s)' /\ OnIsAsked(s)'
    BY <1>4, <1>7, <1>t, <1>u DEF OnIsSeen, OnIsAsked
  <2>2. AskedIsFed(s)'
    <3>1. \A q : WillFeed(s, q)' <=> WillFeed(s, q)
      BY <1>u DEF WillFeed, ToServe
    <3> QED
      BY <3>1, <1>4, <1>7, <1>t, <1>u DEF AskedIsFed
  <2>3. NotAsked(s) => NotAsked(s)'
    <3>1. ASSUME NotAsked(s), ~Gone, ~lateTrack' PROVE slot'[s] = 0
      <4>1. p = present /\ slot[s] = 0 /\ coming[1] # <<s, present>>
        BY <3>1, <1>1, <1>l DEF NotAsked
      <4> QED
        BY <4>1, <1>2, <1>3, <1>t
    <3>2. ASSUME NotAsked(s), ~Gone, NEW i \in DOMAIN coming' PROVE coming'[i] # <<s, present>>
      BY <3>2, <1>1 DEF NotAsked
    <3> QED
      BY <3>1, <3>2, <1>4, <1>u DEF NotAsked
  <2>4. OffIsQuiet(s)'
    BY <2>3, <1>4, <1>t, <1>u DEF OffIsQuiet
  <2>5. ASSUME ~lateTrack', s \in tracked, want[s] # "none", ~Awaits("offer", s)
        PROVE  ~Gone /\ (slot'[s] = present \/ \E i \in DOMAIN coming' : coming'[i] = <<s, present>>)
    <3>1. ~Gone /\ p = present /\ (slot[s] = present \/ \E i \in DOMAIN coming : coming[i] = <<s, present>>)
      BY <2>5, <1>l, <1>t DEF FedHasTrack
    <3>2. CASE s = x
      BY <3>1, <3>2, <1>3, <1>t
    <3>3. CASE s # x
      <4>1. slot'[s] = slot[s]
        BY <3>3, <1>3, <1>t
      <4>2. coming[1] # <<s, present>>
        BY <3>3, <1>2
      <4> QED
        BY <4>1, <4>2, <3>1, <1>1
    <3> QED
      BY <3>2, <3>3
  <2>6. FedHasTrack(s)'
    BY <2>5, <1>4, <1>u DEF FedHasTrack
  <2> QED
    BY <2>1, <2>2, <2>4, <2>6
<1>12. (\A i \in DOMAIN asks : i # 1 => asks[i].got = "nothing")'
  BY <1>u DEF RemoteAgrees
<1> QED
  BY <1>8, <1>9, <1>10, <1>11, <1>12 DEF RemoteAgrees

(* What the delivery of any event does to what is said of those that wait. *)
LEMMA Delivered ==
    ASSUME RemoteAgrees, Deliver, NEW h \in Event, h = Head(events)
    PROVE  /\ events # <<>> /\ events' \in Seq(Event)
           /\ UNCHANGED <<present, active, tracked, untold, ending, want, joins, failedAsk, lateTrack>>
           /\ h.of <= joins /\ \A i \in DOMAIN events' : events'[i].of <= joins
           /\ Gone <=> (Gone' \/ h.event = "left")
           /\ \A kind, s : Awaits(kind, s) <=>
                Awaits(kind, s)' \/ (h.event = kind /\ h.source = s /\ ~Gone')
           /\ h.event = "offer" => h.of # 0 /\ (h.of = present <=> ~Gone)
           /\ (\A i \in DOMAIN events : events[i].event = "offer" =>
                 events[i].of # 0 /\ (events[i].of = present <=> Fresh(i)))'
           /\ present = 0 => /\ active = {} /\ tracked = {} /\ OnlyEnds'
                             /\ Gone \/ h.event \in {"unpublished", "left"}
           /\ \A s \in Sources : want'[s] # "none" => s \in tracked' \/ Stale(s)'
<1>t. RemoteTypeOK /\ SessionRight /\ events \in Seq(Event)
  BY DEF RemoteAgrees, RemoteTypeOK
<1>u. /\ events # <<>> /\ events' = Tail(events)
      /\ UNCHANGED <<present, active, tracked, untold, ending, want, joins, failedAsk, lateTrack>>
  BY DEF Deliver, roomVars, sourceVars, leaveVars, boundVars, history
<1>n. LeftUntold' <=> LeftUntold
  BY <1>u DEF LeftUntold
<1>m. /\ events' \in Seq(Event) /\ 1 \in DOMAIN events /\ h = events[1]
      /\ \A i \in DOMAIN events' : i + 1 \in DOMAIN events /\ events'[i] = events[i + 1]
      /\ Gone <=> (Gone' \/ h.event = "left")
      /\ \A i \in DOMAIN events' : Fresh(i)' <=> Fresh(i + 1)
      /\ Fresh(1) <=> ~Gone'
      /\ \A kind, s : Awaits(kind, s) <=>
           Awaits(kind, s)' \/ (h.event = kind /\ h.source = s /\ ~Gone')
  BY <1>n, <1>t, <1>u, EventsTaken
<1>1. h.of <= joins /\ \A i \in DOMAIN events' : events'[i].of <= joins
  BY <1>m, <1>t DEF RemoteTypeOK
<1>2. h.event = "offer" => h.of # 0 /\ (h.of = present <=> ~Gone)
  BY <1>m, <1>t DEF SessionRight
<1>3. (\A i \in DOMAIN events : events[i].event = "offer" =>
                 events[i].of # 0 /\ (events[i].of = present <=> Fresh(i)))'
  BY <1>m, <1>t, <1>u DEF SessionRight
<1>4. ASSUME present = 0 PROVE /\ active = {} /\ tracked = {} /\ OnlyEnds'
                               /\ Gone \/ h.event \in {"unpublished", "left"}
  <2>1. active = {} /\ tracked = {} /\ OnlyEnds
    BY <1>4, <1>t DEF SessionRight
  <2>2. OnlyEnds'
    BY <2>1, <1>m DEF OnlyEnds
  <2>3. Gone \/ h.event \in {"unpublished", "left"}
    BY <2>1, <1>m DEF OnlyEnds
  <2> QED
    BY <2>1, <2>2, <2>3
<1>5. \A s \in Sources : want'[s] # "none" => s \in tracked' \/ Stale(s)'
  BY <1>t, <1>u DEF SessionRight, Stale
<1> QED
  BY <1>1, <1>2, <1>3, <1>4, <1>5, <1>m, <1>u

(* The tile after a change of what is paused.                              *)
LEMMA Refreshed ==
    ASSUME RemoteAgrees, NEW paused \in SUBSET Sources, RefreshTile(paused)
    PROVE  ViewRight' /\ hidden' = paused /\ UNCHANGED <<slot, tile>>
<1>1. hidden' = paused /\ UNCHANGED <<slot, tile>>
  BY DEF RefreshTile
<1>2. ViewRight /\ tile \in BOOLEAN
  BY DEF RemoteAgrees, RemoteTypeOK
<1>3. onScreen' = Desired(slot, paused)
  <2>1. CASE tile
    BY <2>1 DEF RefreshTile
  <2>2. CASE ~tile
    <3>1. slot["screen"] = 0 /\ slot["camera"] = 0
      BY <2>2, <1>2 DEF ViewRight, Sources
    <3> QED
      BY <2>2, <3>1, <1>2 DEF RefreshTile, ViewRight, Desired
  <2> QED
    BY <2>1, <2>2
<1>4. Desired(slot, paused) = Desired(slot', hidden')
  BY <1>1 DEF Desired
<1> QED
  BY <1>1, <1>2, <1>3, <1>4 DEF ViewRight

(* An event about what is published.                                       *)
LEMMA PublishedKeeps ==
    ASSUME RemoteAgrees, Deliver, NEW h \in Event, h = Head(events), h.event # "offer",
           \/ h.event = "published" /\ TrackPublished(h.source)
           \/ h.event = "unpublished" /\ TrackUnpublished(h.source)
    PROVE  RemoteAgrees'
<1>t. /\ RemoteTypeOK /\ SessionRight /\ ViewRight /\ events \in Seq(Event)
      /\ \A s \in Sources :
           OnIsSeen(s) /\ OffIsQuiet(s) /\ OnIsAsked(s) /\ AskedIsFed(s) /\ FedHasTrack(s)
  BY DEF RemoteAgrees, RemoteTypeOK
<1>d. /\ events # <<>> /\ events' \in Seq(Event)
      /\ UNCHANGED <<present, active, tracked, untold, ending, want, joins, failedAsk, lateTrack>>
      /\ \A i \in DOMAIN events' : events'[i].of <= joins
      /\ Gone' <=> Gone
      /\ \A kind, s : Awaits(kind, s) <=>
           Awaits(kind, s)' \/ (h.event = kind /\ h.source = s /\ ~Gone')
      /\ (\A i \in DOMAIN events : events[i].event = "offer" =>
            events[i].of # 0 /\ (events[i].of = present <=> Fresh(i)))'
      /\ present = 0 => /\ active = {} /\ tracked = {} /\ OnlyEnds'
                        /\ Gone \/ h.event \in {"unpublished", "left"}
      /\ \A s \in Sources : want'[s] # "none" => s \in tracked' \/ Stale(s)'
  BY Delivered
<1>s. h.source \in Sources /\ hidden \subseteq Sources
  BY <1>t DEF Event, RemoteTypeOK
<1>u. /\ UNCHANGED <<coming, subscribed, loud, asks>>
      /\ wishes \subseteq wishes' /\ wishes' \subseteq wishes \union {h.source}
      /\ h.event # "published" => wishes' = wishes /\ debounce' = debounce
      /\ h.event = "published" => h.source \in subscribed \union wishes'
      /\ debounce' = debounce \/ debounce' = TRUE
      /\ wishes' = wishes \/ debounce' = TRUE
  BY DEF TrackPublished, TrackUnpublished, Deliver, subVars
<1>v. /\ ViewRight' /\ UNCHANGED <<slot, tile>> /\ hidden' \subseteq Sources
      /\ \A s : s \in hidden' <=> IF Turns(h, s) THEN h.event = "unpublished" ELSE s \in hidden
  <2>1. CASE h.event = "published" /\ TrackPublished(h.source)
    <3>1. ViewRight' /\ hidden' = hidden \ {h.source} /\ UNCHANGED <<slot, tile>>
      BY <2>1, <1>s, Refreshed DEF TrackPublished
    <3> QED
      BY <2>1, <3>1, <1>s DEF Turns
  <2>2. CASE h.event = "unpublished" /\ TrackUnpublished(h.source)
    <3>1. ViewRight' /\ hidden' = hidden \union {h.source} /\ UNCHANGED <<slot, tile>>
      BY <2>2, <1>s, Refreshed DEF TrackUnpublished
    <3> QED
      BY <2>2, <3>1, <1>s DEF Turns
  <2> QED
    BY <2>1, <2>2
<1>w. ASSUME NEW s PROVE Hides(s)' <=> Hides(s)
  <2>1. events' = Tail(events)
    BY DEF Deliver
  <2> QED
    BY <2>1, <1>t, <1>d, <1>v, HidesTaken
<1>f. Failing' <=> Failing
  BY <1>d, <1>u DEF Failing
<1>1. RemoteTypeOK'
  BY <1>t, <1>d, <1>s, <1>u, <1>v DEF RemoteTypeOK
<1>2. (wishes # {} => debounce)' /\ (\A i \in DOMAIN asks : i # 1 => asks[i].got = "nothing")'
  BY <1>u DEF RemoteAgrees
<1>3. SessionRight'
  BY <1>t, <1>d, <1>u, <1>v DEF SessionRight
<1>4. ASSUME NEW s \in Sources
      PROVE  (OnIsSeen(s) /\ OffIsQuiet(s) /\ OnIsAsked(s) /\ AskedIsFed(s) /\ FedHasTrack(s))'
  <2>1. OnIsSeen(s)'
    BY <1>t, <1>d, <1>w DEF OnIsSeen
  <2>2. Awaits("offer", s)' <=> Awaits("offer", s)
    BY <1>d
  <2>3. FedHasTrack(s)'
    BY <2>2, <1>t, <1>d, <1>u, <1>v DEF FedHasTrack
  <2>4. AskedIsFed(s)'
    <3>1. \A q : WillFeed(s, q)' <=> WillFeed(s, q)
      BY <1>d, <1>u DEF WillFeed, ToServe
    <3> QED
      BY <3>1, <1>d, <1>f, <1>t, <1>u DEF AskedIsFed
  <2>5. OnIsAsked(s)'
    <3>1. Awaits("published", s) => Awaits("published", s)' \/ (~Gone' /\ s \in subscribed \union wishes')
      BY <1>d, <1>u
    <3> QED
      BY <3>1, <1>d, <1>f, <1>t, <1>u, <1>w DEF OnIsAsked
  <2>6. ASSUME NotAsked(s) PROVE NotAsked(s)'
    <3>1. ~Awaits("published", s) /\ ~Awaits("published", s)'
      BY <2>6, <1>d DEF NotAsked
    <3>2. ~Gone' => s \notin wishes'
      BY <3>1, <2>6, <1>d, <1>u DEF NotAsked
    <3> QED
      BY <3>1, <3>2, <2>2, <2>6, <1>d, <1>u, <1>v DEF NotAsked
  <2>7. OffIsQuiet(s)'
    BY <2>6, <1>t, <1>d, <1>w DEF OffIsQuiet
  <2> QED
    BY <2>1, <2>3, <2>4, <2>5, <2>7
<1> QED
  BY <1>1, <1>2, <1>3, <1>4, <1>v DEF RemoteAgrees

(* The user has left.                                                      *)
LEMMA LeftKeeps ==
    ASSUME RemoteAgrees, Deliver, NEW h \in Event, h = Head(events), h.event = "left", VoiceUserLeft
    PROVE  RemoteAgrees'
<1>t. /\ RemoteTypeOK /\ SessionRight /\ ViewRight /\ events \in Seq(Event)
      /\ \A s \in Sources :
           OnIsSeen(s) /\ OffIsQuiet(s) /\ OnIsAsked(s) /\ AskedIsFed(s) /\ FedHasTrack(s)
  BY DEF RemoteAgrees, RemoteTypeOK
<1>d. /\ events # <<>> /\ events' \in Seq(Event)
      /\ UNCHANGED <<present, active, tracked, untold, ending, want, joins, failedAsk, lateTrack>>
      /\ \A i \in DOMAIN events' : events'[i].of <= joins
      /\ Gone
      /\ \A s : Awaits("published", s)' <=> Awaits("published", s)
      /\ \A s : Awaits("offer", s)' <=> Awaits("offer", s)
      /\ (\A i \in DOMAIN events : events[i].event = "offer" =>
            events[i].of # 0 /\ (events[i].of = present <=> Fresh(i)))'
      /\ present = 0 => active = {} /\ tracked = {} /\ OnlyEnds'
      /\ \A s \in Sources : want'[s] # "none" => s \in tracked' \/ Stale(s)'
  BY Delivered
<1>u. /\ UNCHANGED <<coming, debounce, loud, asks>> /\ subscribed' = {} /\ wishes' = {}
      /\ slot' = [s \in Sources |-> 0] /\ tile' = FALSE /\ onScreen' = <<>> /\ hidden' = {}
  BY DEF VoiceUserLeft, DropTile, Deliver
<1>w. ASSUME NEW s PROVE Hides(s)' <=> Hides(s)
  <2>1. events' = Tail(events)
    BY DEF Deliver
  <2>2. s \in hidden' <=> IF Turns(h, s) THEN h.event = "unpublished" ELSE s \in hidden
    BY <1>u DEF Turns
  <2> QED
    BY <2>1, <2>2, <1>t, <1>d, HidesTaken
<1>c. \A i \in DOMAIN coming : coming[i][2] # 0 /\ coming[i][2] # present
  BY <1>t, <1>d DEF SessionRight
<1>z. \A s \in Sources : slot'[s] = 0
  BY <1>u
<1>f. Failing' <=> Failing
  BY <1>d, <1>u DEF Failing
<1>1. RemoteTypeOK'
  <2>1. slot' \in [Sources -> Nat]
    BY <1>u
  <2> QED
    BY <2>1, <1>t, <1>d, <1>u DEF RemoteTypeOK
<1>2. ViewRight'
  BY <1>u, <1>z DEF ViewRight, Desired, Sources
<1>3. (wishes # {} => debounce)' /\ (\A i \in DOMAIN asks : i # 1 => asks[i].got = "nothing")'
  BY <1>u DEF RemoteAgrees
<1>4. SessionRight'
  BY <1>t, <1>d, <1>u, <1>c, <1>z DEF SessionRight
<1>5. ASSUME NEW s \in Sources
      PROVE  (OnIsSeen(s) /\ OffIsQuiet(s) /\ OnIsAsked(s) /\ AskedIsFed(s) /\ FedHasTrack(s))'
  <2>1. OnIsSeen(s)' /\ OnIsAsked(s)' /\ AskedIsFed(s)' /\ FedHasTrack(s)'
    BY <1>t, <1>d, <1>f, <1>u, <1>w DEF OnIsSeen, OnIsAsked, AskedIsFed, FedHasTrack
  <2>2. \A i \in DOMAIN coming : coming[i] # <<s, present>>
    BY <1>c
  <2>3. NotAsked(s) => NotAsked(s)'
    BY <2>2, <1>d, <1>u, <1>z DEF NotAsked
  <2>4. OffIsQuiet(s)'
    BY <2>3, <1>t, <1>d, <1>w DEF OffIsQuiet
  <2> QED
    BY <2>1, <2>4
<1> QED
  BY <1>1, <1>2, <1>3, <1>4, <1>5 DEF RemoteAgrees

(* A change of the active speakers.                                        *)
LEMMA SpeakersKeep ==
    ASSUME RemoteAgrees, Deliver, NEW h \in Event, h = Head(events), h.event \in {"speaks", "silent"},
           NEW p \in BOOLEAN, ActiveSpeakers(p)
    PROVE  RemoteAgrees'
<1>t. /\ RemoteTypeOK /\ SessionRight /\ ViewRight /\ events \in Seq(Event) /\ asks \in Seq(Ask)
      /\ subscribed \subseteq Sources /\ loud \in BOOLEAN
      /\ \A s \in Sources :
           OnIsSeen(s) /\ OffIsQuiet(s) /\ OnIsAsked(s) /\ AskedIsFed(s) /\ FedHasTrack(s)
  BY DEF RemoteAgrees, RemoteTypeOK
<1>d. /\ events # <<>> /\ events' \in Seq(Event)
      /\ UNCHANGED <<present, active, tracked, untold, ending, want, joins, failedAsk, lateTrack>>
      /\ \A i \in DOMAIN events' : events'[i].of <= joins
      /\ Gone' <=> Gone
      /\ \A s : Awaits("published", s)' <=> Awaits("published", s)
      /\ \A s : Awaits("offer", s)' <=> Awaits("offer", s)
      /\ (\A i \in DOMAIN events : events[i].event = "offer" =>
            events[i].of # 0 /\ (events[i].of = present <=> Fresh(i)))'
      /\ present = 0 => /\ active = {} /\ tracked = {} /\ OnlyEnds'
                        /\ Gone \/ h.event \in {"unpublished", "left"}
      /\ \A s \in Sources : want'[s] # "none" => s \in tracked' \/ Stale(s)'
  BY Delivered
<1>u. /\ UNCHANGED <<coming, slot, tile, onScreen, hidden, subscribed, wishes, debounce>> /\ loud' = p
      /\ asks' = IF p # loud /\ "camera" \in subscribed
                 THEN Append(asks, AskForVideo("camera", FALSE, p)) ELSE asks
  BY DEF ActiveSpeakers, viewVars, Deliver
<1>w. ASSUME NEW s PROVE Hides(s)' <=> Hides(s)
  <2>1. events' = Tail(events) /\ ~Turns(h, s)
    BY DEF Deliver, Turns
  <2> QED
    BY <2>1, <1>t, <1>d, <1>u, HidesTaken
<1> DEFINE more == p # loud /\ "camera" \in subscribed
<1>a. PICK a : /\ a \in Ask /\ a.source = "camera" /\ a.got = "nothing"
               /\ a.quality = QualityFor("camera", p)
               /\ a = AskForVideo("camera", FALSE, p)
  <2>1. QualityFor("camera", FALSE) \in {"low", "high"} /\ QualityFor("camera", p) \in {"low", "high"}
    BY DEF QualityFor
  <2> QED
    BY <2>1 DEF AskForVideo, Ask, Sources
<1>e. PICK t \in Seq(Ask) : /\ t = IF more THEN <<a>> ELSE <<>>
                            /\ asks' = asks \o t
  <2>1. <<a>> \in Seq(Ask) /\ <<>> \in Seq(Ask)
    <3>1. a \in Ask
      BY <1>a
    <3> QED
      BY ONLY <3>1
  <2>2. Append(asks, a) = asks \o <<a>> /\ asks = asks \o <<>>
    <3>1. asks \in Seq(Ask) /\ a \in Ask
      BY <1>a, <1>t
    <3> QED
      BY ONLY <3>1
  <2>3. asks' = IF more THEN Append(asks, a) ELSE asks
    BY <1>a, <1>u
  <2> HIDE DEF more
  <2> QED
    BY ONLY <2>1, <2>2, <2>3
<1>f. /\ \A i \in DOMAIN t : more /\ t[i] = a
      /\ \A i, k \in DOMAIN t : i = k
      /\ more => 1 \in DOMAIN t /\ t[1] = a
  BY <1>e
<1>g. ASSUME NEW s
      PROVE  /\ asks' \in Seq(Ask)
             /\ \A i \in DOMAIN asks : i \in DOMAIN asks' /\ asks'[i] = asks[i]
             /\ \A i \in DOMAIN asks' : i \notin DOMAIN asks => \E k \in DOMAIN t : asks'[i] = t[k]
             /\ \A k \in DOMAIN t : t[k].source = s => WillFeed(s, t[k].quality)'
             /\ \A q : (\A k \in DOMAIN t : t[k].source # s) => (WillFeed(s, q) => WillFeed(s, q)')
  <2>1. want'[s] = want[s] /\ \A i \in DOMAIN t : t[i].got = "nothing"
    BY <1>a, <1>d, <1>f
  <2>2. \A i, k \in DOMAIN t : t[i].source = t[k].source => i = k
    BY <1>f
  <2> QED
    BY ONLY <2>1, <2>2, <1>e, <1>t, AsksMore
<1>h. \A i \in DOMAIN asks' : i \in DOMAIN asks \/ (more /\ asks'[i] = a)
  BY <1>f, <1>g
<1> HIDE DEF more
<1>i. (\A i \in DOMAIN asks : i # 1 => asks[i].got = "nothing")'
  BY <1>a, <1>g, <1>h DEF RemoteAgrees
<1>j. Failing' <=> Failing
  BY <1>a, <1>d, <1>g, <1>h DEF Failing
<1>1. RemoteTypeOK'
  BY <1>t, <1>d, <1>g, <1>u DEF RemoteTypeOK
<1>2. ViewRight' /\ (wishes # {} => debounce)'
  BY <1>t, <1>u DEF RemoteAgrees, ViewRight, Desired
<1>3. SessionRight'
  BY <1>t, <1>d, <1>u DEF SessionRight
<1>4. ASSUME NEW s \in Sources
      PROVE  (OnIsSeen(s) /\ OffIsQuiet(s) /\ OnIsAsked(s) /\ AskedIsFed(s) /\ FedHasTrack(s))'
  <2>1. OnIsSeen(s)' /\ OnIsAsked(s)' /\ FedHasTrack(s)'
    BY <1>t, <1>d, <1>j, <1>u, <1>w DEF OnIsSeen, OnIsAsked, FedHasTrack
  <2>2. ASSUME NotAsked(s) PROVE NotAsked(s)'
    <3>1. ASSUME s \in tracked, NEW i \in DOMAIN asks' PROVE asks'[i].source # s
      <4>1. more => s # "camera"
        BY <3>1, <2>2 DEF NotAsked, more
      <4> QED
        BY <4>1, <3>1, <2>2, <1>a, <1>g, <1>h DEF NotAsked
    <3> QED
      BY <3>1, <2>2, <1>d, <1>u DEF NotAsked
  <2>3. OffIsQuiet(s)'
    BY <2>2, <1>t, <1>d, <1>w DEF OffIsQuiet
  <2>4. ASSUME ~Failing, ~Gone, s \in subscribed, NEW q, q = QualityFor(s, p)
        PROVE  WillFeed(s, q)'
    <3>1. CASE more /\ s = "camera"
      <4>1. 1 \in DOMAIN t /\ t[1].source = s /\ t[1].quality = q
        BY <3>1, <2>4, <1>a, <1>f
      <4>2. \A r : r = t[1].quality => WillFeed(s, r)'
        BY <4>1, <1>g
      <4> QED
        BY <4>1, <4>2
    <3>2. CASE ~(more /\ s = "camera")
      <4>1. \A k \in DOMAIN t : t[k].source # s
        BY <3>2, <1>a, <1>f
      <4>2. q = QualityFor(s, loud)
        BY <3>2, <2>4, <1>t DEF QualityFor, more, Sources
      <4>3. WillFeed(s, q)
        BY <4>2, <2>4, <1>t DEF AskedIsFed
      <4> QED
        BY <4>1, <4>3, <1>g
    <3> QED
      BY <3>1, <3>2
  <2>5. ASSUME NEW q, q = QualityFor(s, p) PROVE AskedIsFed(s)'
    BY <2>4, <2>5, <1>d, <1>j, <1>u DEF AskedIsFed, QualityFor
  <2> QED
    BY <2>1, <2>3, <2>5
<1> QED
  BY <1>1, <1>2, <1>3, <1>4, <1>i DEF RemoteAgrees

(* An offer is received.                                                   *)
LEMMA OfferKeeps ==
    ASSUME RemoteAgrees, Deliver, NEW h \in Event, h = Head(events), h.event = "offer",
           UNCHANGED <<viewVars, subVars>>
    PROVE  RemoteAgrees'
<1>t. /\ RemoteTypeOK /\ SessionRight /\ ViewRight /\ events \in Seq(Event)
      /\ coming \in Seq(Sources \X Nat)
      /\ \A s \in Sources :
           OnIsSeen(s) /\ OffIsQuiet(s) /\ OnIsAsked(s) /\ AskedIsFed(s) /\ FedHasTrack(s)
  BY DEF RemoteAgrees, RemoteTypeOK
<1>d. /\ events # <<>> /\ events' \in Seq(Event)
      /\ UNCHANGED <<present, active, tracked, untold, ending, want, joins, failedAsk, lateTrack>>
      /\ h.of <= joins /\ \A i \in DOMAIN events' : events'[i].of <= joins
      /\ Gone' <=> Gone
      /\ \A s : Awaits("published", s)' <=> Awaits("published", s)
      /\ \A s : Awaits("offer", s) <=> Awaits("offer", s)' \/ (h.source = s /\ ~Gone)
      /\ h.of # 0 /\ (h.of = present <=> ~Gone)
      /\ (\A i \in DOMAIN events : events[i].event = "offer" =>
            events[i].of # 0 /\ (events[i].of = present <=> Fresh(i)))'
      /\ present = 0 => /\ active = {} /\ tracked = {} /\ OnlyEnds'
                        /\ Gone \/ h.event \in {"unpublished", "left"}
      /\ \A s \in Sources : want'[s] # "none" => s \in tracked' \/ Stale(s)'
  BY Delivered
<1>u. /\ UNCHANGED <<slot, tile, onScreen, hidden, subscribed, wishes, debounce, loud, asks>>
      /\ coming' = Append(coming, <<h.source, h.of>>)
  BY DEF viewVars, subVars, Deliver
<1>w. ASSUME NEW s PROVE Hides(s)' <=> Hides(s)
  <2>1. events' = Tail(events) /\ ~Turns(h, s)
    BY DEF Deliver, Turns
  <2> QED
    BY <2>1, <1>t, <1>d, <1>u, HidesTaken
<1>c. /\ coming' \in Seq(Sources \X Nat)
      /\ \A i \in DOMAIN coming : i \in DOMAIN coming' /\ coming'[i] = coming[i]
      /\ \A i \in DOMAIN coming' : i \in DOMAIN coming \/ coming'[i] = <<h.source, h.of>>
      /\ \E i \in DOMAIN coming' : coming'[i] = <<h.source, h.of>>
  <2>0. h.source \in Sources /\ h.of \in Nat
    BY DEF Event
  <2>1. PICK e \in Sources \X Nat : e = <<h.source, h.of>>
    BY <2>0
  <2>2. coming' = Append(coming, e)
    BY <2>1, <1>u
  <2>3. /\ coming' \in Seq(Sources \X Nat)
        /\ \A i \in DOMAIN coming : i \in DOMAIN coming' /\ coming'[i] = coming[i]
        /\ \A i \in DOMAIN coming' : i \in DOMAIN coming \/ coming'[i] = e
        /\ \E i \in DOMAIN coming' : coming'[i] = e
    <3>1. PICK T : T = Sources \X Nat
      OBVIOUS
    <3>2. coming \in Seq(T) /\ e \in T
      BY <2>1, <3>1, <1>t
    <3>3. /\ coming' \in Seq(T)
          /\ \A i \in DOMAIN coming : i \in DOMAIN coming' /\ coming'[i] = coming[i]
          /\ \A i \in DOMAIN coming' : i \in DOMAIN coming \/ coming'[i] = e
          /\ Len(coming) + 1 \in DOMAIN coming' /\ coming'[Len(coming) + 1] = e
      BY ONLY <2>2, <3>2
    <3> QED
      BY ONLY <3>1, <3>3
  <2> QED
    BY <2>1, <2>3
<1>f. Failing' <=> Failing
  BY <1>d, <1>u DEF Failing
<1>1. RemoteTypeOK'
  <2>1. ASSUME NEW i \in DOMAIN coming' PROVE coming'[i][2] <= joins
    <3>1. CASE i \in DOMAIN coming
      BY <3>1, <1>c, <1>t DEF RemoteTypeOK
    <3>2. CASE coming'[i] = <<h.source, h.of>>
      BY <3>2, <1>d
    <3> QED
      BY <3>1, <3>2, <1>c
  <2> QED
    BY <2>1, <1>t, <1>c, <1>d, <1>u DEF RemoteTypeOK
<1>2. ViewRight' /\ (wishes # {} => debounce)'
      /\ (\A i \in DOMAIN asks : i # 1 => asks[i].got = "nothing")'
  BY <1>t, <1>u DEF RemoteAgrees, ViewRight, Desired
<1>3. SessionRight'
  <2>1. \A i \in DOMAIN coming' : coming'[i][2] # 0 /\ (coming'[i][2] = present => ~Gone)
    BY <1>c, <1>d, <1>t DEF SessionRight
  <2> QED
    BY <2>1, <1>t, <1>d, <1>u DEF SessionRight
<1>4. ASSUME NEW s \in Sources
      PROVE  (OnIsSeen(s) /\ OffIsQuiet(s) /\ OnIsAsked(s) /\ AskedIsFed(s) /\ FedHasTrack(s))'
  <2>1. OnIsSeen(s)' /\ OnIsAsked(s)'
    BY <1>t, <1>d, <1>f, <1>u, <1>w DEF OnIsSeen, OnIsAsked
  <2>2. AskedIsFed(s)'
    <3>1. \A q : WillFeed(s, q)' <=> WillFeed(s, q)
      BY <1>d, <1>u DEF WillFeed, ToServe
    <3> QED
      BY <3>1, <1>d, <1>f, <1>t, <1>u DEF AskedIsFed
  <2>3. ASSUME NotAsked(s) PROVE NotAsked(s)'
    <3>1. ASSUME ~Gone, NEW i \in DOMAIN coming' PROVE coming'[i] # <<s, present>>
      <4>1. h.source # s
        BY <3>1, <2>3, <1>d DEF NotAsked
      <4>2. CASE i \in DOMAIN coming
        BY <4>2, <3>1, <2>3, <1>c DEF NotAsked
      <4>3. CASE coming'[i] = <<h.source, h.of>>
        BY <4>1, <4>3
      <4> QED
        BY <4>2, <4>3, <3>1, <1>c
    <3> QED
      BY <3>1, <2>3, <1>d, <1>u DEF NotAsked
  <2>4. OffIsQuiet(s)'
    BY <2>3, <1>t, <1>d, <1>w DEF OffIsQuiet
  <2>5. Awaits("offer", s) => Awaits("offer", s)' \/ (~Gone /\ \E i \in DOMAIN coming' : coming'[i] = <<s, present>>)
    BY <1>c, <1>d
  <2>6. FedHasTrack(s)'
    BY <2>5, <1>t, <1>c, <1>d, <1>u DEF FedHasTrack
  <2> QED
    BY <2>1, <2>2, <2>4, <2>6
<1> QED
  BY <1>1, <1>2, <1>3, <1>4 DEF RemoteAgrees

(* The listener's session is replaced.                                     *)
LEMMA ResetKeeps ==
    ASSUME RoomRight, Reset, present # 0 => untold = {}
    PROVE  RemoteAgrees'
<1>u. /\ UNCHANGED <<present, tracked, untold, joins, failedAsk, lateTrack>>
      /\ active' = active \cap (on \cup unsaid) /\ ending' = {}
      /\ want' = [s \in Sources |-> "none"] /\ coming' = <<>>
      /\ slot' = [s \in Sources |-> 0] /\ tile' = FALSE /\ onScreen' = <<>> /\ hidden' = {}
      /\ subscribed' = {} /\ wishes' = {} /\ debounce' = FALSE /\ loud' = FALSE /\ asks' = <<>>
  BY DEF Reset, DropTile
<1>a. /\ active' \cap tracked \in SUBSET Sources /\ present \in Nat
      /\ present = 0 => active' = {} /\ tracked = {}
  BY <1>u DEF RoomRight
<1>b. PICK W \in SUBSET Sources : W = active' \cap tracked
  BY <1>a
<1>e. PICK t : t = SetToSeq(Snapshot(W, present)) /\ events' = t
  BY <1>b DEF Reset, Snapshot
<1>m. /\ events' \in Seq(Event)
      /\ \A i \in DOMAIN events' : /\ events'[i].event = "published" /\ events'[i].of = present
                                   /\ events'[i].source \in active' \cap tracked
      /\ \A s \in active' \cap tracked : \E i \in DOMAIN events' : events'[i].source = s
  <2>1. /\ t \in Seq(Event)
        /\ \A i \in DOMAIN t : t[i].event = "published" /\ t[i].source \in W /\ t[i].of = present
        /\ \A s \in W : \E i \in DOMAIN t : t[i].source = s
    <3>1. PICK p \in Nat : p = present
      BY <1>a
    <3>2. t = SetToSeq(Snapshot(W, p))
      BY <1>e, <3>1
    <3>3. Announces(t, W, p)
      BY ONLY <3>2, SnapshotSent
    <3> QED
      BY ONLY <3>1, <3>3 DEF Announces
  <2> QED
    BY <2>1, <1>b, <1>e
<1>z. \A s \in Sources : slot'[s] = 0 /\ want'[s] = "none"
  BY <1>u
<1>n. present # 0 => ~LeftUntold'
  BY <1>u DEF LeftUntold
<1>g. present # 0 => ~Gone' /\ \A i : Fresh(i)'
  BY <1>m, <1>n DEF Gone, Fresh, IsLeft
<1>h. \A s : ~Hides(s)'
  BY <1>m, <1>u DEF Hides
<1>w. /\ \A s : ~Awaits("offer", s)'
      /\ \A s \in active' \cap tracked : Awaits("published", s)'
      /\ \A s : Awaits("published", s)' => s \in active'
  <2>1. \A s : ~Awaits("offer", s)'
    BY <1>m DEF Awaits
  <2>2. \A s \in active' \cap tracked : Awaits("published", s)'
    BY <1>a, <1>m, <1>g DEF Awaits
  <2>3. \A s : Awaits("published", s)' => s \in active'
    BY <1>m DEF Awaits
  <2> QED
    BY <2>1, <2>2, <2>3
<1>1. RemoteTypeOK'
  <2>1. \A i \in DOMAIN events' : events'[i].of <= joins
    BY <1>m DEF RoomRight
  <2>2. slot' \in [Sources -> Nat] /\ want' \in [Sources -> {"none", "low", "high"}]
    BY <1>u
  <2>3. /\ coming' \in Seq(Sources \X Nat) /\ asks' \in Seq(Ask)
        /\ \A i \in DOMAIN coming' : coming'[i][2] <= joins'
    BY <1>u
  <2> QED
    BY <2>1, <2>2, <2>3, <1>m, <1>u DEF RemoteTypeOK, RoomRight
<1>2. ViewRight'
  BY <1>u, <1>z DEF ViewRight, Desired, Sources
<1>3. (wishes # {} => debounce)' /\ (\A i \in DOMAIN asks : i # 1 => asks[i].got = "nothing")'
  BY <1>u
<1>4. SessionRight'
  <2>2. present = 0 => OnlyEnds'
    BY <1>a, <1>m DEF OnlyEnds
  <2>3. \A i \in DOMAIN coming' : FALSE
    BY <1>u
  <2>4. \A i \in DOMAIN events' : events'[i].event # "offer"
    BY <1>m
  <2> QED
    BY <2>2, <2>3, <2>4, <1>a, <1>u, <1>z, <1>g DEF SessionRight
<1>5. ASSUME NEW s \in Sources
      PROVE  (OnIsSeen(s) /\ OffIsQuiet(s) /\ OnIsAsked(s) /\ AskedIsFed(s) /\ FedHasTrack(s))'
  <2>1. OnIsSeen(s)' /\ AskedIsFed(s)' /\ FedHasTrack(s)'
    BY <1>h, <1>u, <1>z DEF OnIsSeen, AskedIsFed, FedHasTrack
  <2>2. OnIsAsked(s)'
    BY <1>h, <1>w, <1>u DEF OnIsAsked
  <2>3. present # 0 /\ s \notin active' => NotAsked(s)'
    <3>1. (\A i \in DOMAIN coming' : FALSE) /\ (\A i \in DOMAIN asks' : FALSE)
      BY <1>u
    <3> QED
      BY <3>1, <1>g, <1>w, <1>u, <1>z DEF NotAsked
  <2>4. OffIsQuiet(s)'
    BY <2>3, <1>u DEF OffIsQuiet
  <2> QED
    BY <2>1, <2>2, <2>4
<1> QED
  BY <1>1, <1>2, <1>3, <1>4, <1>5 DEF RemoteAgrees

LEMMA RemoteStart == RemoteInit => RoomRight /\ RemoteAgrees
<1> SUFFICES ASSUME RemoteInit PROVE RoomRight /\ RemoteAgrees
  OBVIOUS
<1>u. /\ present = 0 /\ active = {} /\ tracked = {} /\ want = [s \in Sources |-> "none"]
      /\ events = <<>> /\ coming = <<>> /\ slot = [s \in Sources |-> 0] /\ tile = FALSE
      /\ onScreen = <<>> /\ hidden = {} /\ subscribed = {} /\ wishes = {} /\ debounce = FALSE
      /\ loud = FALSE /\ asks = <<>> /\ joins = 0 /\ failedAsk = FALSE /\ lateTrack = FALSE
      /\ on = {} /\ untold = {} /\ ending = {}
  BY DEF RemoteInit
<1>e. /\ \A i \in DOMAIN events : FALSE
      /\ \A i \in DOMAIN coming : FALSE
      /\ \A i \in DOMAIN asks : FALSE
  BY <1>u
<1>z. \A s \in Sources : slot[s] = 0 /\ want[s] = "none"
  BY <1>u
<1>1. RemoteTypeOK
  <2>1. slot \in [Sources -> Nat] /\ want \in [Sources -> {"none", "low", "high"}]
    BY <1>u
  <2>2. events \in Seq(Event) /\ coming \in Seq(Sources \X Nat) /\ asks \in Seq(Ask)
    BY <1>u
  <2>3. present \in Nat /\ joins \in Nat /\ present <= joins
    BY <1>u
  <2>4. /\ active \subseteq Sources /\ tracked \subseteq Sources /\ hidden \subseteq Sources
        /\ subscribed \subseteq Sources /\ wishes \subseteq Sources
        /\ tile \in BOOLEAN /\ debounce \in BOOLEAN /\ loud \in BOOLEAN
        /\ failedAsk \in BOOLEAN /\ lateTrack \in BOOLEAN
    BY <1>u
  <2>5. /\ \A i \in DOMAIN coming : coming[i][2] <= joins
        /\ \A i \in DOMAIN events : events[i].of <= joins
    BY <1>e
  <2> QED
    BY ONLY <2>1, <2>2, <2>3, <2>4, <2>5 DEF RemoteTypeOK
<1>2. ViewRight
  BY <1>u, <1>z DEF ViewRight, Desired, Sources
<1>3. SessionRight
  BY <1>u, <1>e, <1>z DEF SessionRight, OnlyEnds
<1>4. ASSUME NEW s \in Sources
      PROVE  OnIsSeen(s) /\ OffIsQuiet(s) /\ OnIsAsked(s) /\ AskedIsFed(s) /\ FedHasTrack(s)
  BY <1>u, <1>z DEF OnIsSeen, OffIsQuiet, OnIsAsked, AskedIsFed, FedHasTrack
<1>5. RoomRight
  BY <1>1, <1>u DEF RoomRight, RemoteTypeOK
<1> QED
  BY <1>1, <1>2, <1>3, <1>4, <1>5, <1>e, <1>u DEF RemoteAgrees

LEMMA DeliverKeeps ==
    ASSUME RemoteAgrees, Deliver
    PROVE  RemoteAgrees'
<1>1. PICK h \in Event : h = Head(events)
  BY DEF RemoteAgrees, RemoteTypeOK, Deliver
<1>2. \/ h.event = "published" /\ TrackPublished(h.source)
      \/ h.event = "unpublished" /\ TrackUnpublished(h.source)
      \/ h.event = "left" /\ VoiceUserLeft
      \/ h.event = "speaks" /\ ActiveSpeakers(TRUE)
      \/ h.event = "silent" /\ ActiveSpeakers(FALSE)
      \/ h.event = "offer" /\ UNCHANGED <<viewVars, subVars>>
  BY <1>1 DEF Deliver
<1>3. CASE h.event = "published" /\ TrackPublished(h.source)
  BY <1>1, <1>3, PublishedKeeps
<1>4. CASE h.event = "unpublished" /\ TrackUnpublished(h.source)
  BY <1>1, <1>4, PublishedKeeps
<1>5. CASE h.event = "left" /\ VoiceUserLeft
  BY <1>1, <1>5, LeftKeeps
<1>6. CASE h.event = "speaks" /\ ActiveSpeakers(TRUE)
  BY <1>1, <1>6, SpeakersKeep
<1>7. CASE h.event = "silent" /\ ActiveSpeakers(FALSE)
  BY <1>1, <1>7, SpeakersKeep
<1>8. CASE h.event = "offer" /\ UNCHANGED <<viewVars, subVars>>
  BY <1>1, <1>8, OfferKeeps
<1> QED
  BY <1>2, <1>3, <1>4, <1>5, <1>6, <1>7, <1>8

LEMMA RemoteStutters ==
    ASSUME RemoteAgrees, UNCHANGED remoteVars
    PROVE  RemoteAgrees'
<1>u. UNCHANGED <<present, active, tracked, untold, ending, want, events, coming, slot, tile, onScreen, hidden,
                  subscribed, wishes, debounce, loud, asks, joins, failedAsk, lateTrack>>
  BY DEF remoteVars, roomVars, sourceVars, leaveVars, viewVars, subVars, boundVars, history
<1>1. /\ Gone' <=> Gone
      /\ \A i : (Fresh(i)' <=> Fresh(i)) /\ (IsLeft(i)' <=> IsLeft(i))
      /\ \A s : Hides(s)' <=> Hides(s)
      /\ \A kind, s : Awaits(kind, s)' <=> Awaits(kind, s)
  <2>1. LeftUntold' <=> LeftUntold
    BY <1>u DEF LeftUntold
  <2> QED
    BY <2>1, <1>u, EventsStay
<1>2. RemoteTypeOK' /\ ViewRight'
  BY <1>u DEF RemoteAgrees, RemoteTypeOK, ViewRight, Desired
<1>3. SessionRight'
  BY <1>u, <1>1 DEF RemoteAgrees, SessionRight, Stale, OnlyEnds
<1>4. Failing' <=> Failing
  BY <1>u DEF Failing
<1>5. \A s, q : WillFeed(s, q)' <=> WillFeed(s, q)
  BY <1>u DEF WillFeed, ToServe
<1>6. ASSUME NEW s \in Sources
      PROVE  (OnIsSeen(s) /\ OffIsQuiet(s) /\ OnIsAsked(s) /\ AskedIsFed(s) /\ FedHasTrack(s))'
  <2>1. OnIsSeen(s) /\ OffIsQuiet(s) /\ OnIsAsked(s) /\ AskedIsFed(s) /\ FedHasTrack(s)
    BY DEF RemoteAgrees
  <2>2. NotAsked(s) => NotAsked(s)'
    BY <1>1, <1>u DEF NotAsked
  <2> QED
    BY <2>1, <2>2, <1>1, <1>4, <1>5, <1>u
       DEF OnIsSeen, OffIsQuiet, OnIsAsked, AskedIsFed, FedHasTrack
<1> QED
  BY <1>2, <1>3, <1>6, <1>u DEF RemoteAgrees

(* Each step keeps what the room is.                                       *)
LEMMA RoomStays ==
    ASSUME RoomRight, [RemoteNext]_remoteVars
    PROVE  RoomRight'
<1>1. CASE RemoteJoins
  <2>1. /\ joins' = joins + 1 /\ present' = joins' /\ on' = {} /\ active' = {} /\ tracked' = {}
        /\ UNCHANGED <<untold, failedAsk, lateTrack>>
    BY <1>1 DEF RemoteJoins, leaveVars
  <2>2. 0..joins \subseteq 0..joins'
    BY <2>1 DEF RoomRight
  <2>3. untold' \subseteq (Sources \cup {"left"}) \X (0..joins')
    <3>1. untold' \subseteq (Sources \cup {"left"}) \X (0..joins)
      BY <2>1 DEF RoomRight
    <3> QED
      BY ONLY <3>1, <2>2
  <2> QED
    BY <2>1, <2>3 DEF RoomRight
<1>2. CASE RemoteLeaves
  <2>1. /\ present' = 0 /\ on' = {} /\ active' = {} /\ tracked' = {}
        /\ untold' = untold \cup {<<what, present>> : what \in tracked \cup {"left"}}
        /\ UNCHANGED <<joins, failedAsk, lateTrack>>
    BY <1>2 DEF RemoteLeaves, boundVars, history
  <2>2. present \in 0..joins
    BY DEF RoomRight
  <2>3. untold' \subseteq (Sources \cup {"left"}) \X (0..joins')
    BY <2>1, <2>2 DEF RoomRight
  <2> QED
    BY <2>1, <2>3 DEF RoomRight
<1>3. ASSUME NEW s \in Sources, RemoteToggles(s) \/ TrackArrives(s) PROVE RoomRight'
  <2>1. /\ UNCHANGED <<present, joins, untold, failedAsk, lateTrack>> /\ present # 0
        /\ tracked' \subseteq tracked \cup {s}
        /\ \/ on' = on \ {s} /\ active' = active \ {s}
           \/ on' \subseteq on \cup {s} /\ active' = active \cup {s}
    BY <1>3 DEF RemoteToggles, TrackArrives, leaveVars, history
  <2> QED
    BY <2>1, <1>3 DEF RoomRight
<1>4. CASE Reset
  <2>1. /\ UNCHANGED <<present, on, tracked, untold, joins, failedAsk, lateTrack>>
        /\ active' = active \cap (on \cup unsaid)
    BY <1>4 DEF Reset
  <2> QED
    BY <2>1 DEF RoomRight
<1>5. CASE \/ SpeakerChanges \/ ServeAsk \/ FlushPendingSubscriptions \/ SettleAsk \/ OnTrack
           \/ Deliver \/ (\E x, p : TellOfLeaving(x, p) \/ EndFeed(x, p)) \/ UNCHANGED remoteVars
  <2>1. UNCHANGED <<present, on, active, tracked, joins>> /\ untold' \subseteq untold
    BY <1>5 DEF SpeakerChanges, ServeAsk, FlushPendingSubscriptions, SettleAsk, OnTrack, Deliver,
       TellOfLeaving, EndFeed, remoteVars, roomVars, sourceVars, leaveVars, boundVars
  <2>2. failedAsk' \in BOOLEAN /\ lateTrack' \in BOOLEAN
    BY <1>5 DEF RoomRight, SpeakerChanges, ServeAsk, FlushPendingSubscriptions, SettleAsk, OnTrack,
       Deliver, TellOfLeaving, EndFeed, remoteVars, history
  <2> QED
    BY <2>1, <2>2 DEF RoomRight
<1> QED
  BY <1>1, <1>2, <1>3, <1>4, <1>5 DEF RemoteNext

(* A joining that overtakes a leaving is known as long as no new session   *)
(* of the listener begins with all of the leaving told.                    *)
LEMMA LateEndStays ==
    ASSUME [RemoteNext]_remoteVars, ~Reset
    PROVE  /\ lateEnd => lateEnd'
           /\ RemoteJoins \/ (lateEnd' => lateEnd)
<1>1. CASE RemoteJoins
  <2>1. lateEnd' = (lateEnd \/ untold # {} \/ ending # {})
    BY <1>1 DEF RemoteJoins
  <2> QED
    BY ONLY <1>1, <2>1
<1>2. CASE ~RemoteJoins
  <2>1. UNCHANGED lateEnd
    BY <1>2 DEF RemoteNext, RemoteLeaves, RemoteToggles, TrackArrives, SpeakerChanges, ServeAsk,
       FlushPendingSubscriptions, SettleAsk, OnTrack, Deliver, TellOfLeaving, EndFeed, remoteVars, history
  <2> QED
    BY ONLY <2>1
<1> QED
  BY <1>1, <1>2

(* sfuCallClient's view of one user and the server's room, as they start   *)
(* and move, keep what is on its way in step with what the tile and the    *)
(* server will have, until the user joins again before voice_user_left and *)
(* the ends of its tracks have been pushed, and again from the listener's  *)
(* next session on.                                                        *)
THEOREM RemoteInvHolds == RemoteSpec => []RemoteInv
<1>1. ASSUME RemoteInv, [RemoteNext]_remoteVars PROVE RemoteInv'
  <2>r. RoomRight /\ RoomRight'
    BY <1>1, RoomStays DEF RemoteInv
  <2>1. CASE Reset
    <3>1. lateEnd' = (lateEnd /\ untold # {})
      BY <2>1 DEF Reset
    <3>2. CASE lateEnd'
      BY <3>2, <2>r DEF RemoteInv
    <3>3. CASE ~lateEnd'
      <4>1. present # 0 => untold = {}
        BY <3>1, <3>3, <1>1 DEF RemoteInv, RemoteAgrees, SessionRight
      <4> QED
        BY <4>1, <2>1, <2>r, ResetKeeps DEF RemoteInv
    <3> QED
      BY <3>2, <3>3
  <2>2. CASE ~Reset /\ lateEnd'
    BY <2>2, <2>r DEF RemoteInv
  <2>3. CASE ~Reset /\ ~lateEnd'
    <3>1. ~lateEnd /\ RemoteAgrees
      BY <2>3, <1>1, LateEndStays DEF RemoteInv
    <3>2. CASE RemoteJoins \/ SpeakerChanges \/ \E s \in Sources : RemoteToggles(s) \/ TrackArrives(s)
      BY <3>1, <3>2, <2>3, <2>r, OtherMoves DEF RemoteInv
    <3>3. CASE RemoteLeaves
      BY <3>1, <3>3, <2>r, LeavesKeep DEF RemoteInv
    <3>4. ASSUME NEW x, NEW p, TellOfLeaving(x, p) PROVE RemoteInv'
      BY <3>1, <3>4, <2>r, TellKeeps DEF RemoteInv
    <3>5. ASSUME NEW x, NEW p, EndFeed(x, p) PROVE RemoteInv'
      BY <3>1, <3>5, <2>r, FeedEndKeeps DEF RemoteInv
    <3>6. CASE ServeAsk
      BY <3>1, <3>6, <2>r, ServeKeeps DEF RemoteInv
    <3>7. CASE FlushPendingSubscriptions
      BY <3>1, <3>7, <2>r, FlushKeeps DEF RemoteInv
    <3>8. CASE SettleAsk
      BY <3>1, <3>8, <2>r, SettleKeeps DEF RemoteInv
    <3>9. CASE OnTrack
      BY <3>1, <3>9, <2>r, TrackKeeps DEF RemoteInv
    <3>10. CASE Deliver
      BY <3>1, <3>10, <2>r, DeliverKeeps DEF RemoteInv
    <3>11. CASE UNCHANGED remoteVars
      BY <3>1, <3>11, <2>r, RemoteStutters DEF RemoteInv
    <3> QED
      BY <1>1, <2>3, <3>2, <3>3, <3>4, <3>5, <3>6, <3>7, <3>8, <3>9, <3>10, <3>11 DEF RemoteNext
  <2> QED
    BY <2>1, <2>2, <2>3
<1>2. RemoteInit => RemoteInv
  BY RemoteStart DEF RemoteInv
<1> QED
  BY <1>1, <1>2, PTL DEF RemoteSpec

(* With nothing on its way only what is true now is left of the invariant. *)
LEMMA RemoteIsSettled == RemoteInv => RemoteVideoSettles
<1> SUFFICES ASSUME RemoteAgrees PROVE RemoteVideoSettles
  BY DEF RemoteInv, RemoteVideoSettles, TileIsRight, QualityFollows
<1>t. /\ RemoteTypeOK /\ SessionRight /\ ViewRight
      /\ \A s \in Sources :
           OnIsSeen(s) /\ OffIsQuiet(s) /\ OnIsAsked(s) /\ AskedIsFed(s) /\ FedHasTrack(s)
  BY DEF RemoteAgrees
<1>1. ASSUME Arrived
      PROVE  /\ ~Gone /\ wishes = {}
             /\ \A kind, s : ~Awaits(kind, s)
             /\ \A s : Hides(s) <=> s \in hidden
             /\ Failing <=> failedAsk
             /\ \A s, q : WillFeed(s, q) <=> want[s] = q
             /\ \A i \in DOMAIN coming : FALSE
  <2>1. /\ \A i \in DOMAIN events : FALSE
        /\ \A i \in DOMAIN coming : FALSE
        /\ \A i \in DOMAIN asks : FALSE
    BY <1>1 DEF Arrived
  <2>2. wishes = {}
    BY <1>1 DEF Arrived, RemoteAgrees
  <2>3. ~Gone /\ (\A kind, s : ~Awaits(kind, s)) /\ \A s : Hides(s) <=> s \in hidden
    BY <2>1, <1>1 DEF Gone, Awaits, Hides, Arrived, LeftUntold
  <2>4. (Failing <=> failedAsk) /\ \A s, q : WillFeed(s, q) <=> want[s] = q
    BY <2>1 DEF Failing, WillFeed
  <2> QED
    BY <2>1, <2>2, <2>3, <2>4
<1>2. TileIsRight
  <2> SUFFICES ASSUME Arrived, present # 0, ~failedAsk, ~lateTrack, active \subseteq tracked
               PROVE  onScreen = Desired([s \in Sources |-> IF s \in active THEN present ELSE 0], {})
    BY DEF TileIsRight
  <2>1. ASSUME NEW s \in active PROVE s \in Sources /\ s \notin hidden /\ slot[s] = present
    <3>1. s \in Sources /\ s \in tracked
      BY <1>t DEF RemoteTypeOK
    <3>2. s \notin hidden
      BY <3>1, <1>1, <1>t DEF OnIsSeen
    <3>3. s \in subscribed
      BY <3>1, <1>1, <1>t DEF OnIsAsked
    <3>4. want[s] = QualityFor(s, loud)
      BY <3>1, <3>3, <1>1, <1>t DEF AskedIsFed
    <3>5. want[s] # "none"
      BY <3>4 DEF QualityFor
    <3> QED
      BY <3>1, <3>2, <3>5, <1>1, <1>t DEF FedHasTrack
  <2>2. ASSUME NEW s \in Sources, s \notin active PROVE s \in hidden \/ slot[s] = 0
    BY <2>2, <1>1, <1>t DEF OffIsQuiet, NotAsked
  <2>3. "screen" \in Sources /\ "camera" \in Sources
    BY DEF Sources
  <2> QED
    BY <2>1, <2>2, <2>3, <1>t DEF ViewRight, Desired
<1>3. QualityFollows
  <2> SUFFICES ASSUME Arrived, ~failedAsk, want["camera"] # "none"
               PROVE  want["camera"] = QualityFor("camera", loud)
    BY DEF QualityFollows
  <2>1. "camera" \in Sources
    BY DEF Sources
  <2>2. "camera" \in tracked /\ present # 0
    BY <2>1, <1>t DEF SessionRight, Stale, Arrived
  <2>3. "camera" \in active \/ Hides("camera")
    BY <2>1, <2>2, <1>t DEF OffIsQuiet, NotAsked
  <2>4. "camera" \in subscribed
    BY <2>1, <2>2, <2>3, <1>1, <1>t DEF OnIsAsked
  <2> QED
    BY <2>1, <2>4, <1>1, <1>t DEF AskedIsFed
<1> QED
  BY <1>2, <1>3 DEF RemoteVideoSettles

(* When nothing is on its way to sfuCallClient, the tile shows what was     *)
(* last published of the user and the server feeds the layer the client    *)
(* means, but for the failures and overtakings that are excepted.          *)
THEOREM TheTileSettles == RemoteSpec => []RemoteVideoSettles
<1> QED
  BY RemoteInvHolds, RemoteIsSettled, PTL

-----------------------------------------------------------------------------
(* Overlays                                                                *)

OverlaySpec == OverlayInit /\ [][OverlayNext]_overlayVars

(* What a sequence adds up to, without a recursive definition: to is the   *)
(* last of its partial sums.                                               *)
AddsUp(s, to) ==
    \E sums \in [1..(Len(s) + 1) -> Int] :
        /\ sums[1] = 0 /\ sums[Len(s) + 1] = to
        /\ \A i \in 1..Len(s) : sums[i + 1] = sums[i] + s[i]

OverlayTypeOK ==
    /\ stack \in Seq(Sheets) /\ traversals \in Seq(Int)
    /\ ignorePops \in Nat /\ pendingBacks \in Nat /\ backTimer \in BOOLEAN
    /\ depth \in Nat /\ ahead \in Nat /\ forwards \in Nat
    /\ crossed \in BOOLEAN /\ away \in BOOLEAN

(* A timer that is off has released all; of the traversals under way some  *)
(* are the hook's own, each of the others will close an overlay, and all   *)
(* of them go back, to where there is an entry for each overlay left and   *)
(* for each one to release.                                                *)
Due == Len(stack) + pendingBacks + ignorePops - Len(traversals) - depth
Balanced ==
    /\ ignorePops <= Len(traversals) /\ AddsUp(traversals, Due)
    /\ \A i \in DOMAIN traversals : traversals[i] <= 0

OverlayInv ==
    /\ OverlayTypeOK
    /\ (~backTimer => pendingBacks = 0)
    /\ (~away /\ forwards = 0 /\ ~crossed => Balanced)

LEMMA AddsUpEmpty == AddsUp(<<>>, 0) /\ \A to : AddsUp(<<>>, to) => to = 0
<1> DEFINE sums == [i \in {1} |-> 0]
<1>1. Len(<<>>) = 0 /\ 0 + 1 = 1 /\ 1..1 = {1} /\ 1..0 = {}
  OBVIOUS
<1>2. sums \in [1..(Len(<<>>) + 1) -> Int] /\ sums[1] = 0 /\ sums[Len(<<>>) + 1] = 0
  BY <1>1
<1> HIDE DEF sums
<1>3. AddsUp(<<>>, 0)
  BY <1>1, <1>2 DEF AddsUp
<1>4. ASSUME NEW to, AddsUp(<<>>, to) PROVE to = 0
  BY <1>1, <1>4 DEF AddsUp
<1> QED
  BY <1>3, <1>4

LEMMA AddsUpAppend ==
  ASSUME NEW s \in Seq(Int), NEW to \in Int, NEW x \in Int, AddsUp(s, to)
  PROVE  AddsUp(Append(s, x), to + x)
<1>1. PICK sums \in [1..(Len(s) + 1) -> Int] :
        /\ sums[1] = 0 /\ sums[Len(s) + 1] = to
        /\ \A i \in 1..Len(s) : sums[i + 1] = sums[i] + s[i]
  BY DEF AddsUp
<1> DEFINE n == Len(s)
           more == [i \in 1..(n + 2) |-> IF i = n + 2 THEN to + x ELSE sums[i]]
<1>2. n \in Nat /\ Len(Append(s, x)) = n + 1 /\ n + 1 + 1 = n + 2
  OBVIOUS
<1>3. more \in [1..(n + 2) -> Int]
  <2>1. ASSUME NEW i \in 1..(n + 2), i # n + 2 PROVE sums[i] \in Int
    <3>1. i \in 1..(n + 1)
      BY <1>2, <2>1
    <3> QED
      BY <1>1, <3>1
  <2> QED
    BY <2>1
<1>4. more[1] = 0 /\ more[n + 2] = to + x
  BY <1>1, <1>2
<1>5. ASSUME NEW i \in 1..(n + 1) PROVE more[i + 1] = more[i] + Append(s, x)[i]
  <2>1. CASE i = n + 1
    <3>1. Append(s, x)[i] = x /\ more[i] = sums[n + 1] /\ more[i + 1] = to + x
      BY <1>2, <2>1
    <3> QED
      BY <1>1, <3>1
  <2>2. CASE i # n + 1
    <3>1. i \in 1..n /\ Append(s, x)[i] = s[i] /\ i + 1 \in 1..(n + 1)
      BY <1>2, <2>2
    <3>2. more[i] = sums[i] /\ more[i + 1] = sums[i + 1]
      BY <1>2, <3>1
    <3> QED
      BY <1>1, <3>1, <3>2
  <2> QED
    BY <2>1, <2>2
<1> HIDE DEF more
<1>6. Len(Append(s, x)) + 1 = n + 2
  BY <1>2
<1>7. more \in [1..(Len(Append(s, x)) + 1) -> Int] /\ more[Len(Append(s, x)) + 1] = to + x
      /\ more[1] = 0 /\ \A i \in 1..Len(Append(s, x)) : more[i + 1] = more[i] + Append(s, x)[i]
  BY <1>2, <1>3, <1>4, <1>5, <1>6
<1> QED
  BY ONLY <1>7 DEF AddsUp

LEMMA AddsUpTail ==
  ASSUME NEW s \in Seq(Int), NEW to \in Int, s # <<>>, AddsUp(s, to)
  PROVE  AddsUp(Tail(s), to - Head(s))
<1>1. PICK sums \in [1..(Len(s) + 1) -> Int] :
        /\ sums[1] = 0 /\ sums[Len(s) + 1] = to
        /\ \A i \in 1..Len(s) : sums[i + 1] = sums[i] + s[i]
  BY DEF AddsUp
<1> DEFINE n == Len(s) - 1  rest == [i \in 1..(n + 1) |-> sums[i + 1] - Head(s)]
<1>2. /\ n \in Nat /\ Len(s) = n + 1 /\ Len(Tail(s)) = n /\ Head(s) = s[1] /\ s[1] \in Int
      /\ \A i \in 1..n : Tail(s)[i] = s[i + 1]
  OBVIOUS
<1>3. \A i \in 1..(n + 1) : sums[i + 1] \in Int /\ rest[i] = sums[i + 1] - s[1]
  BY <1>1, <1>2
<1>4. rest \in [1..(n + 1) -> Int]
  BY <1>2, <1>3
<1>5. rest[1] = 0
  <2>1. sums[1 + 1] = sums[1] + s[1] /\ rest[1] = sums[1 + 1] - s[1]
    BY <1>1, <1>2, <1>3
  <2> QED
    BY <1>1, <1>2, <2>1
<1>6. rest[n + 1] = to - Head(s)
  BY <1>1, <1>2, <1>3
<1>7. ASSUME NEW i \in 1..n PROVE rest[i + 1] = rest[i] + Tail(s)[i]
  <2>1. i + 1 \in 1..(n + 1) /\ i \in 1..(n + 1)
    BY <1>2
  <2>2. sums[i + 1 + 1] = sums[i + 1] + s[i + 1] /\ s[i + 1] \in Int
    BY <1>1, <1>2, <2>1
  <2> QED
    BY <1>2, <1>3, <2>1, <2>2
<1> HIDE DEF rest
<1>8. rest \in [1..(Len(Tail(s)) + 1) -> Int] /\ rest[Len(Tail(s)) + 1] = to - Head(s)
      /\ rest[1] = 0 /\ \A i \in 1..Len(Tail(s)) : rest[i + 1] = rest[i] + Tail(s)[i]
  BY <1>2, <1>4, <1>5, <1>6, <1>7
<1> QED
  BY ONLY <1>8 DEF AddsUp

LEMMA OverlayBegins == OverlayInit => OverlayInv
<1> SUFFICES ASSUME OverlayInit PROVE OverlayInv
  OBVIOUS
<1>1. Len(<<>>) = 0 /\ <<>> \in Seq(Sheets) /\ <<>> \in Seq(Int) /\ DOMAIN <<>> = {}
  OBVIOUS
<1>2. Balanced
  <2>1. OverlayInit => Due = 0 /\ traversals = <<>>
    BY <1>1 DEF OverlayInit, Due
  <2> QED
    BY <1>1, <2>1, AddsUpEmpty DEF OverlayInit, Balanced
<1> QED
  BY <1>1, <1>2 DEF OverlayInit, OverlayInv, OverlayTypeOK

(* One overlay less.                                                       *)
LEMMA OneTaken ==
  ASSUME NEW S, NEW s \in Seq(S), NEW i \in DOMAIN s
  PROVE  RemoveAt(s, i) \in Seq(S) /\ Len(RemoveAt(s, i)) = Len(s) - 1
<1>1. i \in 1..Len(s) /\ Len(s) \in Nat
  OBVIOUS
<1>2. SubSeq(s, 1, i - 1) \in Seq(S) /\ Len(SubSeq(s, 1, i - 1)) = i - 1
  BY <1>1
<1>3. SubSeq(s, i + 1, Len(s)) \in Seq(S) /\ Len(SubSeq(s, i + 1, Len(s))) = Len(s) - i
  BY <1>1
<1> DEFINE a == SubSeq(s, 1, i - 1)  b == SubSeq(s, i + 1, Len(s))
<1>4. a \in Seq(S) /\ b \in Seq(S) /\ Len(a) = i - 1 /\ Len(b) = Len(s) - i
      /\ RemoveAt(s, i) = a \o b
  BY <1>2, <1>3 DEF RemoveAt
<1> HIDE DEF a, b
<1>5. a \o b \in Seq(S) /\ Len(a \o b) = Len(a) + Len(b)
  BY <1>4
<1> QED
  BY <1>1, <1>4, <1>5

LEMMA OverlayKept == OverlayInv /\ [OverlayNext]_overlayVars => OverlayInv'
<1> SUFFICES ASSUME OverlayInv, [OverlayNext]_overlayVars PROVE OverlayInv'
  OBVIOUS
<1>0. /\ stack \in Seq(Sheets) /\ traversals \in Seq(Int) /\ ignorePops \in Nat /\ depth \in Nat
      /\ pendingBacks \in Nat /\ ahead \in Nat /\ forwards \in Nat
      /\ backTimer \in BOOLEAN /\ crossed \in BOOLEAN /\ away \in BOOLEAN
      /\ (~backTimer => pendingBacks = 0) /\ (~away /\ forwards = 0 /\ ~crossed => Balanced)
      /\ Len(stack) \in Nat /\ Len(traversals) \in Nat /\ Due \in Int
  BY DEF OverlayInv, OverlayTypeOK, Due
<1>1. ASSUME NEW o \in Sheets, Open(o) PROVE OverlayInv'
  <2>1. stack' \in Seq(Sheets) /\ Len(stack') = Len(stack) + 1
    BY <1>0, <1>1 DEF Open
  <2>2. /\ UNCHANGED <<ignorePops, backTimer, traversals, forwards, crossed, away>>
        /\ depth' \in Nat /\ ahead' \in Nat /\ pendingBacks' \in Nat
        /\ (pendingBacks = 0 => pendingBacks' = 0)
        /\ \/ depth' = depth + 1 /\ pendingBacks' = pendingBacks
           \/ depth' = depth /\ pendingBacks' = pendingBacks - 1
    BY <1>0, <1>1 DEF Open
  <2>3. Due' = Due
    <3>1. /\ Len(stack') = Len(stack) + 1
          /\ \/ depth' = depth + 1 /\ pendingBacks' = pendingBacks
             \/ depth' = depth /\ pendingBacks' = pendingBacks - 1
          /\ ignorePops' = ignorePops /\ Len(traversals') = Len(traversals)
      BY <2>1, <2>2
    <3>2. /\ Len(stack) \in Int /\ pendingBacks \in Int /\ ignorePops \in Int
          /\ Len(traversals) \in Int /\ depth \in Int /\ depth' \in Int /\ pendingBacks' \in Int
      BY <1>0, <2>2
    <3> QED
      BY ONLY <3>1, <3>2 DEF Due
  <2>4. Balanced => Balanced'
    BY <2>2, <2>3 DEF Balanced
  <2> QED
    BY <1>0, <2>1, <2>2, <2>4 DEF OverlayInv, OverlayTypeOK
<1>2. ASSUME NEW o \in Sheets, Close(o) PROVE OverlayInv'
  <2>1. stack' \in Seq(Sheets) /\ Len(stack') = Len(stack) - 1
    BY <1>0, <1>2, OneTaken DEF Close
  <2>2. /\ UNCHANGED <<ignorePops, depth, ahead, traversals, forwards, crossed, away>>
        /\ pendingBacks' = pendingBacks + 1 /\ backTimer' = TRUE
    BY <1>2 DEF Close
  <2>3. Due' = Due
    <3>1. /\ Len(stack') = Len(stack) - 1 /\ pendingBacks' = pendingBacks + 1
          /\ ignorePops' = ignorePops /\ Len(traversals') = Len(traversals) /\ depth' = depth
      BY <2>1, <2>2
    <3>2. /\ Len(stack) \in Int /\ pendingBacks \in Int /\ ignorePops \in Int
          /\ Len(traversals) \in Int /\ depth \in Int
      BY <1>0
    <3> QED
      BY ONLY <3>1, <3>2 DEF Due
  <2>4. Balanced => Balanced'
    BY <2>2, <2>3 DEF Balanced
  <2>5. pendingBacks' \in Nat /\ backTimer' \in BOOLEAN
    BY <1>0, <2>2
  <2> QED
    BY <1>0, <2>1, <2>2, <2>4, <2>5 DEF OverlayInv, OverlayTypeOK
<1>3. CASE Release
  <2>1. CASE pendingBacks = 0
    <3>1. /\ UNCHANGED <<stack, ignorePops, pendingBacks, depth, ahead, traversals, forwards,
                         crossed, away>>
          /\ backTimer' = FALSE
      BY <1>0, <1>3, <2>1 DEF Release
    <3>2. Balanced => Balanced'
      BY <3>1 DEF Balanced, Due
    <3> QED
      BY <1>0, <2>1, <3>1, <3>2 DEF OverlayInv, OverlayTypeOK
  <2>2. CASE pendingBacks # 0
    <3>1. /\ traversals' = Append(traversals, -pendingBacks) /\ ignorePops' = ignorePops + 1
          /\ pendingBacks' = 0 /\ backTimer' = FALSE /\ -pendingBacks \in Int
          /\ UNCHANGED <<stack, depth, ahead, forwards, crossed, away>>
      BY <1>0, <1>3, <2>2 DEF Release
    <3>2. /\ traversals' \in Seq(Int) /\ Len(traversals') = Len(traversals) + 1
          /\ \A i \in DOMAIN traversals' : \/ i \in DOMAIN traversals /\ traversals'[i] = traversals[i]
                                           \/ traversals'[i] = -pendingBacks
      BY <1>0, <3>1
    <3>3. Due' = Due + (-pendingBacks)
      BY <1>0, <3>1, <3>2 DEF Due
    <3>4. Balanced => Balanced'
      <4> SUFFICES ASSUME Balanced PROVE Balanced'
        OBVIOUS
      <4>1. AddsUp(traversals', Due + (-pendingBacks))
        BY <1>0, <3>1, AddsUpAppend DEF Balanced
      <4>2. ignorePops' <= Len(traversals') /\ -pendingBacks <= 0
        BY <1>0, <3>1, <3>2 DEF Balanced
      <4>3. \A i \in DOMAIN traversals' : traversals'[i] <= 0
        BY <3>2, <4>2 DEF Balanced
      <4> QED
        BY <3>3, <4>1, <4>2, <4>3 DEF Balanced
    <3>5. ignorePops' \in Nat /\ pendingBacks' \in Nat /\ backTimer' \in BOOLEAN
      <4>1. ignorePops \in Nat /\ ignorePops' = ignorePops + 1 /\ pendingBacks' = 0
        BY <1>0, <3>1
      <4>2. backTimer' \in BOOLEAN
        BY <3>1
      <4>3. ignorePops' \in Nat /\ pendingBacks' \in Nat
        BY ONLY <4>1
      <4> QED
        BY <4>2, <4>3
    <3> QED
      BY <1>0, <3>1, <3>2, <3>4, <3>5 DEF OverlayInv, OverlayTypeOK
  <2> QED
    BY <2>1, <2>2
<1>4. CASE Back
  <2>1. /\ traversals' = Append(traversals, -1)
        /\ UNCHANGED <<stack, ignorePops, pendingBacks, backTimer, depth, ahead, forwards, crossed, away>>
    BY <1>4 DEF Back
  <2>2. /\ traversals' \in Seq(Int) /\ Len(traversals') = Len(traversals) + 1
        /\ \A i \in DOMAIN traversals' : \/ i \in DOMAIN traversals /\ traversals'[i] = traversals[i]
                                         \/ traversals'[i] = -1
    BY <1>0, <2>1
  <2>3. Due' = Due + (-1)
    <3>1. Due = Len(stack) + pendingBacks + ignorePops - Len(traversals) - depth
      BY DEF Due
    <3>2. Due' = Len(stack)' + pendingBacks' + ignorePops' - Len(traversals)' - depth'
      BY DEF Due
    <3>3. Len(stack)' = Len(stack) /\ pendingBacks' = pendingBacks
      BY <2>1
    <3>4. ignorePops' = ignorePops /\ depth' = depth
      BY <2>1
    <3>5. Len(traversals)' = Len(traversals) + 1
      BY <2>2
    <3>6. Len(stack) \in Int /\ pendingBacks \in Int /\ ignorePops \in Int
      BY <1>0
    <3>7. Len(traversals) \in Int /\ depth \in Int
      BY <1>0
    <3> QED
      BY ONLY <3>1, <3>2, <3>3, <3>4, <3>5, <3>6, <3>7
  <2>4. Balanced => Balanced'
    <3> SUFFICES ASSUME Balanced PROVE Balanced'
      OBVIOUS
    <3>1. AddsUp(traversals', Due + (-1))
      BY <1>0, <2>1, AddsUpAppend DEF Balanced
    <3>2. ignorePops' <= Len(traversals')
      BY <1>0, <2>1, <2>2 DEF Balanced
    <3>3. \A i \in DOMAIN traversals' : traversals'[i] <= 0
      BY <2>2 DEF Balanced
    <3> QED
      BY <2>3, <3>1, <3>2, <3>3 DEF Balanced
  <2> QED
    BY <1>0, <2>1, <2>2, <2>4 DEF OverlayInv, OverlayTypeOK
<1>5. CASE Forward
  <2>1. /\ traversals' = Append(traversals, 1) /\ forwards' = forwards + 1
        /\ UNCHANGED <<stack, ignorePops, pendingBacks, backTimer, depth, ahead, crossed, away>>
    BY <1>5 DEF Forward
  <2>2. traversals' \in Seq(Int) /\ forwards' # 0 /\ forwards' \in Nat
    BY <1>0, <2>1
  <2> QED
    BY <1>0, <2>1, <2>2 DEF OverlayInv, OverlayTypeOK
<1>6. CASE Traverse
  <2> DEFINE by == Head(traversals)
  <2>1. /\ traversals # <<>> /\ traversals' = Tail(traversals) /\ by \in Int
        /\ traversals' \in Seq(Int) /\ Len(traversals') = Len(traversals) - 1
        /\ by = traversals[1] /\ 1 \in DOMAIN traversals
        /\ \A i \in DOMAIN traversals' : i + 1 \in DOMAIN traversals /\ traversals'[i] = traversals[i + 1]
    BY <1>0, <1>6 DEF Traverse
  <2>2. /\ UNCHANGED <<pendingBacks, backTimer, forwards>>
        /\ crossed' = (crossed \/ (stack = <<>> /\ ignorePops = 0))
        /\ \/ by > ahead /\ UNCHANGED <<stack, ignorePops, depth, ahead, away>>
           \/ /\ by <= ahead /\ depth + by >= 0
              /\ depth' = depth + by /\ ahead' = ahead - by /\ OnPopState /\ UNCHANGED away
           \/ depth + by < 0 /\ away' = TRUE /\ UNCHANGED <<stack, ignorePops, depth, ahead>>
    BY <1>6 DEF Traverse
  <2> HIDE DEF by
  <2>3. stack # <<>> => Front(stack) \in Seq(Sheets) /\ Len(Front(stack)) = Len(stack) - 1
    <3> SUFFICES ASSUME stack # <<>>
                 PROVE  Front(stack) \in Seq(Sheets) /\ Len(Front(stack)) = Len(stack) - 1
      OBVIOUS
    <3>1. Len(stack) \in Nat \ {0}
      BY <1>0, EmptySeq
    <3> DEFINE n == Len(stack) - 1
    <3>2. n \in Nat /\ n + 1 = Len(stack)
      BY <3>1
    <3>3. SubSeq(stack, 1, n) \in Seq(Sheets) /\ Len(SubSeq(stack, 1, n)) = n
      BY <1>0, <3>2
    <3> QED
      BY <3>3 DEF Front
  <2>4. /\ OnPopState => ignorePops' \in Nat /\ stack' \in Seq(Sheets)
        /\ OnPopState /\ ignorePops > 0 => ignorePops' = ignorePops - 1 /\ stack' = stack
        /\ OnPopState /\ ignorePops = 0 /\ stack # <<>> =>
              ignorePops' = 0 /\ Len(stack') = Len(stack) - 1
    BY <1>0, <2>3 DEF OnPopState
  <2>5. stack' \in Seq(Sheets) /\ ignorePops' \in Nat /\ crossed' \in BOOLEAN /\ away' \in BOOLEAN
    BY <1>0, <2>2, <2>4
  <2>6. depth' \in Nat /\ ahead' \in Nat
    BY <1>0, <2>1, <2>2
  <2>7. ASSUME Balanced, ~away', ~crossed' PROVE Balanced'
    <3>1. by <= 0 /\ ~(by > ahead)
      <4>1. by <= 0
        BY <2>1, <2>7 DEF Balanced
      <4> QED
        BY <1>0, <2>1, <4>1
    <3>2. depth' = depth + by /\ OnPopState
      BY <2>2, <2>7, <3>1
    <3>3. ~(stack = <<>> /\ ignorePops = 0)
      BY <2>2, <2>7
    <3>4. /\ ignorePops' <= Len(traversals')
          /\ Len(stack') + ignorePops' = Len(stack) + ignorePops - 1
      <4>1. CASE ignorePops > 0
        BY <1>0, <2>1, <2>4, <2>7, <3>2, <4>1 DEF Balanced
      <4>2. CASE ignorePops = 0
        <5>1. Len(traversals) # 0
          BY <1>0, <2>1, EmptySeq
        <5> QED
          BY <1>0, <2>1, <2>4, <3>2, <3>3, <4>2, <5>1
      <4> QED
        BY <1>0, <4>1, <4>2
    <3>5. Due' = Due - by
      <4>1. /\ Len(stack') \in Int /\ Len(stack) \in Int /\ pendingBacks \in Int
            /\ ignorePops \in Int /\ ignorePops' \in Int /\ Len(traversals) \in Int
            /\ depth \in Int /\ by \in Int
        BY <1>0, <2>1, <2>5
      <4>2. /\ Len(stack') + ignorePops' = Len(stack) + ignorePops - 1
            /\ Len(traversals') = Len(traversals) - 1
            /\ pendingBacks' = pendingBacks /\ depth' = depth + by
        BY <2>1, <2>2, <3>2, <3>4
      <4> QED
        BY ONLY <4>1, <4>2 DEF Due
    <3>6. AddsUp(traversals', Due - by)
      BY <1>0, <2>1, <2>7, AddsUpTail DEF Balanced, by
    <3>7. \A i \in DOMAIN traversals' : traversals'[i] <= 0
      BY <2>1, <2>7 DEF Balanced
    <3> QED
      BY <3>4, <3>5, <3>6, <3>7 DEF Balanced
  <2>8. ~away' => ~away
    BY <1>6 DEF Traverse
  <2> QED
    BY <1>0, <2>1, <2>2, <2>5, <2>6, <2>7, <2>8 DEF OverlayInv, OverlayTypeOK
<1>7. CASE UNCHANGED overlayVars
  BY <1>7 DEF overlayVars, OverlayInv, OverlayTypeOK, Balanced, Due
<1> QED
  BY <1>1, <1>2, <1>3, <1>4, <1>5, <1>6, <1>7 DEF OverlayNext

(* The inductive invariant of the hook's stack and the browser's history   *)
(* (useBackDismiss.ts).                                                    *)
THEOREM OverlayInvHolds == OverlaySpec => []OverlayInv
BY OverlayBegins, OverlayKept, PTL DEF OverlaySpec

(* With nothing under way there is one history entry for each open overlay *)
(* and no popstate is taken for the hook's own (useBackDismiss.ts, "every  *)
(* open overlay owns exactly one extra history entry").                    *)
THEOREM EachHasItsEntry == OverlaySpec => []OneEntryEach
<1>1. OverlayInv => OneEntryEach
  <2> SUFFICES ASSUME OverlayInv, ~away, ~backTimer, traversals = <<>>, forwards = 0, ~crossed
               PROVE  depth = Len(stack) /\ ignorePops = 0 /\ pendingBacks = 0
    BY DEF OneEntryEach
  <2>1. pendingBacks = 0 /\ Len(traversals) = 0 /\ Balanced /\ OverlayTypeOK
    BY DEF OverlayInv
  <2>2. ignorePops = 0 /\ Due = 0
    BY <2>1, AddsUpEmpty DEF Balanced, OverlayTypeOK
  <2> QED
    BY <2>1, <2>2 DEF OverlayTypeOK, Due
<1> QED
  BY <1>1, OverlayInvHolds, PTL

-----------------------------------------------------------------------------
(* The rooms of the router                                                 *)

(* The initial state of the router satisfies the invariant.                *)
LEMMA InitRouterInv == RouterInit => RouterInv
<1> SUFFICES ASSUME RouterInit PROVE RouterInv
  OBVIOUS
<1> USE NoneIsNotAnId DEF RouterInit
<1>1. RouterTypeOK
  BY DEF RouterTypeOK, Stages
<1>2. OpenRoomsAreMapped
  BY DEF OpenRoomsAreMapped
<1>3. NoLeakedRoom
  BY DEF NoLeakedRoom
<1>4. PeersInv
  BY DEF PeersInv
<1>5. RoomsInv
  BY DEF RoomsInv
<1> QED
  BY <1>1, <1>2, <1>3, <1>4, <1>5 DEF RouterInv

(* Router.Join under r.mu: a fresh room is the channel's and has a joiner. *)
LEMMA JoinPeersKeepsInv ==
  ASSUME RouterInv, ~crashed,
         NEW s \in Sids, NEW u \in Users, NEW ch \in Channels, JoinPeers(s, u, ch)
  PROVE  RouterInv'
<1> USE NoneIsNotAnId DEF RouterInv, RouterTypeOK
<1>0. PICK r \in Rids :
         /\ \/ rooms[ch] = r /\ UNCHANGED <<rooms, roomState>>
            \/ /\ rooms[ch] = None
               /\ roomState[r] = "unborn"
               /\ rooms' = [rooms EXCEPT ![ch] = r]
               /\ roomState' = [roomState EXCEPT ![r] = "open"]
         /\ peerRoom' = [peerRoom EXCEPT ![s] = r]
  BY DEF JoinPeers
<1>1. RouterTypeOK'
  <2>1. /\ rooms' \in [Channels -> Rids \cup {None}]
        /\ roomState' \in [Rids -> {"unborn", "open", "closed"}]
    <3>1. CASE rooms[ch] = r /\ UNCHANGED <<rooms, roomState>>
      BY <3>1
    <3>2. CASE /\ rooms' = [rooms EXCEPT ![ch] = r]
               /\ roomState' = [roomState EXCEPT ![r] = "open"]
      BY <3>2
    <3> QED
      BY <1>0, <3>1, <3>2
  <2>2. /\ peerUser' \in [Sids -> Users \cup {None}]
        /\ peerChannel' \in [Sids -> Channels \cup {None}]
        /\ peerRoom' \in [Sids -> Rids \cup {None}]
    BY <1>0 DEF JoinPeers
  <2>3. stage' \in [Sids -> Stages]
    BY DEF JoinPeers, Stages
  <2> QED
    BY <2>1, <2>2, <2>3 DEF JoinPeers
<1>2. OpenRoomsAreMapped'
  BY <1>0 DEF JoinPeers, OpenRoomsAreMapped
<1>3. NoLeakedRoom'
  <2> SUFFICES ASSUME NEW q \in Rids, roomState'[q] = "open", IsEmpty(q)'
               PROVE  \E t \in Sids :
                         \/ stage'[t] = "joining" /\ peerRoom'[t] = q
                         \/ stage'[t] \in {"removed", "reclaim"} /\ leaveRoom'[t] = q
    BY DEF NoLeakedRoom
  <2>1. CASE q = r
    BY <2>1, <1>0 DEF JoinPeers
  <2>2. CASE q # r
    <3>1. roomState[q] = "open" /\ IsEmpty(q)
      BY <2>2, <1>0 DEF JoinPeers, IsEmpty
    <3>2. PICK t \in Sids : \/ stage[t] = "joining" /\ peerRoom[t] = q
                            \/ stage[t] \in {"removed", "reclaim"} /\ leaveRoom[t] = q
      BY <3>1 DEF NoLeakedRoom
    <3> QED
      BY <3>2, <1>0 DEF JoinPeers
  <2> QED
    BY <2>1, <2>2
<1>4. PeersInv'
  BY <1>0 DEF JoinPeers, PeersInv, OpenRoomsAreMapped
<1>5. RoomsInv'
  BY <1>0 DEF JoinPeers, RoomsInv, OpenRoomsAreMapped
<1> QED
  BY <1>1, <1>2, <1>3, <1>4, <1>5

(* room.add: the room, if open, is empty no longer.                        *)
LEMMA JoinAddKeepsInv ==
  ASSUME RouterInv, ~crashed, NEW s \in Sids, JoinAdd(s)
  PROVE  RouterInv'
<1> USE NoneIsNotAnId DEF RouterInv, RouterTypeOK
<1>0. peerRoom[s] \in Rids /\ peerUser[s] \in Users
  BY DEF JoinAdd, PeersInv
<1>1. RouterTypeOK'
  BY <1>0 DEF JoinAdd, Stages
<1>2. OpenRoomsAreMapped'
  BY DEF JoinAdd, OpenRoomsAreMapped
<1>3. NoLeakedRoom'
  <2> SUFFICES ASSUME NEW q \in Rids, roomState'[q] = "open", IsEmpty(q)'
               PROVE  \E t \in Sids :
                         \/ stage'[t] = "joining" /\ peerRoom'[t] = q
                         \/ stage'[t] \in {"removed", "reclaim"} /\ leaveRoom'[t] = q
    BY DEF NoLeakedRoom
  <2>1. members'[peerRoom[s]][peerUser[s]] = s
    BY <1>0 DEF JoinAdd
  <2>2. q # peerRoom[s]
    BY <2>1, <1>0 DEF IsEmpty
  <2>3. roomState[q] = "open" /\ IsEmpty(q)
    BY <2>2, <1>0 DEF JoinAdd, IsEmpty
  <2>4. PICK t \in Sids : \/ stage[t] = "joining" /\ peerRoom[t] = q
                          \/ stage[t] \in {"removed", "reclaim"} /\ leaveRoom[t] = q
    BY <2>3 DEF NoLeakedRoom
  <2> QED
    BY <2>4, <2>2 DEF JoinAdd
<1>4. PeersInv'
  BY DEF JoinAdd, PeersInv
<1>5. RoomsInv'
  BY DEF JoinAdd, RoomsInv
<1> QED
  BY <1>1, <1>2, <1>3, <1>4, <1>5

(* Router.Leave's first hold of r.mu: the room it reads is the channel's.  *)
LEMMA LeavePeersKeepsInv ==
  ASSUME RouterInv, ~crashed, NEW s \in Sids, LeavePeers(s)
  PROVE  RouterInv'
<1> USE NoneIsNotAnId DEF RouterInv, RouterTypeOK
<1>0. peerChannel[s] \in Channels
  BY DEF LeavePeers, PeersInv
<1>1. RouterTypeOK'
  BY <1>0 DEF LeavePeers, Stages
<1>2. OpenRoomsAreMapped'
  BY DEF LeavePeers, OpenRoomsAreMapped
<1>3. NoLeakedRoom'
  <2> SUFFICES ASSUME NEW q \in Rids, roomState'[q] = "open", IsEmpty(q)'
               PROVE  \E t \in Sids :
                         \/ stage'[t] = "joining" /\ peerRoom'[t] = q
                         \/ stage'[t] \in {"removed", "reclaim"} /\ leaveRoom'[t] = q
    BY DEF NoLeakedRoom
  <2>1. PICK t \in Sids : \/ stage[t] = "joining" /\ peerRoom[t] = q
                          \/ stage[t] \in {"removed", "reclaim"} /\ leaveRoom[t] = q
    BY DEF LeavePeers, IsEmpty, NoLeakedRoom
  <2> QED
    BY <2>1 DEF LeavePeers
<1>4. PeersInv'
  BY <1>0 DEF LeavePeers, PeersInv, OpenRoomsAreMapped
<1>5. RoomsInv'
  BY DEF LeavePeers, RoomsInv
<1> QED
  BY <1>1, <1>2, <1>3, <1>4, <1>5

(* room.remove: if that empties the room, this Leave is the witness.       *)
LEMMA LeaveRemoveKeepsInv ==
  ASSUME RouterInv, ~crashed, NEW s \in Sids, LeaveRemove(s)
  PROVE  RouterInv'
<1> USE NoneIsNotAnId DEF RouterInv, RouterTypeOK
<1>0. leaveRoom[s] \in Rids /\ peerUser[s] \in Users
  BY DEF LeaveRemove, PeersInv
<1>1. RouterTypeOK'
  BY <1>0 DEF LeaveRemove, Stages
<1>2. OpenRoomsAreMapped'
  BY DEF LeaveRemove, OpenRoomsAreMapped
<1>3. NoLeakedRoom'
  <2> SUFFICES ASSUME NEW q \in Rids, roomState'[q] = "open", IsEmpty(q)'
               PROVE  \E t \in Sids :
                         \/ stage'[t] = "joining" /\ peerRoom'[t] = q
                         \/ stage'[t] \in {"removed", "reclaim"} /\ leaveRoom'[t] = q
    BY DEF NoLeakedRoom
  <2>1. CASE q = leaveRoom[s]
    BY <2>1 DEF LeaveRemove
  <2>2. CASE q # leaveRoom[s]
    <3>1. roomState[q] = "open" /\ IsEmpty(q)
      BY <2>2, <1>0 DEF LeaveRemove, IsEmpty
    <3>2. PICK t \in Sids : \/ stage[t] = "joining" /\ peerRoom[t] = q
                            \/ stage[t] \in {"removed", "reclaim"} /\ leaveRoom[t] = q
      BY <3>1 DEF NoLeakedRoom
    <3> QED
      BY <3>2 DEF LeaveRemove
  <2> QED
    BY <2>1, <2>2
<1>4. PeersInv'
  BY DEF LeaveRemove, PeersInv
<1>5. RoomsInv'
  BY DEF LeaveRemove, RoomsInv
<1> QED
  BY <1>1, <1>2, <1>3, <1>4, <1>5

(* The first isEmpty: giving up is right only because the room is in use.  *)
LEMMA LeaveCheckEmptyKeepsInv ==
  ASSUME RouterInv, ~crashed, NEW s \in Sids, LeaveCheckEmpty(s)
  PROVE  RouterInv'
<1> USE NoneIsNotAnId DEF RouterInv, RouterTypeOK
<1>1. RouterTypeOK'
  BY DEF LeaveCheckEmpty, Stages
<1>2. OpenRoomsAreMapped'
  BY DEF LeaveCheckEmpty, OpenRoomsAreMapped
<1>3. NoLeakedRoom'
  <2> SUFFICES ASSUME NEW q \in Rids, roomState'[q] = "open", IsEmpty(q)'
               PROVE  \E t \in Sids :
                         \/ stage'[t] = "joining" /\ peerRoom'[t] = q
                         \/ stage'[t] \in {"removed", "reclaim"} /\ leaveRoom'[t] = q
    BY DEF NoLeakedRoom
  <2>1. IsEmpty(q)
    BY DEF LeaveCheckEmpty, IsEmpty
  <2>2. PICK t \in Sids : \/ stage[t] = "joining" /\ peerRoom[t] = q
                          \/ stage[t] \in {"removed", "reclaim"} /\ leaveRoom[t] = q
    BY <2>1 DEF LeaveCheckEmpty, NoLeakedRoom
  <2> QED
    BY <2>1, <2>2 DEF LeaveCheckEmpty
<1>4. PeersInv'
  BY DEF LeaveCheckEmpty, PeersInv
<1>5. RoomsInv'
  BY DEF LeaveCheckEmpty, RoomsInv
<1> QED
  BY <1>1, <1>2, <1>3, <1>4, <1>5

(* The re-check under r.mu: a room found empty is closed, once and for all;*)
(* one found in use again is left open, and so is not empty.               *)
LEMMA LeaveReclaimKeepsInv ==
  ASSUME RouterInv, ~crashed, NEW s \in Sids, LeaveReclaim(s)
  PROVE  RouterInv'
<1> USE NoneIsNotAnId DEF RouterInv, RouterTypeOK
<1> DEFINE r == leaveRoom[s]
<1>0. r \in Rids /\ roomState[r] # "unborn" /\ peerChannel[s] \in Channels
  BY DEF LeaveReclaim, PeersInv
<1>1. RouterTypeOK'
  BY <1>0 DEF LeaveReclaim, Stages
<1>2. OpenRoomsAreMapped'
  <2>1. CASE ~IsEmpty(r)
    <3>1. rooms' = rooms /\ roomState' = roomState /\ crashed' = crashed
      BY <2>1 DEF LeaveReclaim
    <3> QED
      BY <3>1 DEF OpenRoomsAreMapped
  <2>2. CASE IsEmpty(r) /\ roomState[r] = "open"
    <3>1. rooms[peerChannel[s]] = r
      BY <2>2 DEF LeaveReclaim, PeersInv
    <3>2. \A ch \in Channels : rooms[ch] = r => ch = peerChannel[s]
      BY <3>1, <1>0 DEF RoomsInv
    <3>3. /\ rooms' = [rooms EXCEPT ![peerChannel[s]] = None]
          /\ roomState' = [roomState EXCEPT ![r] = "closed"]
      BY <2>2 DEF LeaveReclaim
    <3> HIDE DEF r
    <3> QED
      BY <3>1, <3>2, <3>3, <1>0 DEF OpenRoomsAreMapped
  <2>3. CASE IsEmpty(r) /\ roomState[r] = "closed"
    <3>1. /\ crashed'
          /\ rooms' = [rooms EXCEPT ![peerChannel[s]] = None]
          /\ roomState' = [roomState EXCEPT ![r] = "closed"]
      BY <2>3 DEF LeaveReclaim
    <3>2. roomState' = roomState
      BY <3>1, <2>3, <1>0
    <3> QED
      BY <3>1, <3>2, <2>3, <1>0 DEF OpenRoomsAreMapped
  <2> QED
    BY <1>0, <2>1, <2>2, <2>3
<1>3. NoLeakedRoom'
  <2> SUFFICES ASSUME NEW q \in Rids, roomState'[q] = "open", IsEmpty(q)'
               PROVE  \E t \in Sids :
                         \/ stage'[t] = "joining" /\ peerRoom'[t] = q
                         \/ stage'[t] \in {"removed", "reclaim"} /\ leaveRoom'[t] = q
    BY DEF NoLeakedRoom
  <2>1. roomState[q] = "open" /\ IsEmpty(q) /\ q # r
    BY <1>0 DEF LeaveReclaim, IsEmpty
  <2>2. PICK t \in Sids : \/ stage[t] = "joining" /\ peerRoom[t] = q
                          \/ stage[t] \in {"removed", "reclaim"} /\ leaveRoom[t] = q
    BY <2>1 DEF NoLeakedRoom
  <2> QED
    BY <2>1, <2>2 DEF LeaveReclaim
<1>4. PeersInv'
  <2>1. CASE ~IsEmpty(r)
    BY <2>1, <1>0 DEF LeaveReclaim, PeersInv
  <2>2. CASE IsEmpty(r) /\ roomState[r] = "open"
    <3>1. /\ rooms[peerChannel[s]] = r
          /\ rooms' = [rooms EXCEPT ![peerChannel[s]] = None]
          /\ roomState' = [roomState EXCEPT ![r] = "closed"]
      BY <2>2 DEF LeaveReclaim, PeersInv
    <3>2. \A t \in Sids : stage'[t] # "unborn" => stage[t] # "unborn"
      BY DEF LeaveReclaim
    <3>3. \A t \in Sids : stage'[t] = "unborn" <=> peerUser'[t] = None
      BY DEF LeaveReclaim, PeersInv
    <3>4. \A q \in Rids : /\ roomState[q] # "unborn" => roomState'[q] # "unborn"
                          /\ roomState'[q] = "open" => roomState[q] = "open" /\ q # r
      BY <3>1, <1>0
    <3>5. ASSUME NEW t \in Sids, stage'[t] \in {"removing", "removed", "reclaim"}
          PROVE  /\ leaveRoom'[t] \in Rids
                 /\ roomState'[leaveRoom'[t]] # "unborn"
                 /\ (roomState'[leaveRoom'[t]] = "open" /\ ~crashed') =>
                       rooms'[peerChannel'[t]] = leaveRoom'[t]
      <4>1. stage[t] = stage'[t] /\ leaveRoom'[t] = leaveRoom[t] /\ peerChannel' = peerChannel
        BY <3>5 DEF LeaveReclaim
      <4>2. /\ leaveRoom[t] \in Rids /\ roomState[leaveRoom[t]] # "unborn"
            /\ roomState[leaveRoom[t]] = "open" => rooms[peerChannel[t]] = leaveRoom[t]
        BY <4>1, <3>5 DEF PeersInv
      <4> HIDE DEF r
      <4> QED
        BY <4>1, <4>2, <3>1, <3>4, <1>0
    <3> QED
      BY <3>2, <3>3, <3>4, <3>5 DEF LeaveReclaim, PeersInv
  <2>3. CASE IsEmpty(r) /\ roomState[r] = "closed"
    <3>1. /\ crashed'
          /\ rooms' = [rooms EXCEPT ![peerChannel[s]] = None]
          /\ roomState' = [roomState EXCEPT ![r] = "closed"]
      BY <2>3 DEF LeaveReclaim
    <3>2. roomState' = roomState
      BY <3>1, <2>3, <1>0
    <3> QED
      BY <3>1, <3>2, <1>0 DEF LeaveReclaim, PeersInv
  <2> QED
    BY <1>0, <2>1, <2>2, <2>3
<1>5. RoomsInv'
  BY <1>0 DEF LeaveReclaim, RoomsInv
<1> QED
  BY <1>1, <1>2, <1>3, <1>4, <1>5

(* peer.close, and the decision to leave, touch no room.                   *)
LEMMA LeaveCloseKeepsInv ==
  ASSUME RouterInv, ~crashed, NEW s \in Sids, LeaveClose(s) \/ Condemn(s)
  PROVE  RouterInv'
<1> USE NoneIsNotAnId DEF RouterInv, RouterTypeOK
<1>1. RouterTypeOK'
  BY DEF LeaveClose, Condemn, Stages
<1>2. OpenRoomsAreMapped'
  BY DEF LeaveClose, Condemn, OpenRoomsAreMapped
<1>3. NoLeakedRoom'
  <2> SUFFICES ASSUME NEW q \in Rids, roomState'[q] = "open", IsEmpty(q)'
               PROVE  \E t \in Sids :
                         \/ stage'[t] = "joining" /\ peerRoom'[t] = q
                         \/ stage'[t] \in {"removed", "reclaim"} /\ leaveRoom'[t] = q
    BY DEF NoLeakedRoom
  <2>1. PICK t \in Sids : \/ stage[t] = "joining" /\ peerRoom[t] = q
                          \/ stage[t] \in {"removed", "reclaim"} /\ leaveRoom[t] = q
    BY DEF LeaveClose, Condemn, IsEmpty, NoLeakedRoom
  <2> QED
    BY <2>1 DEF LeaveClose, Condemn
<1>4. PeersInv'
  BY DEF LeaveClose, Condemn, PeersInv
<1>5. RoomsInv'
  BY DEF LeaveClose, Condemn, RoomsInv
<1> QED
  BY <1>1, <1>2, <1>3, <1>4, <1>5

(* Every step of the router preserves the invariant.                       *)
LEMMA NextRouterInv == RouterInv /\ [RouterNext]_routerVars => RouterInv'
<1> SUFFICES ASSUME RouterInv, [RouterNext]_routerVars PROVE RouterInv'
  OBVIOUS
<1>1. CASE UNCHANGED routerVars
  BY <1>1 DEF routerVars, RouterInv, RouterTypeOK, OpenRoomsAreMapped, NoLeakedRoom,
              PeersInv, RoomsInv, IsEmpty
<1>2. CASE RouterNext
  <2>0. ~crashed
    BY <1>2 DEF RouterNext
  <2>1. CASE \E s \in Sids, u \in Users, ch \in Channels : JoinPeers(s, u, ch)
    BY <2>0, <2>1, JoinPeersKeepsInv
  <2>2. CASE \E s \in Sids : JoinAdd(s)
    BY <2>0, <2>2, JoinAddKeepsInv
  <2>3. CASE \E s \in Sids : LeavePeers(s)
    BY <2>0, <2>3, LeavePeersKeepsInv
  <2>4. CASE \E s \in Sids : LeaveRemove(s)
    BY <2>0, <2>4, LeaveRemoveKeepsInv
  <2>5. CASE \E s \in Sids : LeaveCheckEmpty(s)
    BY <2>0, <2>5, LeaveCheckEmptyKeepsInv
  <2>6. CASE \E s \in Sids : LeaveReclaim(s)
    BY <2>0, <2>6, LeaveReclaimKeepsInv
  <2>7. CASE \E s \in Sids : LeaveClose(s) \/ Condemn(s)
    BY <2>0, <2>7, LeaveCloseKeepsInv
  <2>8. condemned \subseteq Sids
    BY DEF RouterInv, RouterTypeOK
  <2> QED
    BY <1>2, <2>1, <2>2, <2>3, <2>4, <2>5, <2>6, <2>7, <2>8 DEF RouterNext, LeaveStep
<1> QED
  BY <1>1, <1>2

(* The invariant of the router: type correctness and the room bookkeeping. *)
THEOREM RouterInvHolds == RouterSafeSpec => []RouterInv
BY InitRouterInv, NextRouterInv, PTL DEF RouterSafeSpec

(* The variables have their types.                                         *)
THEOREM RouterTyped == RouterSafeSpec => []RouterTypeOK
<1>1. RouterInv => RouterTypeOK
  BY DEF RouterInv
<1> QED
  BY <1>1, RouterInvHolds, PTL

(* Open rooms are exactly those r.rooms hands to the next joiner.          *)
THEOREM OpenRoomsStayMapped == RouterSafeSpec => []OpenRoomsAreMapped
<1>1. RouterInv => OpenRoomsAreMapped
  BY DEF RouterInv
<1> QED
  BY <1>1, RouterInvHolds, PTL

(* Router.Leave's double check leaks no room.                              *)
THEOREM NoRoomLeaks == RouterSafeSpec => []NoLeakedRoom
<1>1. RouterInv => NoLeakedRoom
  BY DEF RouterInv
<1> QED
  BY <1>1, RouterInvHolds, PTL

(* How a step on one session changes the life SfuSessions sees.            *)
LEMMA LifeStep ==
  ASSUME RouterTypeOK, NEW s \in Sids, NEW x \in Stages, stage' = [stage EXCEPT ![s] = x]
  PROVE  Life' = [Life EXCEPT ![s] =
                    IF x \in {"removing", "removed", "reclaim", "closing"}
                      THEN "leaving" ELSE x]
BY DEF Life, RouterTypeOK

(* Every step of the router is a step, or a stutter, of SfuSessions.       *)
LEMMA NextImplements ==
  ASSUME RouterInv, RouterNext
  PROVE  [Sessions!SessionsNext]_(Sessions!sessionVars)
<1> USE DEF Sessions!sessionVars
<1>0. RouterTypeOK /\ condemned \subseteq Sids
  BY DEF RouterInv, RouterTypeOK
<1>1. ASSUME NEW s \in Sids, NEW u \in Users, NEW ch \in Channels,
             MayJoin(u), JoinPeers(s, u, ch)
      PROVE  Sessions!SessionsNext
  <2>1. Life' = [Life EXCEPT ![s] = "joining"]
    BY <1>0, <1>1, LifeStep DEF JoinPeers, Stages
  <2>2. Sessions!MayJoin(u)
    BY <1>1 DEF MayJoin, Sessions!MayJoin, Life
  <2>3. Life[s] = "unborn"
    BY <1>1 DEF JoinPeers, Life
  <2>4. Sessions!Join(s, u, ch)
    BY <1>1, <2>1, <2>3 DEF JoinPeers, Sessions!Join
  <2> QED
    BY <2>2, <2>4 DEF Sessions!SessionsNext
<1>2. ASSUME NEW s \in Sids, JoinAdd(s)
      PROVE  Sessions!SessionsNext
  <2>1. Life' = [Life EXCEPT ![s] = "live"] /\ Life[s] = "joining"
    BY <1>0, <1>2, LifeStep DEF JoinAdd, Stages, Life
  <2> QED
    BY <1>2, <2>1 DEF JoinAdd, Sessions!SessionsNext, Sessions!JoinReturns
<1>3. ASSUME NEW s \in Sids, Condemn(s)
      PROVE  Sessions!SessionsNext
  <2>1. Life' = Life /\ Life[s] = "live"
    BY <1>3 DEF Condemn, Life
  <2> QED
    BY <1>3, <2>1 DEF Condemn, Sessions!SessionsNext, Sessions!Condemn
<1>4. ASSUME NEW s \in condemned, LeavePeers(s)
      PROVE  Sessions!SessionsNext
  <2>1. Life' = [Life EXCEPT ![s] = "leaving"]
    BY <1>0, <1>4, LifeStep DEF LeavePeers, Stages
  <2>2. Life[s] = "live" /\ s \in Sids
    BY <1>0, <1>4 DEF LeavePeers, Life
  <2> QED
    BY <1>4, <2>1, <2>2 DEF LeavePeers, Sessions!SessionsNext, Sessions!Leave
<1>5. ASSUME NEW s \in Sids, LeaveRemove(s) \/ LeaveCheckEmpty(s) \/ LeaveReclaim(s)
      PROVE  UNCHANGED Sessions!sessionVars
  <2>1. Life[s] = "leaving" /\ Life \in [Sids -> {Life[t] : t \in Sids}]
    BY <1>5 DEF LeaveRemove, LeaveCheckEmpty, LeaveReclaim, Life
  <2>2. Life' = [Life EXCEPT ![s] = "leaving"]
    BY <1>0, <1>5, LifeStep DEF LeaveRemove, LeaveCheckEmpty, LeaveReclaim, Stages
  <2>3. Life' = Life
    BY <2>1, <2>2
  <2> QED
    BY <1>5, <2>3 DEF LeaveRemove, LeaveCheckEmpty, LeaveReclaim
<1>6. ASSUME NEW s \in Sids, LeaveClose(s)
      PROVE  Sessions!SessionsNext
  <2>1. Life' = [Life EXCEPT ![s] = "gone"] /\ Life[s] = "leaving"
    BY <1>0, <1>6, LifeStep DEF LeaveClose, Stages, Life
  <2> QED
    BY <1>6, <2>1 DEF LeaveClose, Sessions!SessionsNext, Sessions!LeaveReturns
<1> QED
  BY <1>1, <1>2, <1>3, <1>4, <1>5, <1>6 DEF RouterNext, LeaveStep

(* Rooms, and the races between their locks, never show in the life of a   *)
(* session: the router implements SfuSessions, the module the hub's voice  *)
(* model is built on.                                                      *)
THEOREM RouterImplementsSessions == RouterSafeSpec => ImplementsSessions
<1>1. RouterInit => Sessions!SessionsInit
  BY DEF RouterInit, Sessions!SessionsInit, Life
<1>2. RouterInv /\ [RouterNext]_routerVars => [Sessions!SessionsNext]_(Sessions!sessionVars)
  <2>1. ASSUME UNCHANGED routerVars PROVE UNCHANGED Sessions!sessionVars
    BY <2>1 DEF routerVars, Sessions!sessionVars, Life
  <2> QED
    BY <2>1, NextImplements
<1> QED
  BY <1>1, <1>2, RouterInvHolds, PTL
     DEF RouterSafeSpec, ImplementsSessions, Sessions!SessionsSpec
=============================================================================
