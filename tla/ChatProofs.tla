----------------------------- MODULE ChatProofs -----------------------------
(***************************************************************************)
(* What the frontend does with messages and tabs, for any number of them:  *)
(* after a round of heartbeats one tab leads (AnnouncedInv: the heartbeat  *)
(* of a leader that has announced itself waits on the channel of every     *)
(* leader with a larger id), the tab and the push sender notify of the same*)
(* messages, an edit is shown as it is stored, a draft is posted once,     *)
(* where it was written, or is still in its box, and the badges agree with *)
(* what the server has saved and marked.                                   *)
(***************************************************************************)
EXTENDS Tabs, NotifyRules, Edits, Composer, ReadMarks, FiniteSetTheorems, TLAPS

-----------------------------------------------------------------------------
(* The election of the tab that plays the sounds                           *)

TabSpec == TabInit /\ [][TabNext]_tabVars

Message == [type : {"heartbeat", "leaving"}, id : Nat]

LEMMA InitTabInv == TabInit => TabInv
BY DEF TabInit, TabInv, TabTypeOK, IdsInv, AnnouncedInv

(* The channels once m has been posted by p, open being the state of tabs. *)
Posted(open, p, m, inboxes) ==
    IF open[p] = "in"
    THEN [q \in Pages |-> IF q # p /\ open[q] = "in" THEN Append(inboxes[q], m)
                          ELSE inboxes[q]]
    ELSE inboxes

(* What a post does: one message more on the channels of the other tabs.   *)
PostedAdds(open, p, m, inboxes) ==
    /\ Posted(open, p, m, inboxes) \in [Pages -> Seq(Message)]
    /\ \A q \in Pages : \A i \in DOMAIN inboxes[q] :
           /\ i \in DOMAIN Posted(open, p, m, inboxes)[q]
           /\ Posted(open, p, m, inboxes)[q][i] = inboxes[q][i]
    /\ \A q \in Pages : open[p] = "in" /\ open[q] = "in" /\ q # p =>
           \E i \in DOMAIN Posted(open, p, m, inboxes)[q] :
               Posted(open, p, m, inboxes)[q][i] = m

(* Broadcast of leader.ts reaches every other open tab and loses nothing.  *)
LEMMA BroadcastAdds ==
  ASSUME NEW open, NEW p \in Pages, NEW m \in Message,
         NEW inboxes \in [Pages -> Seq(Message)]
  PROVE  PostedAdds(open, p, m, inboxes)
<1>1. ASSUME NEW q \in Pages
      PROVE  /\ Append(inboxes[q], m) \in Seq(Message)
             /\ \A i \in DOMAIN inboxes[q] :
                    /\ i \in DOMAIN Append(inboxes[q], m)
                    /\ Append(inboxes[q], m)[i] = inboxes[q][i]
             /\ \E i \in DOMAIN Append(inboxes[q], m) : Append(inboxes[q], m)[i] = m
  <2>1. inboxes[q] \in Seq(Message)
    OBVIOUS
  <2>2. Append(inboxes[q], m)[Len(inboxes[q]) + 1] = m
    BY <2>1
  <2>3. Append(inboxes[q], m) \in Seq(Message)
    BY <2>1
  <2>4. \A i \in DOMAIN inboxes[q] :
           i \in DOMAIN Append(inboxes[q], m) /\ Append(inboxes[q], m)[i] = inboxes[q][i]
    BY <2>1
  <2>5. Len(inboxes[q]) + 1 \in DOMAIN Append(inboxes[q], m)
    BY <2>1
  <2> QED
    BY <2>2, <2>3, <2>4, <2>5
<1>2. CASE open[p] # "in"
  BY <1>2 DEF Posted, PostedAdds
<1>3. CASE open[p] = "in"
  <2> DEFINE after == Posted(open, p, m, inboxes)
  <2>1. after = [q \in Pages |-> IF q # p /\ open[q] = "in" THEN Append(inboxes[q], m)
                                 ELSE inboxes[q]]
    BY <1>3 DEF Posted
  <2> HIDE DEF after
  <2>2. after \in [Pages -> Seq(Message)]
    BY <1>1, <2>1
  <2>3. ASSUME NEW q \in Pages, NEW i \in DOMAIN inboxes[q]
        PROVE  i \in DOMAIN after[q] /\ after[q][i] = inboxes[q][i]
    BY <1>1, <2>1, <2>3
  <2>4. ASSUME NEW q \in Pages, open[q] = "in", q # p
        PROVE  \E i \in DOMAIN after[q] : after[q][i] = m
    BY <1>1, <2>1, <2>4
  <2> QED
    BY <2>2, <2>3, <2>4 DEF after, PostedAdds
<1> QED
  BY <1>2, <1>3

(* A tab that becomes leader is the only announced one, or was leading     *)
(* already and loses nobody's heartbeat.                                   *)
LEMMA BecomeLeaderAnnounces ==
  ASSUME TabInv, NEW p \in Pages, NEW inboxes \in [Pages -> Seq(Message)],
         \A q \in agreed, r \in Pages :
             Leading(q) /\ Leading(r) /\ myId[q] < myId[r] =>
                 \E i \in DOMAIN inboxes[r] :
                     inboxes[r][i] = [type |-> "heartbeat", id |-> myId[q]],
         BecomeLeader(p, inboxes), UNCHANGED <<tab, myId, elections>>
  PROVE  /\ isLeaderFlag' \in [Pages -> BOOLEAN] /\ leaderId' \in [Pages -> Nat]
         /\ channel' \in [Pages -> Seq(Message)] /\ agreed' \subseteq Pages
         /\ AnnouncedInv'
<1> USE DEF TabInv
<1> DEFINE Hb(q) == [type |-> "heartbeat", id |-> myId[q]]
<1>1. /\ channel' \in [Pages -> Seq(Message)]
      /\ \A q \in Pages : \A i \in DOMAIN inboxes[q] :
             i \in DOMAIN channel'[q] /\ channel'[q][i] = inboxes[q][i]
      /\ \A q \in Pages : tab[p] = "in" /\ tab[q] = "in" /\ q # p =>
             \E i \in DOMAIN channel'[q] : channel'[q][i] = Hb(p)
  <2>1. Hb(p) \in Message
    BY DEF Message, IdsInv
  <2>2. channel' = Posted(tab, p, Hb(p), inboxes)
    BY DEF BecomeLeader, Broadcast, Posted
  <2> HIDE DEF Hb
  <2>3. PostedAdds(tab, p, Hb(p), inboxes)
    BY <2>1, BroadcastAdds
  <2> QED
    BY <2>2, <2>3 DEF PostedAdds
<1>2. /\ isLeaderFlag' = [isLeaderFlag EXCEPT ![p] = TRUE]
      /\ isLeaderFlag \in [Pages -> BOOLEAN]
  BY DEF BecomeLeader, TabTypeOK
<1>3. isLeaderFlag' \in [Pages -> BOOLEAN]
  BY <1>2
<1>4. leaderId' \in [Pages -> Nat]
  <2>1. myId[p] \in Nat
    BY DEF IdsInv
  <2> QED
    BY <2>1 DEF BecomeLeader, TabTypeOK
<1>5. agreed' \subseteq Pages
  BY DEF BecomeLeader, TabTypeOK
<1>6. ASSUME NEW q \in agreed', NEW r \in Pages,
             Leading(q)', Leading(r)', myId[q] < myId[r]
      PROVE  \E i \in DOMAIN channel'[r] : channel'[r][i] = Hb(q)
  <2>1. q \in Pages /\ tab[q] = "in" /\ tab[r] = "in"
    BY <1>5, <1>6 DEF Leading
  <2>2. q # r
    <3>1. myId[q] \in Nat
      BY <2>1 DEF IdsInv
    <3> QED
      BY <3>1, <1>6
  <2>3. CASE ~Leading(p)
    <3>1. q = p
      BY <2>3 DEF BecomeLeader
    <3> QED
      BY <1>1, <2>1, <2>2, <3>1
  <2>4. CASE Leading(p)
    <3>1. q \in agreed /\ Leading(q) /\ Leading(r)
      BY <1>2, <1>6, <2>1, <2>4 DEF BecomeLeader, Leading
    <3> QED
      BY <1>1, <1>6, <3>1, Zenon
  <2> QED
    BY <2>3, <2>4
<1>7. AnnouncedInv'
  BY <1>6 DEF AnnouncedInv
<1> QED
  BY <1>1, <1>3, <1>4, <1>5, <1>7

(* A message that is not the first one survives the reading of the first.  *)
LEMMA TailKeeps ==
  ASSUME NEW s \in Seq(Message), s # <<>>
  PROVE  /\ Head(s) \in Message /\ Tail(s) \in Seq(Message)
         /\ \A i \in DOMAIN s : s[i] # Head(s) =>
                \E j \in DOMAIN Tail(s) : Tail(s)[j] = s[i]
<1>1. Head(s) \in Message /\ Tail(s) \in Seq(Message) /\ Head(s) = s[1]
  OBVIOUS
<1>2. ASSUME NEW i \in DOMAIN s, s[i] # Head(s)
      PROVE  \E j \in DOMAIN Tail(s) : Tail(s)[j] = s[i]
  <2>1. i \in 2..Len(s)
    BY <1>1, <1>2
  <2>2. i - 1 \in DOMAIN Tail(s) /\ Tail(s)[i - 1] = s[i]
    BY <2>1
  <2> QED
    BY <2>2
<1> QED
  BY <1>1, <1>2

(* Every action keeps what the election relies on.                         *)
LEMMA TabInvStep == TabInv /\ [TabNext]_tabVars => TabInv'
<1> SUFFICES ASSUME TabInv, [TabNext]_tabVars
             PROVE  TabInv'
  OBVIOUS
<1> USE DEF TabInv
<1>0. TabTypeOK /\ IdsInv /\ AnnouncedInv
  OBVIOUS
<1>a. channel \in [Pages -> Seq(Message)]
  BY DEF TabTypeOK, Message
<1>1. ASSUME NEW p \in Pages, InitLeaderElection(p)
      PROVE  TabInv'
  <2>1. TabTypeOK'
    BY <1>1 DEF InitLeaderElection, TabTypeOK
  <2>2. IdsInv'
    <3>1. /\ elections \in Nat /\ elections' = elections + 1
          /\ myId \in [Pages -> 0..elections] /\ myId' = [myId EXCEPT ![p] = elections']
          /\ tab' = [tab EXCEPT ![p] = "in"] /\ tab \in [Pages -> {"shut", "in", "out"}]
      BY <1>1 DEF InitLeaderElection, IdsInv, TabTypeOK
    <3>2. \A q \in Pages : myId'[q] = IF q = p THEN elections + 1 ELSE myId[q]
      BY <3>1
    <3>3. \A q \in Pages : myId[q] \in 0..elections
      BY <3>1
    <3>4. elections' \in Nat /\ myId' \in [Pages -> 0..elections']
      BY <3>1
    <3>5. \A q \in Pages : tab'[q] = "in" => myId'[q] > 0
      BY <3>1, <3>2 DEF IdsInv
    <3>6. ASSUME NEW q \in Pages, NEW r \in Pages, q # r, myId'[q] > 0
          PROVE  myId'[q] # myId'[r]
      BY <3>1, <3>2, <3>3, <3>6 DEF IdsInv
    <3> QED
      BY <3>4, <3>5, <3>6 DEF IdsInv
  <2>3. AnnouncedInv'
    BY <1>1 DEF InitLeaderElection, AnnouncedInv
  <2> QED
    BY <2>1, <2>2, <2>3
<1>2. ASSUME NEW p \in Pages, Claims(p)
      PROVE  TabInv'
  <2>1. claim' \in [Pages -> Nat]
    BY <1>2 DEF Claims, TabTypeOK
  <2>2. CASE leaderId[p] = 0
    <3>1. BecomeLeader(p, channel) /\ UNCHANGED <<tab, myId, elections>>
      BY <1>2, <2>2 DEF Claims
    <3>2. /\ isLeaderFlag' \in [Pages -> BOOLEAN] /\ leaderId' \in [Pages -> Nat]
          /\ channel' \in [Pages -> Seq(Message)] /\ agreed' \subseteq Pages
          /\ AnnouncedInv'
      BY <1>0, <1>a, <3>1, BecomeLeaderAnnounces DEF AnnouncedInv
    <3> QED
      BY <2>1, <3>1, <3>2 DEF TabTypeOK, IdsInv, Message
  <2>3. CASE leaderId[p] # 0
    BY <1>2, <2>1, <2>3 DEF Claims, TabTypeOK, IdsInv, AnnouncedInv, Leading
  <2> QED
    BY <2>2, <2>3
<1>3. ASSUME NEW p \in Pages, WatchdogFires(p)
      PROVE  TabInv'
  <2>1. BecomeLeader(p, channel) /\ UNCHANGED <<tab, myId, elections, claim>>
    BY <1>3 DEF WatchdogFires
  <2>2. /\ isLeaderFlag' \in [Pages -> BOOLEAN] /\ leaderId' \in [Pages -> Nat]
        /\ channel' \in [Pages -> Seq(Message)] /\ agreed' \subseteq Pages
        /\ AnnouncedInv'
    BY <1>0, <1>a, <2>1, BecomeLeaderAnnounces DEF AnnouncedInv
  <2> QED
    BY <2>1, <2>2 DEF TabTypeOK, IdsInv, Message
<1>4. ASSUME NEW p \in Pages, Heartbeats(p)
      PROVE  TabInv'
  <2>1. /\ channel' = Broadcast(p, "heartbeat", channel)
        /\ UNCHANGED <<tab, myId, isLeaderFlag, leaderId, claim, elections>>
        /\ agreed' = IF Leading(p) THEN agreed \union {p} ELSE agreed
        /\ \A q \in Pages : channel[q] = <<>>
    BY <1>4 DEF Heartbeats
  <2> DEFINE m == [type |-> "heartbeat", id |-> myId[p]]
  <2>2. m \in Message /\ channel' = Posted(tab, p, m, channel)
    BY <2>1 DEF Message, IdsInv, Broadcast, Posted
  <2> HIDE DEF m
  <2>3. /\ channel' \in [Pages -> Seq(Message)]
        /\ \A q \in Pages : tab[p] = "in" /\ tab[q] = "in" /\ q # p =>
               \E i \in DOMAIN channel'[q] : channel'[q][i] = m
    <3>1. PostedAdds(tab, p, m, channel)
      BY <1>a, <2>2, BroadcastAdds
    <3> QED
      BY <2>2, <3>1 DEF PostedAdds
  <2>4. TabTypeOK' /\ IdsInv'
    BY <2>1, <2>3 DEF TabTypeOK, IdsInv, Message
  <2>5. ASSUME NEW q \in agreed', NEW r \in Pages,
               Leading(q)', Leading(r)', myId[q] < myId[r]
        PROVE  \E i \in DOMAIN channel'[r] :
                   channel'[r][i] = [type |-> "heartbeat", id |-> myId[q]]
    <3>1. Leading(q) /\ Leading(r) /\ tab[q] = "in" /\ tab[r] = "in"
      BY <2>1, <2>5 DEF Leading
    <3>2. q \notin agreed
      <4>1. DOMAIN channel[r] = {}
        BY <2>1
      <4> QED
        BY <2>1, <2>5, <3>1, <4>1 DEF AnnouncedInv
    <3>3. q = p
      BY <2>1, <3>2
    <3>4. q # r
      <4>1. myId[r] \in Nat
        BY DEF IdsInv
      <4> QED
        BY <4>1, <2>5
    <3> QED
      BY <2>3, <3>1, <3>3, <3>4 DEF m
  <2>6. AnnouncedInv'
    BY <2>1, <2>5 DEF AnnouncedInv
  <2> QED
    BY <2>4, <2>6
<1>5. ASSUME NEW p \in Pages, HearsHeartbeat(p)
      PROVE  TabInv'
  <2>1. /\ channel[p] \in Seq(Message) /\ channel[p] # <<>>
        /\ channel' = [channel EXCEPT ![p] = Tail(channel[p])]
        /\ UNCHANGED <<tab, myId, claim, elections>>
        /\ leaderId' = [leaderId EXCEPT ![p] = Head(channel[p]).id]
    BY <1>5, <1>a DEF HearsHeartbeat
  <2>2. /\ Head(channel[p]) \in Message /\ Tail(channel[p]) \in Seq(Message)
        /\ \A i \in DOMAIN channel[p] : channel[p][i] # Head(channel[p]) =>
               \E j \in DOMAIN Tail(channel[p]) : Tail(channel[p])[j] = channel[p][i]
    BY <2>1, TailKeeps, Zenon
  <2>3. Head(channel[p]).id \in Nat
    BY <2>2 DEF Message
  <2>4. /\ isLeaderFlag' \in [Pages -> BOOLEAN] /\ agreed' \subseteq agreed
        /\ \A q \in Pages : isLeaderFlag'[q] => isLeaderFlag[q]
        /\ isLeaderFlag'[p] => ~StepsDown(p, Head(channel[p]).id)
    BY <1>5 DEF HearsHeartbeat, TabTypeOK
  <2>5. TabTypeOK' /\ IdsInv'
    BY <1>a, <2>1, <2>2, <2>3, <2>4 DEF TabTypeOK, IdsInv, Message
  <2>6. ASSUME NEW q \in agreed', NEW r \in Pages,
               Leading(q)', Leading(r)', myId[q] < myId[r]
        PROVE  \E i \in DOMAIN channel'[r] :
                   channel'[r][i] = [type |-> "heartbeat", id |-> myId[q]]
    <3>1. q \in agreed /\ q \in Pages /\ Leading(q) /\ Leading(r)
      BY <2>1, <2>4, <2>6 DEF Leading, TabTypeOK
    <3>2. PICK i \in DOMAIN channel[r] :
              channel[r][i] = [type |-> "heartbeat", id |-> myId[q]]
      BY <2>6, <3>1 DEF AnnouncedInv
    <3>3. CASE r # p
      BY <1>a, <2>1, <3>2, <3>3
    <3>4. CASE r = p
      <4>1. ~(Head(channel[p]).id < myId[p])
        BY <2>4, <2>6, <3>1, <3>4 DEF StepsDown, Leading
      <4>2. Head(channel[p]) # [type |-> "heartbeat", id |-> myId[q]]
        BY <4>1, <2>6, <3>4
      <4>3. channel'[r] = Tail(channel[p])
        BY <1>a, <2>1, <3>4
      <4> QED
        BY <2>2, <3>2, <3>4, <4>2, <4>3
    <3> QED
      BY <3>3, <3>4
  <2>7. AnnouncedInv'
    BY <2>1, <2>6 DEF AnnouncedInv
  <2> QED
    BY <2>5, <2>7
<1>6. ASSUME NEW p \in Pages, HearsLeaving(p)
      PROVE  TabInv'
  <2> DEFINE rest == [channel EXCEPT ![p] = Tail(channel[p])]
  <2>1. /\ channel[p] \in Seq(Message) /\ channel[p] # <<>>
        /\ Head(channel[p]).type = "leaving"
        /\ UNCHANGED <<tab, myId, claim, elections>>
    BY <1>6, <1>a DEF HearsLeaving
  <2>2. /\ Tail(channel[p]) \in Seq(Message)
        /\ \A i \in DOMAIN channel[p] : channel[p][i] # Head(channel[p]) =>
               \E j \in DOMAIN Tail(channel[p]) : Tail(channel[p])[j] = channel[p][i]
    BY <2>1, TailKeeps, Zenon
  <2>3. rest \in [Pages -> Seq(Message)]
    BY <1>a, <2>2
  <2>4. ASSUME NEW q \in agreed, NEW r \in Pages,
               Leading(q), Leading(r), myId[q] < myId[r]
        PROVE  \E i \in DOMAIN rest[r] :
                   rest[r][i] = [type |-> "heartbeat", id |-> myId[q]]
    <3>1. PICK i \in DOMAIN channel[r] :
              channel[r][i] = [type |-> "heartbeat", id |-> myId[q]]
      BY <2>4 DEF AnnouncedInv
    <3>2. CASE r # p
      BY <1>a, <3>1, <3>2
    <3>3. CASE r = p
      <4>1. Head(channel[p]) # [type |-> "heartbeat", id |-> myId[q]]
        BY <2>1
      <4>2. rest[r] = Tail(channel[p])
        BY <1>a, <3>3
      <4> QED
        BY <2>2, <3>1, <3>3, <4>1, <4>2
    <3> QED
      BY <3>2, <3>3
  <2>5. CASE Head(channel[p]).id = leaderId[p]
    <3>1. BecomeLeader(p, rest)
      BY <1>6, <2>5 DEF HearsLeaving
    <3> HIDE DEF rest
    <3>2. /\ isLeaderFlag' \in [Pages -> BOOLEAN] /\ leaderId' \in [Pages -> Nat]
          /\ channel' \in [Pages -> Seq(Message)] /\ agreed' \subseteq Pages
          /\ AnnouncedInv'
      <4>1. TabInv /\ UNCHANGED <<tab, myId, elections>>
        BY <2>1
      <4> QED
        BY <2>3, <2>4, <3>1, <4>1, BecomeLeaderAnnounces, Zenon
    <3> QED
      BY <2>1, <3>2 DEF TabTypeOK, IdsInv, Message
  <2>6. CASE Head(channel[p]).id # leaderId[p]
    <3>1. channel' = rest /\ UNCHANGED <<isLeaderFlag, leaderId, agreed>>
      BY <1>6, <2>6 DEF HearsLeaving
    <3> HIDE DEF rest
    <3>2. TabTypeOK' /\ IdsInv'
      BY <2>1, <2>3, <3>1 DEF TabTypeOK, IdsInv, Message
    <3>3. AnnouncedInv'
      BY <2>1, <2>4, <3>1 DEF AnnouncedInv, Leading
    <3> QED
      BY <3>2, <3>3
  <2> QED
    BY <2>5, <2>6
<1>7. ASSUME NEW p \in Pages, Unload(p)
      PROVE  TabInv'
  <2> DEFINE told == IF isLeaderFlag[p] THEN Broadcast(p, "leaving", channel) ELSE channel
  <2>1. /\ tab' = [tab EXCEPT ![p] = "shut"] /\ channel' = [told EXCEPT ![p] = <<>>]
        /\ isLeaderFlag' = [isLeaderFlag EXCEPT ![p] = TRUE]
        /\ leaderId' = [leaderId EXCEPT ![p] = 0] /\ claim' = [claim EXCEPT ![p] = 0]
        /\ agreed' = agreed \ {p} /\ UNCHANGED <<myId, elections>>
    BY <1>7 DEF Unload
  <2>2. /\ told \in [Pages -> Seq(Message)]
        /\ \A q \in Pages : \A i \in DOMAIN channel[q] :
               i \in DOMAIN told[q] /\ told[q][i] = channel[q][i]
    <3> DEFINE m == [type |-> "leaving", id |-> myId[p]]
    <3>1. m \in Message
      BY DEF Message, IdsInv
    <3>2. CASE isLeaderFlag[p]
      <4>1. told = Posted(tab, p, m, channel)
        BY <3>2 DEF Broadcast, Posted
      <4> HIDE DEF told, m
      <4>2. PostedAdds(tab, p, m, channel)
        BY <1>a, <3>1, BroadcastAdds
      <4> QED
        BY <4>1, <4>2 DEF PostedAdds
    <3>3. CASE ~isLeaderFlag[p]
      BY <1>a, <3>3
    <3> QED
      BY <3>2, <3>3
  <2> HIDE DEF told
  <2>3. TabTypeOK'
    BY <2>1, <2>2 DEF TabTypeOK, Message
  <2>4. IdsInv'
    BY <2>1 DEF TabTypeOK, IdsInv
  <2>5. ASSUME NEW q \in agreed', NEW r \in Pages,
               Leading(q)', Leading(r)', myId[q] < myId[r]
        PROVE  \E i \in DOMAIN channel'[r] :
                   channel'[r][i] = [type |-> "heartbeat", id |-> myId[q]]
    <3>1. q \in agreed /\ q # p /\ r # p /\ Leading(q) /\ Leading(r)
      BY <2>1, <2>5 DEF Leading, TabTypeOK
    <3>2. PICK i \in DOMAIN channel[r] :
              channel[r][i] = [type |-> "heartbeat", id |-> myId[q]]
      BY <2>5, <3>1 DEF AnnouncedInv
    <3>3. channel'[r] = told[r]
      BY <2>1, <2>2, <3>1
    <3> QED
      BY <2>2, <3>2, <3>3
  <2>6. AnnouncedInv'
    BY <2>1, <2>5 DEF AnnouncedInv
  <2> QED
    BY <2>3, <2>4, <2>6
<1>8. ASSUME NEW p \in Pages, Dispose(p)
      PROVE  TabInv'
  <2>1. /\ tab' = [tab EXCEPT ![p] = "out"] /\ channel' = [channel EXCEPT ![p] = <<>>]
        /\ agreed' = agreed \ {p}
        /\ UNCHANGED <<myId, isLeaderFlag, leaderId, claim, elections>>
    BY <1>8 DEF Dispose
  <2>2. TabTypeOK' /\ IdsInv'
    BY <2>1 DEF TabTypeOK, IdsInv
  <2>3. ASSUME NEW q \in agreed', NEW r \in Pages,
               Leading(q)', Leading(r)', myId[q] < myId[r]
        PROVE  \E i \in DOMAIN channel'[r] :
                   channel'[r][i] = [type |-> "heartbeat", id |-> myId[q]]
    <3>1. q \in agreed /\ q # p /\ r # p /\ Leading(q) /\ Leading(r)
      BY <2>1, <2>3 DEF Leading, TabTypeOK
    <3>2. channel'[r] = channel[r]
      BY <1>a, <2>1, <3>1
    <3> QED
      BY <2>3, <3>1, <3>2 DEF AnnouncedInv
  <2>4. AnnouncedInv'
    BY <2>1, <2>3 DEF AnnouncedInv
  <2> QED
    BY <2>2, <2>4
<1>9. CASE UNCHANGED tabVars
  BY <1>9 DEF tabVars, TabTypeOK, IdsInv, AnnouncedInv, Leading
<1> QED
  BY <1>1, <1>2, <1>3, <1>4, <1>5, <1>6, <1>7, <1>8, <1>9 DEF TabNext

(* The election keeps its invariant: leader.ts hands out one id per        *)
(* election, and only the hearing of a smaller id makes a leader give way. *)
THEOREM TabInvHolds == TabSpec => []TabInv
BY InitTabInv, TabInvStep, PTL DEF TabSpec

(* "Only the elected leader tab plays sound" (leader.ts): when every       *)
(* leader has announced itself and the channels are empty, at most one tab *)
(* leads, for any number of tabs, elections and watchdogs.                 *)
THEOREM OneTabLeads == TabSpec => []OneLeaderAfterARound
<1>1. TabInv => OneLeaderAfterARound
  <2> DEFINE L == {p \in Pages : Leading(p)}
  <2> SUFFICES ASSUME TabInv, L \subseteq agreed, \A p \in Pages : channel[p] = <<>>
               PROVE  Cardinality(L) <= 1
    BY DEF OneLeaderAfterARound
  <2>1. ASSUME NEW q \in L, NEW r \in L
        PROVE  ~(myId[q] < myId[r])
    <3>1. DOMAIN channel[r] = {}
      OBVIOUS
    <3> QED
      BY <3>1 DEF TabInv, AnnouncedInv
  <2>2. ASSUME NEW q \in L, NEW r \in L
        PROVE  q = r
    <3>1. myId[q] \in Nat /\ myId[r] \in Nat /\ myId[q] > 0
      BY DEF TabInv, IdsInv, Leading
    <3>2. myId[q] = myId[r]
      BY <2>1, <3>1
    <3> QED
      BY <3>1, <3>2 DEF TabInv, IdsInv
  <2>3. CASE L = {}
    BY <2>3, FS_EmptySet
  <2>4. CASE L # {}
    <3>1. PICK q \in L : TRUE
      BY <2>4
    <3> HIDE DEF L
    <3>2. L = {q}
      BY <2>2, <3>1
    <3>3. Cardinality({q}) = 1
      BY FS_Singleton
    <3> QED
      BY <3>2, <3>3
  <2> QED
    BY <2>3, <2>4
<1> QED
  BY <1>1, TabInvHolds, PTL

-----------------------------------------------------------------------------
(* The rules of notifications                                              *)

RuleSpec == RuleInit /\ [][RuleNext]_ruleVars

(* A decision for every message, the tab's and the sender's.               *)
RuleTypeOK ==
    /\ stored \in Settings /\ copy \in Settings /\ answers \subseteq Settings
    /\ isDM \in BOOLEAN /\ inLists \in BOOLEAN /\ viewed \in BOOLEAN

(* A conversation has no server whose settings could apply.                *)
RuleInv ==
    /\ RuleTypeOK
    /\ isDM => stored.server = Unset /\ stored.serverMuted = "unset"
    /\ TabAndPushAgree

(* The two sides' rules give the same answer on the same settings.         *)
LEMMA RulesAgree ==
    ASSUME RuleTypeOK, NEW m \in BOOLEAN, ~viewed, copy = stored, isDM \/ inLists,
           isDM => stored.server = Unset /\ stored.serverMuted = "unset"
    PROVE  ShouldNotify(m) = ProcessEvent(m)
<1>1. ResolveLevel(stored, ~isDM /\ inLists) = TargetLevel
  BY DEF ResolveLevel, TargetLevel, RuleTypeOK
<1>2. IsMuted(stored, ~isDM /\ inLists) <=> TargetMuted
  BY DEF IsMuted, TargetMuted, RuleTypeOK
<1> QED
  BY <1>1, <1>2 DEF ShouldNotify, ProcessEvent

LEMMA PatchKeeps ==
    ASSUME RuleInv, NEW field \in {"channel", "server", "dnd", "channelMuted"},
           NEW value \in Levels \union Untils,
           field \in {"channel", "server"} => value \in Levels,
           field \in {"dnd", "channelMuted"} => value \in Untils,
           Patch(field, value)
    PROVE  RuleInv'
<1>1. PICK s : s = [stored EXCEPT ![field] = value]
  OBVIOUS
<1>2. stored \in Settings /\ stored' = s
  BY <1>1 DEF RuleInv, RuleTypeOK, Patch
<1>3. s \in Settings
  <2>1. CASE field = "channel"
    BY <2>1, <1>1, <1>2 DEF Settings
  <2>2. CASE field = "server"
    BY <2>2, <1>1, <1>2 DEF Settings
  <2>3. CASE field = "dnd"
    BY <2>3, <1>1, <1>2 DEF Settings
  <2>4. CASE field = "channelMuted"
    BY <2>4, <1>1, <1>2 DEF Settings
  <2> QED
    BY <2>1, <2>2, <2>3, <2>4
<1>4. isDM => s.server = Unset /\ s.serverMuted = "unset"
  <2> SUFFICES ASSUME isDM PROVE s.server = Unset /\ s.serverMuted = "unset"
    OBVIOUS
  <2>1. field \in {"channel", "dnd", "channelMuted"}
    BY DEF Patch
  <2>2. stored.server = Unset /\ stored.serverMuted = "unset"
    BY DEF RuleInv
  <2> QED
    BY <2>1, <2>2, <1>1, <1>2 DEF Settings
<1>5. /\ UNCHANGED <<copy, isDM, inLists, viewed>> /\ answers' = answers \union {s}
      /\ inTab' = pushed'
  BY <1>2 DEF Patch
<1> QED
  BY <1>2, <1>3, <1>4, <1>5 DEF RuleInv, RuleTypeOK, TabAndPushAgree

(* useNotificationSettings and the rows of storage under patches whose     *)
(* answers come in any order; a conversation has no settings of a server.  *)
THEOREM RuleInvHolds == RuleSpec => []RuleInv
<1>1. RuleInit => RuleInv
  BY DEF RuleInit, RuleInv, RuleTypeOK, TabAndPushAgree
<1>2. RuleInv /\ [RuleNext]_ruleVars => RuleInv'
  <2> SUFFICES ASSUME RuleInv, [RuleNext]_ruleVars PROVE RuleInv'
    OBVIOUS
  <2>1. ASSUME NEW m \in BOOLEAN, MessageComes(m) PROVE RuleInv'
    <3>1. UNCHANGED <<stored, copy, answers, isDM, inLists, viewed>>
      BY <2>1 DEF MessageComes
    <3>2. ~viewed /\ copy = stored /\ (isDM \/ inLists) => inTab' = pushed'
      BY <2>1, RulesAgree DEF MessageComes, RuleInv
    <3> QED
      BY <3>1, <3>2 DEF RuleInv, RuleTypeOK, TabAndPushAgree
  <2>2. ASSUME NEW f \in {"channel", "server"}, NEW v \in {"all", "none"}, Patch(f, v)
        PROVE  RuleInv'
    BY <2>2, PatchKeeps DEF Levels, Untils
  <2>3. CASE Patch("dnd", "future") \/ Patch("channelMuted", "future")
    BY <2>3, PatchKeeps DEF Levels, Untils
  <2>4. ASSUME NEW s \in answers, PatchAnswered(s) PROVE RuleInv'
    BY <2>4 DEF PatchAnswered, RuleInv, RuleTypeOK, TabAndPushAgree
  <2>5. CASE UNCHANGED ruleVars
    BY <2>5 DEF ruleVars, RuleInv, RuleTypeOK, TabAndPushAgree
  <2> QED
    BY <2>1, <2>2, <2>3, <2>4, <2>5 DEF RuleNext
<1> QED
  BY <1>1, <1>2, PTL DEF RuleSpec

(* shouldNotify in the tab and processEvent in the push sender come to the *)
(* same decision on the same settings.                                     *)
THEOREM DecisionsAgree == RuleSpec => []TabAndPushAgree
<1>1. RuleInv => TabAndPushAgree
  BY DEF RuleInv
<1> QED
  BY <1>1, RuleInvHolds, PTL

-----------------------------------------------------------------------------
(* The list of messages and its editor                                     *)

EditSpec == EditInit /\ [][EditNext]_editVars

Cmd == [message : Messages, text : Nat]
ShownRow == [text : Nat, quote : Nat, loaded : BOOLEAN]
Pushed ==
    [kind : {"page"}, whole : BOOLEAN, rows : [Messages -> ShownRow]]
        \union [kind : {"edited", "ack"}, of : Cmd]
        \union [kind : {"refused"}, fatal : BOOLEAN, of : Cmd]

EditTypeOK ==
    /\ contents \in [Messages -> Nat] /\ rows \in [Messages -> ShownRow]
    /\ editingId \in {0, 1, 2} /\ isSaving \in Nat
    /\ toEdit \in Seq(Cmd) /\ editFrames \in Seq(Pushed)
    /\ besides \in Seq([kind : {"page"}, whole : BOOLEAN, rows : [Messages -> ShownRow]])
    /\ acked \in [Messages -> Nat] /\ saves \in Nat /\ doubtful \in BOOLEAN

(* Frame f says that the text of message m is v.                           *)
Says(f, m, v) ==
    \/ f.kind \in {"edited", "ack"} /\ f.of.message = m /\ f.of.text = v
    \/ f.kind = "page" /\ f.rows[m].loaded /\ f.rows[m].text = v

(* An event about m waits behind the first i frames.                       *)
ToldAfter(i, m) ==
    \E k \in DOMAIN editFrames :
        k > i /\ editFrames[k].kind = "edited" /\ editFrames[k].of.message = m

(* A row with frame i, the list's with 0, is what is stored, or the event  *)
(* that makes it so waits behind it.                                       *)
RowRight(i, m, row) ==
    row.loaded =>
        /\ row.text = contents[m] \/ ToldAfter(i, m)
        /\ row.quote = Row(m).quote \/ (m = 2 /\ ToldAfter(i, 1))

(* What is said of a message, frame after frame, is never older.           *)
NeverOlder ==
    /\ \A m \in Messages : \A i, k \in DOMAIN editFrames : \A u, v \in Nat :
         i < k /\ Says(editFrames[i], m, u) /\ Says(editFrames[k], m, v) => u <= v
    /\ \A m \in Messages : \A k \in DOMAIN editFrames : \A v \in Nat :
         Says(editFrames[k], m, v) =>
             /\ acked[m] <= v /\ v <= contents[m]
             /\ rows[m].loaded => rows[m].text <= v
    /\ \A m \in Messages :
         /\ acked[m] <= contents[m]
         /\ rows[m].loaded => acked[m] <= rows[m].text /\ rows[m].text <= contents[m]

SavesInOrder ==
    /\ \A i \in DOMAIN toEdit :
         toEdit[i].text <= saves /\ \A m \in Messages : contents[m] <= toEdit[i].text
    /\ \A i, k \in DOMAIN toEdit : i < k => toEdit[i].text < toEdit[k].text
    /\ \A m \in Messages : contents[m] <= saves

(* The event comes right before the answer, or has come.                   *)
EventFirst ==
    \A k \in DOMAIN editFrames : editFrames[k].kind = "ack" =>
        LET e == editFrames[k].of IN
        /\ k > 1 => editFrames[k - 1] = EditedEvent(e)
        /\ k = 1 /\ rows[e.message].loaded => e.text <= rows[e.message].text

ListRight ==
    /\ \A m \in Messages : RowRight(0, m, rows[m])
    /\ \A i \in DOMAIN editFrames : editFrames[i].kind = "page" =>
         \A m \in Messages : RowRight(i, m, editFrames[i].rows[m])
    /\ \A i \in DOMAIN editFrames : editFrames[i].kind = "edited" =>
         LET e == editFrames[i].of IN
         e.text = contents[e.message] \/ ToldAfter(i, e.message)
    /\ \A i \in DOMAIN besides : \A m \in Messages :
         besides[i].rows[m].loaded => besides[i].rows[m] = Row(m)

EditInv ==
    /\ EditTypeOK
    /\ Len(besides) <= 1
    /\ ~doubtful => NeverOlder /\ SavesInOrder /\ EventFirst /\ ListRight

PageFrame == [kind : {"page"}, whole : BOOLEAN, rows : [Messages -> ShownRow]]

LEMMA PushedFacts ==
    ASSUME NEW f \in Pushed
    PROVE  /\ f.kind \in {"page", "edited", "ack", "refused"}
           /\ f.kind = "page" => f \in PageFrame
           /\ f.kind \in {"edited", "ack", "refused"} =>
                f.of \in Cmd /\ f.of.message \in Messages /\ f.of.text \in Nat
BY DEF Pushed, PageFrame, Cmd

LEMMA RowTyped ==
    ASSUME EditTypeOK, NEW m \in Messages
    PROVE  Row(m) \in ShownRow /\ Row(m).loaded
           /\ Row(m).text = contents[m] /\ Row(m).quote \in Nat
BY DEF EditTypeOK, Row, ShownRow, Messages

LEMMA PageTyped ==
    ASSUME EditTypeOK, NEW ms \in SUBSET Messages, NEW whole \in BOOLEAN
    PROVE  /\ Page(ms, whole) \in PageFrame /\ Page(ms, whole) \in Pushed
           /\ Page(ms, whole).kind = "page"
           /\ \A m \in Messages : Page(ms, whole).rows[m].loaded => Page(ms,
                whole).rows[m] = Row(m)
<1>1. Unloaded \in ShownRow /\ ~Unloaded.loaded
  BY DEF Unloaded, ShownRow
<1>2. PICK p : p = [m \in Messages |-> IF m \in ms THEN Row(m) ELSE Unloaded]
  OBVIOUS
<1>3. p \in [Messages -> ShownRow] /\ \A m \in Messages : p[m].loaded => p[m] = Row(m)
  BY <1>1, <1>2, RowTyped
<1>4. Page(ms, whole) = [kind |-> "page", whole |-> whole, rows |-> p]
  BY <1>2 DEF Page
<1> QED
  BY <1>3, <1>4 DEF PageFrame, Pushed

(* A frame goes behind the others.                                         *)
Pushes(f) ==
    /\ editFrames' = Append(editFrames, f) /\ f \in Pushed
    /\ UNCHANGED <<contents, rows, acked>>

Good == NeverOlder /\ SavesInOrder /\ EventFirst /\ ListRight

LEMMA PushFacts ==
    ASSUME EditTypeOK, NEW f, Pushes(f)
    PROVE  /\ editFrames' \in Seq(Pushed)
           /\ Len(editFrames') = Len(editFrames) + 1 /\ editFrames'[Len(editFrames) + 1] = f
           /\ \A i \in DOMAIN editFrames : i \in DOMAIN editFrames'
                /\ editFrames'[i] = editFrames[i]
           /\ \A i \in DOMAIN editFrames' : i \in DOMAIN editFrames
                \/ i = Len(editFrames) + 1
           /\ \A i, m : ToldAfter(i, m) => ToldAfter(i, m)'
<1>1. /\ editFrames' \in Seq(Pushed)
      /\ Len(editFrames') = Len(editFrames) + 1 /\ editFrames'[Len(editFrames) + 1] = f
      /\ \A i \in DOMAIN editFrames : i \in DOMAIN editFrames'
           /\ editFrames'[i] = editFrames[i]
      /\ \A i \in DOMAIN editFrames' : i \in DOMAIN editFrames \/ i = Len(editFrames) + 1
  BY DEF Pushes, EditTypeOK
<1>2. \A i, m : ToldAfter(i, m) => ToldAfter(i, m)'
  BY <1>1 DEF ToldAfter
<1> QED
  BY <1>1, <1>2

(* A page that shows what is stored, or a refusal, keeps everything right. *)
LEMMA PushKeeps ==
    ASSUME EditTypeOK, NeverOlder, EventFirst, ListRight, NEW f, Pushes(f),
           f.kind \in {"page", "refused"},
           f.kind = "page" => \A m \in Messages : f.rows[m].loaded => f.rows[m] = Row(m),
           \A i \in DOMAIN besides' : \A m \in Messages :
               besides'[i].rows[m].loaded => besides'[i].rows[m] = Row(m)
    PROVE  NeverOlder' /\ EventFirst' /\ ListRight'
<1> DEFINE n == Len(editFrames)
<1>t. /\ contents \in [Messages -> Nat] /\ n \in Nat /\ DOMAIN editFrames = 1..n
      /\ acked \in [Messages -> Nat]
  BY DEF EditTypeOK
<1>1. /\ Len(editFrames') = n + 1 /\ editFrames'[n + 1] = f
      /\ \A i \in DOMAIN editFrames : i \in DOMAIN editFrames'
           /\ editFrames'[i] = editFrames[i]
      /\ \A i \in DOMAIN editFrames' : i \in DOMAIN editFrames \/ i = n + 1
      /\ \A i, m : ToldAfter(i, m) => ToldAfter(i, m)'
  BY PushFacts
<1>2. contents' = contents /\ rows' = rows /\ acked' = acked /\ \A m : Row(m)' = Row(m)
  BY DEF Pushes, Row
<1>3. ASSUME NEW m \in Messages, NEW v \in Nat, Says(f, m, v) PROVE v = contents[m]
  BY <1>3, RowTyped DEF Says
<1>4. NeverOlder'
  <2>1. ASSUME NEW m \in Messages, NEW i \in DOMAIN editFrames',
                 NEW k \in DOMAIN editFrames',
               NEW u \in Nat, NEW v \in Nat, i < k,
               Says(editFrames'[i], m, u), Says(editFrames'[k], m, v)
        PROVE  u <= v
    <3>1. i \in DOMAIN editFrames /\ editFrames'[i] = editFrames[i]
      BY <2>1, <1>1, <1>t
    <3>2. CASE k \in DOMAIN editFrames
      BY <3>1, <3>2, <2>1, <1>1 DEF NeverOlder
    <3>3. CASE k = n + 1
      BY <3>1, <3>3, <2>1, <1>1, <1>3 DEF NeverOlder
    <3> QED
      BY <3>2, <3>3, <1>1
  <2>2. ASSUME NEW m \in Messages, NEW k \in DOMAIN editFrames', NEW v \in Nat,
               Says(editFrames'[k], m, v)
        PROVE  /\ acked'[m] <= v /\ v <= contents'[m]
               /\ rows'[m].loaded => rows'[m].text <= v
    <3>1. CASE k \in DOMAIN editFrames
      BY <3>1, <2>2, <1>1, <1>2 DEF NeverOlder
    <3>2. CASE k = n + 1
      BY <3>2, <2>2, <1>1, <1>2, <1>3, <1>t DEF NeverOlder
    <3> QED
      BY <3>1, <3>2, <1>1
  <2> QED
    BY <2>1, <2>2, <1>2 DEF NeverOlder
<1>5. EventFirst'
  <2> SUFFICES ASSUME NEW k \in DOMAIN editFrames', editFrames'[k].kind = "ack"
               PROVE  /\ k > 1 => editFrames'[k - 1] = EditedEvent(editFrames'[k].of)
                      /\ k = 1 /\ rows'[editFrames'[k].of.message].loaded
                           => editFrames'[k].of.text <= rows'[editFrames'[k].of.message].text
    BY DEF EventFirst, EditedEvent
  <2>1. k \in DOMAIN editFrames /\ editFrames'[k] = editFrames[k]
    BY <1>1
  <2>2. k > 1 => k - 1 \in DOMAIN editFrames
    BY <2>1, <1>t
  <2> QED
    BY <2>1, <2>2, <1>1, <1>2 DEF EventFirst
<1>6. ListRight'
  <2>2. ASSUME NEW m \in Messages PROVE RowRight(0, m, rows[m])'
    BY <1>1, <1>2 DEF ListRight, RowRight
  <2>3. ASSUME NEW i \in DOMAIN editFrames', editFrames'[i].kind = "page",
                 NEW m \in Messages
        PROVE  RowRight(i, m, editFrames[i].rows[m])'
    <3>1. CASE i \in DOMAIN editFrames
      <4>1. editFrames'[i] = editFrames[i] /\ RowRight(i, m, editFrames[i].rows[m])
        BY <3>1, <2>3, <1>1 DEF ListRight
      <4> QED
        BY <4>1, <1>1, <1>2 DEF RowRight
    <3>2. CASE i = n + 1
      BY <3>2, <2>3, <1>1, <1>2, RowTyped DEF RowRight
    <3> QED
      BY <3>1, <3>2, <1>1
  <2>4. ASSUME NEW i \in DOMAIN editFrames', editFrames'[i].kind = "edited"
        PROVE  (editFrames[i].of.text = contents[editFrames[i].of.message]
                 \/ ToldAfter(i, editFrames[i].of.message))'
    <3>1. i \in DOMAIN editFrames /\ editFrames'[i] = editFrames[i]
      BY <2>4, <1>1
    <3>2. PICK e : e = editFrames[i].of
      OBVIOUS
    <3>3. e.text = contents[e.message] \/ ToldAfter(i, e.message)
      BY <3>1, <3>2, <2>4 DEF ListRight
    <3>4. e.text = contents'[e.message] \/ ToldAfter(i, e.message)'
      BY <3>3, <1>1, <1>2
    <3> QED
      BY <3>1, <3>2, <3>4
  <2>5. \A i \in DOMAIN besides' : \A m \in Messages :
          besides'[i].rows[m].loaded => besides'[i].rows[m] = Row(m)'
    BY <1>2
  <2> QED
    BY <2>2, <2>3, <2>4, <2>5 DEF ListRight
<1> QED
  BY <1>4, <1>5, <1>6

(* An edit is told behind everything else.                                 *)
LEMMA TellKeeps ==
    ASSUME EditTypeOK, NeverOlder, SavesInOrder, EventFirst, ListRight,
           besides = <<>>, UNCHANGED <<rows, acked, besides, saves>>,
           toEdit # <<>>, toEdit' = Tail(toEdit), NEW e \in Cmd, e = Head(toEdit),
           contents' = [contents EXCEPT ![e.message] = e.text],
           editFrames' = editFrames \o <<EditedEvent(e), Acked(e)>>
    PROVE  NeverOlder' /\ SavesInOrder' /\ EventFirst' /\ ListRight'
<1> DEFINE n == Len(editFrames)
<1>t. /\ contents \in [Messages -> Nat] /\ n \in Nat /\ DOMAIN editFrames = 1..n
      /\ acked \in [Messages -> Nat] /\ e.message \in Messages /\ e.text \in Nat
      /\ editFrames \in Seq(Pushed) /\ toEdit \in Seq(Cmd)
  BY DEF EditTypeOK, Cmd
<1>a. PICK a, b : a = EditedEvent(e) /\ b = Acked(e)
  OBVIOUS
<1>b. /\ a.kind = "edited" /\ b.kind = "ack" /\ a.of = e /\ b.of = e
      /\ a \in Pushed /\ b \in Pushed
  BY <1>a DEF EditedEvent, Acked, Pushed
<1>1. /\ DOMAIN editFrames' = 1..n + 2 /\ editFrames'[n + 1] = a /\ editFrames'[n + 2] = b
      /\ \A i \in DOMAIN editFrames : i \in DOMAIN editFrames'
           /\ editFrames'[i] = editFrames[i]
  BY <1>t, <1>a, <1>b
<1>2. \A i \in DOMAIN editFrames' : i \in DOMAIN editFrames \/ i = n + 1 \/ i = n + 2
  BY <1>1, <1>t
<1>3. \A i, m : ToldAfter(i, m) => ToldAfter(i, m)'
  BY <1>1 DEF ToldAfter
<1>4. \A i \in 0..n : ToldAfter(i, e.message)'
  <2>1. /\ n + 1 \in DOMAIN editFrames' /\ \A i \in 0..n : n + 1 > i
        /\ editFrames'[n + 1].kind = "edited" /\ editFrames'[n + 1].of.message = e.message
    BY <1>1, <1>b, <1>t
  <2> QED
    BY <2>1 DEF ToldAfter
<1>5. /\ Len(toEdit) > 0 /\ e = toEdit[1] /\ 1 \in DOMAIN toEdit
      /\ \A i \in DOMAIN toEdit' : i + 1 \in DOMAIN toEdit /\ toEdit'[i] = toEdit[i + 1]
                                   /\ toEdit[i + 1].text \in Nat /\ i + 1 > 1
  <2>1. Len(toEdit) > 0 /\ e = toEdit[1] /\ 1 \in DOMAIN toEdit
    BY <1>t
  <2>2. ASSUME NEW i \in DOMAIN toEdit'
        PROVE  i + 1 \in DOMAIN toEdit /\ toEdit'[i] = toEdit[i + 1] /\ i + 1 > 1
    BY <2>1, <1>t
  <2>3. \A i \in DOMAIN toEdit : toEdit[i] \in Cmd
    BY <1>t
  <2> QED
    BY <2>1, <2>2, <2>3 DEF Cmd
<1>6. \A m \in Messages :
        /\ contents[m] <= contents'[m] /\ contents'[m] \in Nat /\ contents'[m] <= e.text
        /\ m # e.message => contents'[m] = contents[m]
  BY <1>5, <1>t DEF SavesInOrder
<1>7. contents'[e.message] = e.text
  BY <1>t
<1>8. ASSUME NEW m \in Messages, NEW k \in DOMAIN editFrames', NEW v \in Nat,
               Says(editFrames'[k], m, v)
      PROVE  v <= contents'[m] /\ (k \notin DOMAIN editFrames => v = contents'[m])
  <2>1. CASE k \in DOMAIN editFrames
    BY <2>1, <1>8, <1>1, <1>6, <1>t DEF NeverOlder
  <2>2. CASE k \notin DOMAIN editFrames
    <3>1. editFrames'[k].of = e /\ editFrames'[k].kind # "page"
      BY <2>2, <1>1, <1>2, <1>b
    <3>2. m = e.message /\ v = e.text
      BY <3>1, <1>8 DEF Says
    <3> QED
      BY <2>2, <3>2, <1>7, <1>t
  <2> QED
    BY <2>1, <2>2
<1>9. NeverOlder'
  <2>1. ASSUME NEW m \in Messages, NEW i \in DOMAIN editFrames',
                 NEW k \in DOMAIN editFrames',
               NEW u \in Nat, NEW v \in Nat, i < k,
               Says(editFrames'[i], m, u), Says(editFrames'[k], m, v)
        PROVE  u <= v
    <3>1. CASE k \in DOMAIN editFrames
      <4>1. i \in DOMAIN editFrames
        BY <3>1, <2>1, <1>1, <1>t
      <4> QED
        BY <4>1, <3>1, <2>1, <1>1 DEF NeverOlder
    <3>2. CASE k \notin DOMAIN editFrames
      BY <3>2, <2>1, <1>8
    <3> QED
      BY <3>1, <3>2
  <2>2. ASSUME NEW m \in Messages, NEW k \in DOMAIN editFrames', NEW v \in Nat,
               Says(editFrames'[k], m, v)
        PROVE  /\ acked'[m] <= v /\ v <= contents'[m]
               /\ rows'[m].loaded => rows'[m].text <= v
    <3>1. CASE k \in DOMAIN editFrames
      BY <3>1, <2>2, <1>1, <1>8 DEF NeverOlder
    <3>2. CASE k \notin DOMAIN editFrames
      <4>1. v = contents'[m]
        BY <3>2, <2>2, <1>8
      <4>2. acked[m] <= contents[m] /\ (rows[m].loaded => rows[m].text <= contents[m])
        BY DEF NeverOlder
      <4>3. rows[m].text \in Nat /\ acked[m] \in Nat /\ contents[m] \in Nat
        BY DEF EditTypeOK, ShownRow
      <4> QED
        BY <4>1, <4>2, <4>3, <1>6
    <3> QED
      BY <3>1, <3>2
  <2>3. ASSUME NEW m \in Messages
        PROVE  /\ acked'[m] <= contents'[m]
               /\ rows'[m].loaded => acked'[m] <= rows'[m].text
                    /\ rows'[m].text <= contents'[m]
    <3>2. /\ acked[m] <= contents[m]
          /\ rows[m].loaded => acked[m] <= rows[m].text /\ rows[m].text <= contents[m]
      BY DEF NeverOlder
    <3>3. rows[m].text \in Nat /\ acked[m] \in Nat /\ contents[m] \in Nat
      BY DEF EditTypeOK, ShownRow
    <3> QED
      BY <3>2, <3>3, <1>6
  <2>4. (\A m \in Messages : \A i, k \in DOMAIN editFrames : \A u, v \in Nat :
           i < k /\ Says(editFrames[i], m, u) /\ Says(editFrames[k], m, v) => u <= v)'
    BY ONLY <2>1
  <2>5. (\A m \in Messages : \A k \in DOMAIN editFrames : \A v \in Nat :
           Says(editFrames[k], m, v) =>
               /\ acked[m] <= v /\ v <= contents[m]
               /\ rows[m].loaded => rows[m].text <= v)'
    BY <2>2
  <2>6. (\A m \in Messages :
           /\ acked[m] <= contents[m]
           /\ rows[m].loaded => acked[m] <= rows[m].text /\ rows[m].text <= contents[m])'
    BY <2>3
  <2> QED
    BY <2>4, <2>5, <2>6 DEF NeverOlder
<1>10. SavesInOrder'
  <2>1. ASSUME NEW i \in DOMAIN toEdit'
        PROVE  toEdit'[i].text <= saves'
                 /\ \A m \in Messages : contents'[m] <= toEdit'[i].text
    <3>1. toEdit[1].text < toEdit[i + 1].text /\ toEdit[i + 1].text <= saves
      BY <1>5 DEF SavesInOrder
    <3> QED
      BY <3>1, <1>5, <1>6, <1>t
  <2>2. ASSUME NEW i \in DOMAIN toEdit', NEW k \in DOMAIN toEdit', i < k
        PROVE  toEdit'[i].text < toEdit'[k].text
    <3>1. i + 1 < k + 1
      BY <2>2, <1>5, <1>t
    <3> QED
      BY <3>1, <1>5 DEF SavesInOrder
  <2>3. \A m \in Messages : contents'[m] <= saves'
    BY <1>5, <1>6, <1>t DEF SavesInOrder, EditTypeOK
  <2> QED
    BY <2>1, <2>2, <2>3 DEF SavesInOrder
<1>11. EventFirst'
  <2> SUFFICES ASSUME NEW k \in DOMAIN editFrames', editFrames'[k].kind = "ack"
               PROVE  /\ k > 1 => editFrames'[k - 1] = EditedEvent(editFrames'[k].of)
                      /\ k = 1 /\ rows'[editFrames'[k].of.message].loaded
                           => editFrames'[k].of.text <= rows'[editFrames'[k].of.message].text
    BY DEF EventFirst, EditedEvent
  <2>1. CASE k \in DOMAIN editFrames
    <3>2. k > 1 => k - 1 \in DOMAIN editFrames
      BY <2>1, <1>t
    <3> QED
      BY <2>1, <3>2, <1>1 DEF EventFirst
  <2>2. CASE k = n + 2
    BY <2>2, <1>1, <1>a, <1>b, <1>t
  <2> QED
    BY <2>1, <2>2, <1>1, <1>2, <1>b
<1>12. ListRight'
  <2>1. ASSUME NEW i \in 0..n, NEW m \in Messages, NEW r, RowRight(i, m,
                 r) PROVE RowRight(i, m, r)'
    <3>1. CASE e.message = m
      <4>1. m = 1 => Row(m)'.quote = Row(m).quote
        BY DEF Row
      <4>2. m = 2 => Row(m)'.quote = Row(m).quote
        BY <3>1, <1>6 DEF Row, Messages
      <4> QED
        BY <4>1, <4>2, <3>1, <2>1, <1>3, <1>4 DEF RowRight, Messages
    <3>2. CASE e.message # m
      <4>1. m = 1 => Row(m)'.quote = Row(m).quote
        BY DEF Row
      <4>2. m = 2 => e.message = 1
        BY <3>2, <1>t DEF Messages
      <4>3. m = 2 => ToldAfter(i, 1)'
        BY <4>2, <1>4
      <4> QED
        BY <4>1, <4>3, <3>2, <2>1, <1>3, <1>6 DEF RowRight, Messages
    <3> QED
      BY <3>1, <3>2
  <2>2. ASSUME NEW m \in Messages PROVE RowRight(0, m, rows[m])'
    <3>1. PICK r : r = rows[m]
      OBVIOUS
    <3>2. RowRight(0, m, r)'
      BY <3>1, <2>1, <1>t DEF ListRight
    <3> QED
      BY <3>1, <3>2 DEF RowRight
  <2>3. ASSUME NEW i \in DOMAIN editFrames', editFrames'[i].kind = "page",
                 NEW m \in Messages
        PROVE  RowRight(i, m, editFrames[i].rows[m])'
    <3>1. i \in DOMAIN editFrames /\ editFrames'[i] = editFrames[i]
      BY <2>3, <1>1, <1>2, <1>b
    <3>0. i \in 0..n
      BY <3>1, <1>t
    <3>2. PICK r : r = editFrames[i].rows[m]
      OBVIOUS
    <3>3. RowRight(i, m, r)'
      BY <3>0, <3>1, <3>2, <2>1, <2>3 DEF ListRight
    <3> QED
      BY <3>1, <3>2, <3>3 DEF RowRight
  <2>4. ASSUME NEW i \in DOMAIN editFrames', editFrames'[i].kind = "edited"
        PROVE  (editFrames[i].of.text = contents[editFrames[i].of.message]
                 \/ ToldAfter(i, editFrames[i].of.message))'
    <3>1. CASE i \in DOMAIN editFrames
      <4>2. PICK d : d = editFrames[i].of
        OBVIOUS
      <4>3. d.text = contents[d.message] \/ ToldAfter(i, d.message)
        BY <3>1, <4>2, <2>4, <1>1 DEF ListRight
      <4>4. d.message \in Messages /\ i \in 0..n
        BY <3>1, <4>2, <2>4, <1>1, <1>t, PushedFacts
      <4>5. d.text = contents'[d.message] \/ ToldAfter(i, d.message)'
        BY <4>3, <4>4, <1>3, <1>4, <1>6
      <4> QED
        BY <3>1, <4>2, <4>5, <1>1
    <3>2. CASE i = n + 1
      BY <3>2, <1>1, <1>b, <1>7
    <3> QED
      BY <3>1, <3>2, <2>4, <1>1, <1>2, <1>b
  <2>5. DOMAIN besides' = {}
    OBVIOUS
  <2> QED
    BY <2>2, <2>3, <2>4, <2>5 DEF ListRight
<1> QED
  BY <1>9, <1>10, <1>11, <1>12

(* What the first frame h does to the list and the answers.                *)
Applies(h) ==
    /\ \A m \in Messages : rows'[m].loaded =>
         (rows[m].loaded /\ rows'[m].text = rows[m].text) \/ Says(h, m, rows'[m].text)
    /\ \A m \in Messages : acked'[m] # acked[m] =>
         /\ Says(h, m, acked'[m]) /\ rows' = rows
         /\ rows[m].loaded => acked'[m] <= rows[m].text
    /\ h.kind = "edited" => rows' = PatchRow(h.of)
    /\ h.kind = "page" => rows' = Place(h)
    /\ h.kind \in {"ack", "refused"} => rows' = rows

LEMMA ArriveKeeps ==
    ASSUME EditTypeOK, EditTypeOK', NeverOlder, EventFirst, ListRight,
           editFrames # <<>>, editFrames' = Tail(editFrames),
           NEW h, h = Head(editFrames), Applies(h),
           UNCHANGED <<contents, besides>>
    PROVE  NeverOlder' /\ EventFirst' /\ ListRight'
<1>t. /\ contents \in [Messages -> Nat] /\ editFrames \in Seq(Pushed)
      /\ acked \in [Messages -> Nat] /\ acked' \in [Messages -> Nat]
      /\ rows \in [Messages -> ShownRow] /\ rows' \in [Messages -> ShownRow]
  BY DEF EditTypeOK
<1>r. \A m \in Messages : rows[m].text \in Nat /\ rows'[m].text \in Nat
  BY <1>t DEF ShownRow
<1>1. 1 \in DOMAIN editFrames /\ h = editFrames[1] /\ h \in Pushed
  BY <1>t
<1>2. \A i \in DOMAIN editFrames' : /\ i + 1 \in DOMAIN editFrames /\ i \in Nat
        /\ i + 1 > 1 /\ i >= 1
                                    /\ editFrames'[i] = editFrames[i + 1]
  BY <1>t
<1>3. \A k \in DOMAIN editFrames : k > 1 => /\ k - 1 \in DOMAIN editFrames' /\ k \in Nat
                                            /\ editFrames'[k - 1] = editFrames[k]
  BY <1>t
<1>4. \A i \in Nat : \A m : ToldAfter(i + 1, m) => ToldAfter(i, m)'
  <2> SUFFICES ASSUME NEW i \in Nat, NEW m, ToldAfter(i + 1, m) PROVE ToldAfter(i, m)'
    OBVIOUS
  <2>1. PICK k \in DOMAIN editFrames :
          k > i + 1 /\ editFrames[k].kind = "edited" /\ editFrames[k].of.message = m
    BY DEF ToldAfter
  <2>2. k \in Nat /\ k > 1
    BY <2>1, <1>t
  <2>3. k - 1 > i /\ k - 1 \in DOMAIN editFrames' /\ editFrames'[k - 1] = editFrames[k]
    BY <2>1, <2>2, <1>3
  <2> QED
    BY <2>1, <2>3 DEF ToldAfter
<1>5. \A m : ToldAfter(0, m) => ToldAfter(0, m)' \/ (h.kind = "edited" /\ h.of.message = m)
  <2> SUFFICES ASSUME NEW m, ToldAfter(0, m), ~(h.kind = "edited" /\ h.of.message = m)
               PROVE  ToldAfter(0, m)'
    OBVIOUS
  <2>1. PICK k \in DOMAIN editFrames :
          k > 0 /\ editFrames[k].kind = "edited" /\ editFrames[k].of.message = m
    BY DEF ToldAfter
  <2>2. k > 1 /\ k \in Nat
    BY <2>1, <1>1, <1>t
  <2>3. k - 1 > 0 /\ k - 1 \in DOMAIN editFrames' /\ editFrames'[k - 1] = editFrames[k]
    BY <2>2, <1>3
  <2> QED
    BY <2>1, <2>3 DEF ToldAfter
<1>6. NeverOlder'
  <2>1. ASSUME NEW m \in Messages, NEW i \in DOMAIN editFrames',
                 NEW k \in DOMAIN editFrames',
               NEW u \in Nat, NEW v \in Nat, i < k,
               Says(editFrames'[i], m, u), Says(editFrames'[k], m, v)
        PROVE  u <= v
    <3>1. i + 1 < k + 1
      BY <2>1, <1>2
    <3> QED
      BY <3>1, <2>1, <1>2 DEF NeverOlder
  <2>2. ASSUME NEW m \in Messages, NEW k \in DOMAIN editFrames', NEW v \in Nat,
               Says(editFrames'[k], m, v)
        PROVE  /\ acked'[m] <= v /\ v <= contents'[m]
               /\ rows'[m].loaded => rows'[m].text <= v
    <3>1. \A u \in Nat : Says(h, m, u) => u <= v
      BY <2>2, <1>1, <1>2 DEF NeverOlder
    <3>2. /\ acked[m] <= v /\ v <= contents[m]
          /\ rows[m].loaded => rows[m].text <= v
      BY <2>2, <1>2 DEF NeverOlder
    <3>3. acked'[m] \in Nat /\ rows'[m].text \in Nat
      BY <1>t, <1>r
    <3> QED
      BY <3>1, <3>2, <3>3 DEF Applies
  <2>3. ASSUME NEW m \in Messages
        PROVE  /\ acked'[m] <= contents'[m]
               /\ rows'[m].loaded => acked'[m] <= rows'[m].text
                    /\ rows'[m].text <= contents'[m]
    <3>1. \A u \in Nat : Says(h, m, u) =>
            /\ acked[m] <= u /\ u <= contents[m] /\ (rows[m].loaded => rows[m].text <= u)
      BY <1>1 DEF NeverOlder
    <3>2. /\ acked[m] <= contents[m]
          /\ rows[m].loaded => acked[m] <= rows[m].text /\ rows[m].text <= contents[m]
      BY DEF NeverOlder
    <3>3. acked'[m] \in Nat /\ rows'[m].text \in Nat
      BY <1>t, <1>r
    <3> QED
      BY <3>1, <3>2, <3>3 DEF Applies
  <2> QED
    BY ONLY <2>1, <2>2, <2>3 DEF NeverOlder
<1>7. EventFirst'
  <2> SUFFICES ASSUME NEW k \in DOMAIN editFrames', editFrames'[k].kind = "ack"
               PROVE  /\ k > 1 => editFrames'[k - 1] = EditedEvent(editFrames'[k].of)
                      /\ k = 1 /\ rows'[editFrames'[k].of.message].loaded
                           => editFrames'[k].of.text <= rows'[editFrames'[k].of.message].text
    BY DEF EventFirst, EditedEvent
  <2>1. PICK e : e = editFrames'[k].of
    OBVIOUS
  <2>2. editFrames[k + 1].kind = "ack" /\ editFrames[k + 1].of = e
          /\ editFrames[k] = EditedEvent(e)
    BY <2>1, <1>2 DEF EventFirst
  <2>3. ASSUME k > 1 PROVE editFrames'[k - 1] = EditedEvent(e)
    BY <2>2, <2>3, <1>2, <1>3
  <2>4. ASSUME k = 1, rows'[e.message].loaded PROVE e.text <= rows'[e.message].text
    <3>1. h.kind = "edited" /\ h.of = e
      BY <2>2, <2>4, <1>1 DEF EditedEvent
    <3>2. e.message \in Messages /\ e.text \in Nat
      BY <3>1, <1>1, PushedFacts
    <3>3. rows'[e.message].text = e.text
      BY <3>1, <3>2, <2>4, <1>t DEF Applies, PatchRow, ShownRow
    <3> QED
      BY <3>2, <3>3
  <2> QED
    BY <2>1, <2>3, <2>4
<1>8. ListRight'
  <2>1. ASSUME NEW m \in Messages PROVE RowRight(0, m, rows[m])'
    <3> SUFFICES ASSUME rows'[m].loaded
                 PROVE  /\ rows'[m].text = contents[m] \/ ToldAfter(0, m)'
                        /\ rows'[m].quote = Row(m).quote \/ (m = 2 /\ ToldAfter(0, 1)')
      BY DEF RowRight, Row
    <3>0. RowRight(0, m, rows[m])
      BY DEF ListRight
    <3>k. h.kind \in {"page", "edited", "ack", "refused"}
      BY <1>1, PushedFacts
    <3>1. CASE h.kind = "edited"
      <4>1. PICK e : e = h.of
        OBVIOUS
      <4>2. e.message \in Messages /\ e.text \in Nat
        BY <4>1, <3>1, <1>1, PushedFacts
      <4>3. rows' = PatchRow(e)
        BY <4>1, <3>1 DEF Applies
      <4>4. e.text = contents[e.message] \/ ToldAfter(0, e.message)'
        BY <4>1, <3>1, <1>1, <1>4 DEF ListRight
      <4>5. CASE e.message = m
        <5>1. rows[m].loaded /\ rows'[m] = [rows[m] EXCEPT !.text = e.text]
          BY <4>2, <4>3, <4>5 DEF PatchRow
        <5>2. rows'[m].text = e.text /\ rows'[m].quote = rows[m].quote
          BY <5>1, <1>t DEF ShownRow
        <5>3. rows[m].quote = Row(m).quote \/ (m = 2 /\ ToldAfter(0, 1)')
          BY <5>1, <3>0, <4>1, <4>5, <1>5 DEF RowRight
        <5> QED
          BY <5>2, <5>3, <4>4, <4>5
      <4>6. CASE e.message # m /\ e.message = 1
        <5>1. rows[m].loaded /\ rows'[m] = [rows[m] EXCEPT !.quote = e.text] /\ m = 2
          BY <4>2, <4>3, <4>6 DEF PatchRow, Messages
        <5>2. rows'[m].text = rows[m].text /\ rows'[m].quote = e.text
          BY <5>1, <1>t DEF ShownRow
        <5>3. rows[m].text = contents[m] \/ ToldAfter(0, m)'
          BY <5>1, <3>0, <4>1, <4>6, <1>5 DEF RowRight
        <5>4. Row(2).quote = contents[1]
          BY DEF Row
        <5> QED
          BY <5>1, <5>2, <5>3, <5>4, <4>4, <4>6
      <4>7. CASE e.message # m /\ e.message # 1
        <5>1. rows'[m] = rows[m] /\ m = 1
          BY <4>2, <4>3, <4>7 DEF PatchRow, Messages
        <5> QED
          BY <5>1, <3>0, <4>1, <4>7, <1>5 DEF RowRight
      <4> QED
        BY <4>5, <4>6, <4>7
    <3>2. CASE h.kind = "page"
      <4>1. rows'[m] = rows[m] \/ rows'[m] = h.rows[m]
        BY <3>2 DEF Applies, Place
      <4>2. RowRight(1, m, h.rows[m])
        BY <3>2, <1>1 DEF ListRight
      <4> QED
        BY <4>1, <4>2, <3>0, <3>2, <1>4, <1>5 DEF RowRight
    <3>3. CASE h.kind \in {"ack", "refused"}
      BY <3>0, <3>3, <1>5 DEF Applies, RowRight
    <3> QED
      BY <3>k, <3>1, <3>2, <3>3
  <2>2. ASSUME NEW i \in DOMAIN editFrames', editFrames'[i].kind = "page",
                 NEW m \in Messages
        PROVE  RowRight(i, m, editFrames[i].rows[m])'
    <3>1. RowRight(i + 1, m, editFrames[i + 1].rows[m])
      BY <2>2, <1>2 DEF ListRight
    <3> QED
      BY <3>1, <1>2, <1>4 DEF RowRight, Row
  <2>3. ASSUME NEW i \in DOMAIN editFrames', editFrames'[i].kind = "edited"
        PROVE  (editFrames[i].of.text = contents[editFrames[i].of.message]
                 \/ ToldAfter(i, editFrames[i].of.message))'
    <3>1. PICK d : d = editFrames'[i].of
      OBVIOUS
    <3>2. d.text = contents[d.message] \/ ToldAfter(i + 1, d.message)
      BY <3>1, <2>3, <1>2 DEF ListRight
    <3>3. d.text = contents[d.message] \/ ToldAfter(i, d.message)'
      BY <3>2, <1>2, <1>4
    <3> QED
      BY <3>1, <3>3
  <2>4. (\A i \in DOMAIN besides : \A m \in Messages :
          besides[i].rows[m].loaded => besides[i].rows[m] = Row(m))'
    BY DEF ListRight, Row
  <2> QED
    BY <2>1, <2>2, <2>3, <2>4 DEF ListRight
<1> QED
  BY <1>6, <1>7, <1>8

LEMMA EditStays ==
    ASSUME NeverOlder, EventFirst, ListRight,
           UNCHANGED <<contents, rows, besides, editFrames, acked>>
    PROVE  NeverOlder' /\ EventFirst' /\ ListRight'
<1>1. NeverOlder'
  BY DEF NeverOlder, Says
<1>2. EventFirst'
  BY DEF EventFirst, EditedEvent
<1>3. ListRight'
  BY DEF ListRight, RowRight, ToldAfter, Row
<1> QED
  BY <1>1, <1>2, <1>3

LEMMA SavesStay ==
    ASSUME SavesInOrder, UNCHANGED <<contents, toEdit, saves>>
    PROVE  SavesInOrder'
BY DEF SavesInOrder

LEMMA EditTail ==
    ASSUME EditTypeOK, toEdit # <<>>, toEdit' = Tail(toEdit)
    PROVE  /\ toEdit' \in Seq(Cmd) /\ Head(toEdit) \in Cmd
           /\ SavesInOrder /\ UNCHANGED <<contents, saves>> => SavesInOrder'
<1>1. toEdit' \in Seq(Cmd) /\ Head(toEdit) \in Cmd
  BY DEF EditTypeOK
<1>2. \A i \in DOMAIN toEdit' : i + 1 \in DOMAIN toEdit /\ toEdit'[i] = toEdit[i + 1]
        /\ i \in Nat
  BY DEF EditTypeOK
<1>3. ASSUME SavesInOrder, UNCHANGED <<contents, saves>> PROVE SavesInOrder'
  <2>1. ASSUME NEW i \in DOMAIN toEdit', NEW k \in DOMAIN toEdit', i < k
        PROVE  toEdit'[i].text < toEdit'[k].text
    <3>1. i + 1 < k + 1
      BY <2>1, <1>2
    <3> QED
      BY <3>1, <1>2, <1>3 DEF SavesInOrder
  <2> QED
    BY <2>1, <1>2, <1>3 DEF SavesInOrder
<1> QED
  BY <1>1, <1>3

LEMMA SaveKeeps ==
    ASSUME EditInv, Save
    PROVE  EditInv'
<1>1. PICK c : c = [message |-> editingId, text |-> saves']
  OBVIOUS
<1>2. c \in Cmd /\ c.text = saves + 1 /\ saves \in Nat
  BY <1>1 DEF Save, EditInv, EditTypeOK, Cmd, Messages
<1>3. toEdit \in Seq(Cmd) /\ toEdit' = Append(toEdit, c)
  BY <1>1 DEF Save, EditInv, EditTypeOK
<1>4. EditTypeOK'
  BY <1>2, <1>3 DEF Save, EditInv, EditTypeOK
<1>5. ASSUME ~doubtful PROVE SavesInOrder'
  <2>1. SavesInOrder /\ saves' = saves + 1 /\ contents' = contents
    BY <1>5 DEF EditInv, Save
  <2>2. \A i \in DOMAIN toEdit' : \/ i \in DOMAIN toEdit /\ toEdit'[i] = toEdit[i]
                                  \/ i = Len(toEdit) + 1 /\ toEdit'[i] = c
    BY <1>3
  <2>3. \A i \in DOMAIN toEdit' : i \in Nat /\ \A k \in DOMAIN toEdit' : i < k
          => i \in DOMAIN toEdit
    BY <1>3
  <2>4. /\ \A i \in DOMAIN toEdit : toEdit[i].text \in Nat
        /\ \A m \in Messages : contents[m] \in Nat
    <3>1. \A i \in DOMAIN toEdit : toEdit[i] \in Cmd
      BY <1>3
    <3> QED
      BY <3>1 DEF EditInv, EditTypeOK, Cmd
  <2>5. ASSUME NEW i \in DOMAIN toEdit'
        PROVE  toEdit'[i].text <= saves'
                 /\ \A m \in Messages : contents'[m] <= toEdit'[i].text
    BY <2>1, <2>2, <2>4, <1>2 DEF SavesInOrder
  <2>6. ASSUME NEW i \in DOMAIN toEdit', NEW k \in DOMAIN toEdit', i < k
        PROVE  toEdit'[i].text < toEdit'[k].text
    <3>1. i \in DOMAIN toEdit /\ toEdit'[i] = toEdit[i]
      BY <2>6, <2>2, <2>3, <1>3
    <3>2. CASE k \in DOMAIN toEdit
      BY <3>1, <3>2, <2>6, <2>2, <2>1, <1>3 DEF SavesInOrder
    <3>3. CASE toEdit'[k] = c
      BY <3>1, <3>3, <2>1, <2>4, <1>2 DEF SavesInOrder
    <3> QED
      BY <3>2, <3>3, <2>2
  <2>7. \A m \in Messages : contents'[m] <= saves'
    BY <2>1, <2>4, <1>2 DEF SavesInOrder
  <2> QED
    BY <2>5, <2>6, <2>7 DEF SavesInOrder
<1>6. ASSUME ~doubtful PROVE NeverOlder' /\ EventFirst' /\ ListRight'
  BY <1>6, EditStays DEF EditInv, Save
<1> QED
  BY <1>4, <1>5, <1>6 DEF EditInv, Save

LEMMA HubKeeps ==
    ASSUME EditInv, RefuseEdit \/ EditMessage
    PROVE  EditInv'
<1> USE DEF EditInv
<1>1. CASE RefuseEdit
  <2>1. PICK fatal \in BOOLEAN : editFrames' =
          Append(editFrames, [kind |-> "refused", fatal |-> fatal, of |-> Head(toEdit)])
    BY <1>1 DEF RefuseEdit
  <2>2. PICK f : f = [kind |-> "refused", fatal |-> fatal, of |-> Head(toEdit)]
    OBVIOUS
  <2>3. toEdit' \in Seq(Cmd) /\ Head(toEdit) \in Cmd /\ (~doubtful => SavesInOrder')
    BY <1>1, EditTail DEF RefuseEdit
  <2>4. f \in Pushed /\ f.kind = "refused"
    BY <2>2, <2>3 DEF Pushed
  <2>5. Pushes(f)
    BY <1>1, <2>1, <2>2, <2>4 DEF RefuseEdit, Pushes
  <2>6. EditTypeOK'
    BY <1>1, <2>3, <2>5, PushFacts DEF RefuseEdit, EditTypeOK
  <2>7. ASSUME ~doubtful PROVE NeverOlder' /\ EventFirst' /\ ListRight'
    <3>1. \A i \in DOMAIN besides' : \A m \in Messages :
            besides'[i].rows[m].loaded => besides'[i].rows[m] = Row(m)
      BY <1>1, <2>7 DEF RefuseEdit, ListRight
    <3> QED
      BY <3>1, <2>4, <2>5, <2>7, PushKeeps
  <2> QED
    BY <1>1, <2>3, <2>6, <2>7 DEF RefuseEdit
<1>2. CASE EditMessage
  <2>1. PICK e : e = Head(toEdit)
    OBVIOUS
  <2>2. /\ toEdit # <<>> /\ toEdit' = Tail(toEdit) /\ toEdit' \in Seq(Cmd) /\ e \in Cmd
        /\ contents' = [contents EXCEPT ![e.message] = e.text]
        /\ UNCHANGED <<rows, editingId, isSaving, besides, acked, saves>>
    BY <1>2, <2>1, EditTail DEF EditMessage
  <2>3. EditedEvent(e) \in Pushed /\ Acked(e) \in Pushed
    BY <2>2 DEF EditedEvent, Acked, Pushed
  <2>4. contents' \in [Messages -> Nat]
    BY <2>2 DEF EditTypeOK, Cmd
  <2>5. CASE Tell(e) /\ doubtful' = (doubtful \/ besides # <<>>)
    <3>1. editFrames' = editFrames \o <<EditedEvent(e), Acked(e)>>
      BY <2>5 DEF Tell
    <3>2. editFrames' \in Seq(Pushed)
      BY <3>1, <2>3 DEF EditTypeOK
    <3>3. EditTypeOK'
      BY <2>2, <2>4, <2>5, <3>2 DEF EditTypeOK
    <3>4. ASSUME ~doubtful' PROVE NeverOlder' /\ SavesInOrder' /\ EventFirst' /\ ListRight'
      BY <3>1, <3>4, <2>1, <2>2, <2>5, TellKeeps
    <3> QED
      BY <2>2, <3>3, <3>4
  <2>6. CASE editFrames' = Append(editFrames, Acked(e)) /\ doubtful' = TRUE
    <3>1. editFrames' \in Seq(Pushed)
      BY <2>3, <2>6 DEF EditTypeOK
    <3> QED
      BY <2>2, <2>4, <2>6, <3>1 DEF EditTypeOK
  <2> QED
    BY <1>2, <2>1, <2>5, <2>6 DEF EditMessage
<1> QED
  BY <1>1, <1>2

LEMMA PagesKeep ==
    ASSUME EditInv, NEW ms \in SUBSET Messages, NEW whole \in BOOLEAN,
           GetPage(ms, whole) \/ ReadBesides(ms, whole) \/ PushBesides
    PROVE  EditInv'
<1> USE DEF EditInv
<1>1. PICK p : p = Page(ms, whole)
  OBVIOUS
<1>2. /\ p \in PageFrame /\ p \in Pushed /\ p.kind = "page"
      /\ \A m \in Messages : p.rows[m].loaded => p.rows[m] = Row(m)
  BY <1>1, PageTyped
<1>3. CASE GetPage(ms, whole)
  <2>1. Pushes(p) /\ UNCHANGED <<editingId, isSaving, toEdit, besides, saves, doubtful>>
    BY <1>1, <1>2, <1>3 DEF GetPage, Pushes
  <2>2. EditTypeOK'
    BY <2>1, PushFacts DEF EditTypeOK, Pushes
  <2>3. ASSUME ~doubtful PROVE NeverOlder' /\ EventFirst' /\ ListRight' /\ SavesInOrder'
    <3>1. \A i \in DOMAIN besides' : \A m \in Messages :
            besides'[i].rows[m].loaded => besides'[i].rows[m] = Row(m)
      BY <2>1, <2>3 DEF ListRight
    <3>2. SavesInOrder'
      BY <2>1, <2>3, SavesStay DEF Pushes
    <3> QED
      BY <3>1, <3>2, <2>1, <2>3, <1>2, PushKeeps
  <2> QED
    BY <2>1, <2>2, <2>3
<1>4. CASE ReadBesides(ms, whole)
  <2>1. /\ besides' = <<p>> /\ UNCHANGED <<contents, rows, editingId, isSaving, toEdit,
             editFrames, acked>>
        /\ UNCHANGED <<saves, doubtful>>
    BY <1>1, <1>4 DEF ReadBesides
  <2>2. EditTypeOK'
    BY <2>1, <1>2 DEF EditTypeOK, PageFrame
  <2>3. ASSUME ~doubtful PROVE NeverOlder' /\ EventFirst' /\ ListRight' /\ SavesInOrder'
    <3>1. /\ NeverOlder' /\ EventFirst'
      BY <2>1, <2>3 DEF NeverOlder, EventFirst, Says, EditedEvent
    <3>2. SavesInOrder'
      BY <2>1, <2>3, SavesStay
    <3>3. ListRight'
      BY <2>1, <2>3, <1>2 DEF ListRight, RowRight, ToldAfter, Row
    <3> QED
      BY <3>1, <3>2, <3>3
  <2> QED
    BY <2>1, <2>2, <2>3
<1>5. CASE PushBesides
  <2>1. PICK q : q = Head(besides)
    OBVIOUS
  <2>2. /\ besides # <<>> /\ besides' = <<>>
        /\ UNCHANGED <<contents, rows, editingId, isSaving, toEdit, acked, saves, doubtful>>
    BY <1>5 DEF PushBesides
  <2>a. besides \in Seq(PageFrame)
    BY DEF EditTypeOK, PageFrame
  <2>b. q \in PageFrame /\ 1 \in DOMAIN besides /\ q = besides[1]
    BY <2>1, <2>2, <2>a
  <2>c. q.kind = "page" /\ q \in Pushed
    BY <2>b DEF PageFrame, Pushed
  <2>3. Pushes(q)
    BY <1>5, <2>1, <2>2, <2>c DEF PushBesides, Pushes
  <2>4. EditTypeOK'
    BY <2>2, <2>3, PushFacts DEF EditTypeOK
  <2>5. ASSUME ~doubtful PROVE NeverOlder' /\ EventFirst' /\ ListRight' /\ SavesInOrder'
    <3>1. \A m \in Messages : q.rows[m].loaded => q.rows[m] = Row(m)
      BY <2>b, <2>5 DEF ListRight
    <3>2. SavesInOrder'
      BY <2>2, <2>5, SavesStay
    <3>3. DOMAIN besides' = {}
      BY <2>2
    <3> QED
      BY <3>1, <3>2, <3>3, <2>2, <2>c, <2>3, <2>5, PushKeeps
  <2> QED
    BY <2>2, <2>4, <2>5
<1> QED
  BY <1>3, <1>4, <1>5

LEMMA ArrivalKeeps ==
    ASSUME EditInv, Arrive
    PROVE  EditInv'
<1> USE DEF EditInv
<1>1. PICK h : h = Head(editFrames)
  OBVIOUS
<1>2. /\ editFrames # <<>> /\ editFrames' = Tail(editFrames) /\ editFrames' \in Seq(Pushed)
      /\ h \in Pushed /\ 1 \in DOMAIN editFrames /\ h = editFrames[1]
      /\ UNCHANGED <<contents, toEdit, besides, saves, doubtful>>
  BY <1>1 DEF Arrive, EditTypeOK
<1>k. /\ h.kind = "page" => h \in PageFrame
      /\ h.kind \in {"edited", "ack", "refused"} =>
           h.of \in Cmd /\ h.of.message \in Messages /\ h.of.text \in Nat
  BY <1>2, PushedFacts
<1>3. CASE h.kind = "edited" /\ rows' = PatchRow(h.of) /\ UNCHANGED <<editingId, isSaving,
        acked>>
  <2>1. ASSUME NEW m \in Messages
        PROVE  /\ PatchRow(h.of)[m] \in ShownRow
               /\ PatchRow(h.of)[m].loaded =>
                    \/ rows[m].loaded /\ PatchRow(h.of)[m].text = rows[m].text
                    \/ h.of.message = m /\ PatchRow(h.of)[m].text = h.of.text
    BY <1>3, <1>k DEF PatchRow, EditTypeOK, ShownRow
  <2>2. rows' \in [Messages -> ShownRow]
    <3>1. rows' = [m \in Messages |-> PatchRow(h.of)[m]]
      BY <1>3 DEF PatchRow
    <3> QED
      BY <3>1, <2>1
  <2>3. Applies(h)
    BY <1>3, <2>1 DEF Applies, Says
  <2>4. EditTypeOK'
    BY <1>2, <1>3, <2>2 DEF EditTypeOK
  <2> QED
    BY <1>1, <1>2, <2>3, <2>4, ArriveKeeps, SavesStay
<1>4. CASE /\ h.kind = "page" /\ rows' = Place(h) /\ UNCHANGED acked
           /\ editingId' = (IF editingId # 0
                /\ rows'[editingId].loaded THEN editingId ELSE 0)
           /\ isSaving' = (IF editingId' = 0 THEN 0 ELSE isSaving)
  <2>1. h.rows \in [Messages -> ShownRow]
    BY <1>4, <1>k DEF PageFrame
  <2>2. rows' \in [Messages -> ShownRow]
    BY <1>4, <2>1 DEF Place, EditTypeOK
  <2>3. \A m \in Messages : \/ rows[m].loaded /\ rows'[m] = rows[m]
                            \/ rows'[m] = h.rows[m]
    BY <1>4, <2>1 DEF Place
  <2>4. Applies(h)
    BY <1>4, <2>3 DEF Applies, Says
  <2>5. EditTypeOK'
    BY <1>2, <1>4, <2>2 DEF EditTypeOK
  <2> QED
    BY <1>1, <1>2, <2>4, <2>5, ArriveKeeps, SavesStay
<1>5. CASE /\ h.kind = "ack" /\ acked' = [acked EXCEPT ![h.of.message] = h.of.text]
           /\ editingId' = 0 /\ isSaving' = 0 /\ UNCHANGED rows
  <2>1. EditTypeOK'
    BY <1>2, <1>5, <1>k DEF EditTypeOK
  <2>2. ASSUME ~doubtful PROVE Applies(h)
    <3>1. rows[h.of.message].loaded => h.of.text <= rows[h.of.message].text
      BY <1>2, <1>5, <2>2 DEF EventFirst
    <3>2. \A m \in Messages : acked'[m] # acked[m] => m = h.of.message
            /\ acked'[m] = h.of.text
      BY <1>5 DEF EditTypeOK
    <3> QED
      BY <1>5, <3>1, <3>2 DEF Applies, Says
  <2> QED
    BY <1>1, <1>2, <2>1, <2>2, ArriveKeeps, SavesStay
<1>6. CASE h.kind = "refused" /\ UNCHANGED <<rows, acked>>
  <2>1. editingId' \in {editingId, 0} /\ isSaving' \in {isSaving, 0}
    BY <1>1, <1>6 DEF Arrive
  <2>2. EditTypeOK'
    BY <1>2, <1>6, <2>1 DEF EditTypeOK
  <2>3. Applies(h)
    BY <1>6 DEF Applies
  <2> QED
    BY <1>1, <1>2, <2>2, <2>3, ArriveKeeps, SavesStay
<1> QED
  BY <1>1, <1>3, <1>4, <1>5, <1>6 DEF Arrive

LEMMA EditLossKeeps ==
    ASSUME EditInv, LoseConnection
    PROVE  EditInv'
<1> USE DEF EditInv
<1>1. /\ toEdit' = <<>> /\ besides' = <<>> /\ editFrames' = <<>> /\ isSaving' = 0
      /\ UNCHANGED <<rows, editingId, acked, saves>>
  BY DEF LoseConnection
<1>2. contents' \in [Messages -> Nat]
  <2>1. CASE contents' = contents
    BY <2>1 DEF EditTypeOK
  <2>2. CASE /\ toEdit # <<>>
             /\ contents' = [contents EXCEPT ![Head(toEdit).message] = Head(toEdit).text]
    <3>1. Head(toEdit) \in Cmd
      BY <2>2 DEF EditTypeOK
    <3> QED
      BY <2>2, <3>1 DEF EditTypeOK, Cmd
  <2> QED
    BY <2>1, <2>2 DEF LoseConnection
<1>3. EditTypeOK'
  BY <1>1, <1>2 DEF LoseConnection, EditTypeOK
<1>4. ASSUME ~doubtful' PROVE NeverOlder' /\ SavesInOrder' /\ EventFirst' /\ ListRight'
  <2>1. /\ ~doubtful /\ contents' = contents
        /\ \A i \in DOMAIN editFrames : editFrames[i].kind # "edited"
    BY <1>4 DEF LoseConnection, EditTypeOK
  <2>2. /\ DOMAIN editFrames' = {} /\ DOMAIN besides' = {} /\ DOMAIN toEdit' = {}
    BY <1>1
  <2>3. \A m : ~ToldAfter(0, m)
    BY <2>1 DEF ToldAfter
  <2>4. NeverOlder' /\ SavesInOrder' /\ EventFirst'
    BY <1>1, <2>1, <2>2 DEF NeverOlder, SavesInOrder, EventFirst
  <2>5. ListRight'
    BY <1>1, <2>1, <2>2, <2>3 DEF ListRight, RowRight, Row
  <2> QED
    BY <2>4, <2>5
<1> QED
  BY <1>1, <1>3, <1>4

(* What is on its way about a message is never older than what came before *)
(* it, and the editor's answer comes right behind the event                *)
(* message_edited, through edits, pages, refusals and lost connections.    *)
THEOREM EditInvHolds == EditSpec => []EditInv
<1>1. EditInit => EditInv
  <2> SUFFICES ASSUME EditInit PROVE EditInv
    OBVIOUS
  <2>1. Unloaded \in ShownRow /\ ~Unloaded.loaded
    BY DEF Unloaded, ShownRow
  <2>2. /\ rows \in [Messages -> ShownRow] /\ \A m \in Messages : ~rows[m].loaded
        /\ contents \in [Messages -> Nat] /\ \A m \in Messages : contents[m] = 0
        /\ acked \in [Messages -> Nat] /\ \A m \in Messages : acked[m] = 0
    BY <2>1 DEF EditInit
  <2>3. /\ editFrames = <<>> /\ toEdit = <<>> /\ besides = <<>> /\ saves = 0
             /\ editingId = 0
        /\ isSaving = 0 /\ doubtful = FALSE
    BY DEF EditInit
  <2>4. DOMAIN editFrames = {} /\ DOMAIN toEdit = {} /\ DOMAIN besides = {}
          /\ Len(besides) = 0
    BY <2>3
  <2>a. /\ editFrames \in Seq(Pushed) /\ toEdit \in Seq(Cmd)
        /\ besides \in Seq([kind : {"page"}, whole : BOOLEAN,
             rows : [Messages -> ShownRow]])
    BY ONLY <2>3
  <2>b. isSaving \in Nat /\ saves \in Nat /\ editingId \in {0, 1, 2} /\ doubtful \in BOOLEAN
    BY ONLY <2>3
  <2>5. EditTypeOK
    BY ONLY <2>2, <2>a, <2>b DEF EditTypeOK
  <2>6. NeverOlder /\ SavesInOrder /\ EventFirst
    BY <2>2, <2>3, <2>4 DEF NeverOlder, SavesInOrder, EventFirst
  <2>7. ListRight
    BY <2>2, <2>4 DEF ListRight, RowRight
  <2> QED
    BY <2>4, <2>5, <2>6, <2>7 DEF EditInv
<1>2. EditInv /\ [EditNext]_editVars => EditInv'
  <2> SUFFICES ASSUME EditInv, [EditNext]_editVars PROVE EditInv'
    OBVIOUS
  <2>1. ASSUME NEW m \in Messages, StartEditing(m) \/ CloseEditor \/ UNCHANGED editVars
        PROVE  EditInv'
    <3>1. UNCHANGED <<contents, rows, toEdit, besides, editFrames, acked, saves, doubtful>>
      BY <2>1 DEF StartEditing, CloseEditor, editVars
    <3>2. EditTypeOK'
      BY <2>1, <3>1 DEF StartEditing, CloseEditor, editVars, EditInv, EditTypeOK, Messages
    <3> QED
      BY <3>1, <3>2, EditStays, SavesStay DEF EditInv
  <2> QED
    BY <2>1, SaveKeeps, HubKeeps, PagesKeep, ArrivalKeeps, EditLossKeeps DEF EditNext,
         Messages
<1> QED
  BY <1>1, <1>2, PTL DEF EditSpec

(* No row goes back behind an edit its author saw acknowledged, and with   *)
(* no frame on the way the rows and their quotes are what is stored.       *)
THEOREM EditsAreRight == EditSpec => []EditsAreShown
<1>1. EditInv => EditsAreShown
  <2> SUFFICES ASSUME EditInv, ~doubtful, NEW m \in Messages, rows[m].loaded
               PROVE  rows[m].text >= acked[m] /\ (editFrames = <<>> => rows[m] = Row(m))
    BY DEF EditsAreShown
  <2>1. acked[m] <= rows[m].text /\ rows[m].text \in Nat /\ acked[m] \in Nat
    BY DEF EditInv, NeverOlder, EditTypeOK, ShownRow
  <2>2. ASSUME editFrames = <<>> PROVE rows[m] = Row(m)
    <3>1. rows[m].text = contents[m] /\ rows[m].quote = Row(m).quote
      BY <2>2 DEF EditInv, ListRight, RowRight, ToldAfter
    <3>2. rows[m] \in ShownRow /\ Row(m) \in ShownRow /\ Row(m).loaded
            /\ Row(m).text = contents[m]
      BY RowTyped DEF EditInv, EditTypeOK
    <3>3. rows[m] = [text |-> rows[m].text, quote |-> rows[m].quote, loaded |-> TRUE]
      BY <3>2 DEF ShownRow
    <3>4. Row(m) = [text |-> Row(m).text, quote |-> Row(m).quote, loaded |-> TRUE]
      BY <3>2 DEF ShownRow
    <3> QED
      BY <3>1, <3>2, <3>3, <3>4
  <2> QED
    BY <2>1, <2>2
<1> QED
  BY <1>1, EditInvHolds, PTL

-----------------------------------------------------------------------------
(* The message box                                                         *)

ComposerSpec == ComposerInit /\ [][ComposerNext]_composerVars

Items == 1..MaxItems
Call == [no : Nat, box : Nat, text : 0..MaxItems, files : SUBSET Items, sent : SUBSET Items,
         channel : Channels, reply : Nat, phase : {"uploading", "sending"}]

BoxTypeOK ==
    /\ box \in 1..MaxMounts /\ written \in 0..MaxItems
    /\ text \in 0..written /\ files \subseteq 1..written
    /\ uploading \in BOOLEAN /\ chosenChannel \in Channels \union {VoiceSelected}
    /\ reply \in Nat /\ submits \subseteq Call
    /\ posted \in [Items -> Nat] /\ gone \subseteq Items /\ doubled \subseteq Items

(* Where a submit stands: its items were written in its box, and what it   *)
(* will not send, or gives up, is accounted for.                           *)
CallRight(s) ==
    /\ Content(s) \subseteq 1..written
    /\ s.phase = "uploading" =>
         /\ s.sent = {}
         /\ \A i \in Content(s) : i \in InBox \union gone \/ posted[i] > 0
    /\ s.phase = "sending" => s.sent \subseteq s.files /\ s.files \ s.sent \subseteq gone
    /\ Content(s) \intersect InBox # {} => s.box = box /\ Mounted

(* An item in two submits, or posted and still to be submitted, is one the *)
(* user submitted again.                                                   *)
DoubledRight ==
    /\ \A s, t \in submits : s # t => Content(s) \intersect Content(t) \subseteq doubled
    /\ \A i \in Items : posted[i] > 0 =>
         /\ i \in InBox => i \in doubled
         /\ \A s \in submits : i \in Content(s) => i \in doubled
    /\ \A i \in Items : posted[i] > 1 => i \in doubled
    /\ \A i \in Items : posted[i] > 0 => i <= written
    /\ ~Mounted => InBox = {}

Kept ==
    \A i \in 1..written : \/ i \in InBox \union gone
                          \/ posted[i] > 0
                          \/ \E s \in submits : i \in Content(s)

DraftInv == BoxTypeOK /\ (\A s \in submits : CallRight(s)) /\ DoubledRight /\ Kept

RecorderTypeOK ==
    /\ homes \in Seq(1..MaxMounts) /\ recording \in BOOLEAN /\ tangled \in BOOLEAN
    /\ streamRef \in [1..MaxMounts -> Nat] /\ recorderRef \in [1..MaxMounts -> Nat]
    /\ \A s \in starts : s.stream \in 1..Len(homes)

(* The four ways of a recording that has not been tangled with another.    *)
Idle == starts = {} /\ mics = {} /\ running = {} /\ stopping = {} /\ ~recording
Asked(r) == /\ starts = {[stream |-> r, phase |-> "asks"]}
            /\ mics = {} /\ running = {} /\ stopping = {} /\ ~recording
Holds(r) == streamRef[box] = r /\ recorderRef[box] = r /\ mics = {r}
Opened(r) == /\ starts = {[stream |-> r, phase |-> "resumes"]} /\ Holds(r)
             /\ running = {} /\ stopping = {} /\ ~recording
Runs(r) == starts = {} /\ Holds(r) /\ running = {r} /\ stopping = {} /\ recording
Ends(r) == starts = {} /\ Holds(r) /\ running = {} /\ stopping = {r} /\ ~recording

RecorderInv ==
    /\ RecorderTypeOK
    /\ \/ tangled \/ Idle
       \/ \E r \in 1..Len(homes) :
            Here(r) /\ (Asked(r) \/ Opened(r) \/ Runs(r) \/ Ends(r))

ComposerInv == DraftInv /\ RecorderInv

LEMMA ContentTyped ==
    ASSUME BoxTypeOK
    PROVE  /\ InBox \subseteq 1..written /\ 1..written \subseteq Items
           /\ \A s \in Call : Content(s) \subseteq Items
BY ComposerAssumption DEF BoxTypeOK, InBox, Content, Call, Items

(* Steps by which items come to the box or leave it, and none is sent.     *)
LEMMA QuietKeeps ==
    ASSUME DraftInv, BoxTypeOK', UNCHANGED <<submits, posted, doubled>>,
           gone \subseteq gone',
           written' = written \/ (written' = written + 1 /\ written' \in InBox'),
           \A i \in InBox : i \in InBox' \/ i \in gone',
           \A i \in InBox' : i \in InBox \/ i = written + 1,
           InBox' = {} \/ (Mounted' /\ box' = box)
    PROVE  DraftInv'
<1>t. /\ written \in Nat /\ written' \in Nat /\ written <= written'
      /\ InBox \subseteq 1..written /\ 1..written \subseteq 1..written'
  BY ContentTyped DEF DraftInv, BoxTypeOK
<1>1. ASSUME NEW s \in submits PROVE CallRight(s)'
  <2>1. CallRight(s)
    BY DEF DraftInv
  <2>2. Content(s) \subseteq 1..written'
    BY <2>1, <1>t DEF CallRight
  <2>3. s.phase = "uploading" => /\ s.sent = {}
                                 /\ \A i \in Content(s) : i \in (InBox \union gone)'
                                      \/ posted'[i] > 0
    BY <2>1 DEF CallRight
  <2>4. s.phase = "sending" => s.sent \subseteq s.files /\ s.files \ s.sent \subseteq gone'
    BY <2>1 DEF CallRight
  <2>5. ASSUME NEW i \in Content(s), i \in InBox' PROVE s.box = box' /\ Mounted'
    <3>1. i # written + 1
      BY <2>1, <1>t DEF CallRight
    <3>2. i \in InBox
      BY <3>1, <2>5
    <3> QED
      BY <3>2, <2>1, <2>5 DEF CallRight
  <2>6. Content(s)' = Content(s)
    BY DEF Content
  <2> QED
    BY <2>2, <2>3, <2>4, <2>5, <2>6 DEF CallRight
<1>2. DoubledRight'
  <2>1. \A s, t \in submits' : s # t => Content(s) \intersect Content(t) \subseteq doubled'
    BY DEF DraftInv, DoubledRight
  <2>2. ASSUME NEW i \in Items, posted'[i] > 0
        PROVE  /\ i \in InBox' => i \in doubled'
               /\ \A s \in submits' : i \in Content(s) => i \in doubled'
               /\ i <= written'
    <3>1. /\ i \in InBox => i \in doubled
          /\ \A s \in submits : i \in Content(s) => i \in doubled
          /\ i <= written
      BY <2>2 DEF DraftInv, DoubledRight
    <3>2. i # written + 1 /\ i <= written'
      BY <3>1, <1>t DEF Items
    <3> QED
      BY <3>1, <3>2
  <2>3. \A i \in Items : posted'[i] > 1 => i \in doubled'
    BY DEF DraftInv, DoubledRight
  <2>4. ~Mounted' => InBox' = {}
    OBVIOUS
  <2> QED
    BY ONLY <2>1, <2>2, <2>3, <2>4 DEF DoubledRight, Content
<1>3. Kept'
  <2> SUFFICES ASSUME NEW i \in 1..written'
               PROVE  \/ i \in (InBox \union gone)' \/ posted'[i] > 0
                      \/ \E s \in submits' : i \in Content(s)
    BY DEF Kept, Content
  <2>1. CASE i \in 1..written
    BY <2>1 DEF DraftInv, Kept
  <2>2. CASE i = written + 1
    BY <2>2, <1>t
  <2> QED
    BY <2>1, <2>2, <1>t
<1> QED
  BY <1>1, <1>2, <1>3 DEF DraftInv

LEMMA SubmitKeeps ==
    ASSUME DraftInv, Submit
    PROVE  DraftInv'
<1>1. PICK no \in 1..MaxBusy :
        submits' = submits \union {[no |-> no, box |-> box, text |-> text, files |-> files,
                                    sent |-> {}, channel |-> chosenChannel, reply |-> reply,
                                    phase |-> IF files # {} THEN "uploading" ELSE "sending"]}
  BY DEF Submit
<1>2. PICK s : s = [no |-> no, box |-> box, text |-> text, files |-> files,
                    sent |-> {}, channel |-> chosenChannel, reply |-> reply,
                    phase |-> IF files # {} THEN "uploading" ELSE "sending"]
  OBVIOUS
<1>3. /\ UNCHANGED <<box, text, files, chosenChannel, reply, written, posted, gone>>
      /\ submits' = submits \union {s} /\ uploading' = (files # {}) /\ Mounted
      /\ doubled' = doubled \union (InBox \intersect UNION {Content(t) : t \in submits})
  BY <1>1, <1>2 DEF Submit
<1>t. /\ InBox \subseteq 1..written /\ 1..written \subseteq Items
  BY ContentTyped DEF DraftInv
<1>4. /\ s.box = box /\ s.text = text /\ s.files = files /\ s.sent = {}
      /\ s.phase \in {"uploading", "sending"} /\ (s.phase = "sending" => s.files = {})
  BY <1>2
<1>5. Content(s) = InBox
  BY <1>4 DEF Content, InBox
<1>6. s \in Call
  <2>1. /\ box \in Nat /\ text \in 0..MaxItems /\ files \in SUBSET Items /\ reply \in Nat
        /\ chosenChannel \in Channels /\ no \in Nat
    BY <1>3, ComposerAssumption DEF DraftInv, BoxTypeOK, Items, Mounted, VoiceSelected
  <2> QED
    BY <2>1, <1>2 DEF Call
<1>7. BoxTypeOK'
  BY <1>3, <1>6, <1>t DEF DraftInv, BoxTypeOK
<1>8. InBox' = InBox /\ Mounted' = Mounted
  BY <1>3 DEF InBox, Mounted
<1>9. ASSUME NEW t \in submits' PROVE CallRight(t)'
  <2>1. CASE t \in submits
    <3>1. CallRight(t)
      BY <2>1 DEF DraftInv
    <3> QED
      BY <3>1, <1>3, <1>8 DEF CallRight, Content
  <2>2. CASE t = s
    <3>1. \A i \in Content(s) : i \in InBox' \union gone'
      BY <1>5, <1>8
    <3> QED
      BY <2>2, <3>1, <1>3, <1>4, <1>5, <1>8, <1>t DEF CallRight, Content
  <2> QED
    BY <2>1, <2>2, <1>3
<1>10. DoubledRight'
  <2>1. ASSUME NEW t \in submits', NEW u \in submits', t # u, NEW i \in Content(t),
                 i \in Content(u)
        PROVE  i \in doubled'
    <3>1. CASE t \in submits /\ u \in submits
      BY <2>1, <3>1, <1>3 DEF DraftInv, DoubledRight
    <3>2. CASE t = s
      BY <2>1, <3>2, <1>3, <1>5
    <3>3. CASE u = s
      BY <2>1, <3>3, <1>3, <1>5
    <3> QED
      BY <3>1, <3>2, <3>3, <1>3
  <2>2. ASSUME NEW i \in Items, posted'[i] > 0
        PROVE  /\ i \in InBox' => i \in doubled'
               /\ \A t \in submits' : i \in Content(t) => i \in doubled'
               /\ i <= written'
    BY <2>2, <1>3, <1>5, <1>8 DEF DraftInv, DoubledRight
  <2>3. \A i \in Items : posted'[i] > 1 => i \in doubled'
    BY <1>3 DEF DraftInv, DoubledRight
  <2>4. ~Mounted' => InBox' = {}
    BY <1>8 DEF DraftInv, DoubledRight
  <2>5. \A t, u \in submits' : t # u => Content(t) \intersect Content(u) \subseteq doubled'
    BY <2>1
  <2> QED
    BY ONLY <2>5, <2>2, <2>3, <2>4 DEF DoubledRight, Content
<1>11. Kept'
  BY <1>3, <1>8 DEF DraftInv, Kept, Content
<1> QED
  BY <1>7, <1>9, <1>10, <1>11 DEF DraftInv

LEMMA UploadKeeps ==
    ASSUME DraftInv, NEW s \in submits, NEW done \in SUBSET s.files, UploadEnds(s, done)
    PROVE  DraftInv'
<1>1. PICK r : r = [s EXCEPT !.sent = done, !.phase = "sending"]
  OBVIOUS
<1>2. /\ s.phase = "uploading" /\ uploading' = (uploading /\ s.box # box)
      /\ UNCHANGED <<box, chosenChannel, reply, written, posted, doubled, text, files>>
      /\ \/ done = {} /\ submits' = submits \ {s} /\ gone' = gone
         \/ submits' = (submits \ {s}) \union {r} /\ gone' = gone \union (s.files \ done)
  BY <1>1 DEF UploadEnds
<1>3. s \in Call /\ BoxTypeOK /\ CallRight(s)
  BY DEF DraftInv, BoxTypeOK
<1>4. /\ r.box = s.box /\ r.text = s.text /\ r.files = s.files /\ r.sent = done
      /\ r.phase = "sending" /\ r \in Call /\ s.files \subseteq Items
  BY <1>1, <1>3 DEF Call
<1>5. Content(r) = Content(s)
  BY <1>4 DEF Content
<1>6. BoxTypeOK'
  <2>1. uploading' \in BOOLEAN /\ gone' \subseteq Items /\ submits' \subseteq Call
    BY <1>2, <1>3, <1>4 DEF BoxTypeOK
  <2> QED
    BY <2>1, <1>2, <1>3 DEF BoxTypeOK
<1>7. InBox' = InBox /\ Mounted' = Mounted
  BY <1>2 DEF InBox, Mounted
<1>8. gone \subseteq gone'
  BY <1>2
<1>9. ASSUME NEW t \in submits' PROVE CallRight(t)'
  <2>1. CASE t \in submits
    <3>1. CallRight(t)
      BY <2>1 DEF DraftInv
    <3> QED
      BY <3>1, <1>2, <1>7, <1>8 DEF CallRight, Content
  <2>2. CASE t = r /\ gone' = gone \union (s.files \ done)
    BY <2>2, <1>2, <1>3, <1>4, <1>5, <1>7 DEF CallRight, Content
  <2> QED
    BY <2>1, <2>2, <1>2
<1>10. DoubledRight'
  <2>1. ASSUME NEW t \in submits', NEW u \in submits',
                 t # u PROVE Content(t) \intersect Content(u) \subseteq doubled'
    <3>1. CASE t \in submits /\ u \in submits
      BY <2>1, <3>1, <1>2 DEF DraftInv, DoubledRight
    <3>2. CASE t = r /\ u \in submits \ {s}
      BY <3>2, <1>2, <1>5 DEF DraftInv, DoubledRight
    <3>3. CASE u = r /\ t \in submits \ {s}
      BY <3>3, <1>2, <1>5 DEF DraftInv, DoubledRight
    <3> QED
      BY <3>1, <3>2, <3>3, <2>1, <1>2
  <2>2. ASSUME NEW i \in Items, posted'[i] > 0
        PROVE  /\ i \in InBox' => i \in doubled'
               /\ \A t \in submits' : i \in Content(t) => i \in doubled'
               /\ i <= written'
    BY <2>2, <1>2, <1>5, <1>7 DEF DraftInv, DoubledRight
  <2>3. \A i \in Items : posted'[i] > 1 => i \in doubled'
    BY <1>2 DEF DraftInv, DoubledRight
  <2>4. ~Mounted' => InBox' = {}
    BY <1>7 DEF DraftInv, DoubledRight
  <2> QED
    BY ONLY <2>1, <2>2, <2>3, <2>4 DEF DoubledRight, Content
<1>11. Kept'
  <2> SUFFICES ASSUME NEW i \in 1..written
               PROVE  \/ i \in InBox \union gone' \/ posted[i] > 0
                      \/ \E t \in submits' : i \in Content(t)
    BY <1>2, <1>7 DEF Kept, Content
  <2>1. CASE i \in Content(s)
    BY <2>1, <1>2, <1>3, <1>8 DEF CallRight
  <2>2. CASE i \notin Content(s)
    BY <2>2, <1>2, <1>8 DEF DraftInv, Kept
  <2> QED
    BY <2>1, <2>2
<1> QED
  BY <1>6, <1>9, <1>10, <1>11 DEF DraftInv

LEMMA SendKeeps ==
    ASSUME DraftInv, NEW s \in submits, NEW taken \in BOOLEAN, NEW told \in BOOLEAN,
           SendEnds(s, taken, told)
    PROVE  DraftInv'
<1>1. PICK items : items = s.sent \union ({s.text} \ {0})
  OBVIOUS
<1>2. PICK added : added = IF s.box = box /\ Mounted THEN InBox \ Content(s) ELSE {}
  OBVIOUS
<1>3. PICK lost : lost = IF taken THEN {} ELSE items
  OBVIOUS
<1>4. /\ s.phase = "sending" /\ gone' = gone \union added \union lost
      /\ posted' = [i \in DOMAIN posted |-> posted[i] + IF taken
           /\ i \in items THEN 1 ELSE 0]
      /\ reply' = (IF told THEN 0 ELSE reply) /\ submits' = submits \ {s}
      /\ IF s.box = box /\ Mounted THEN text' = 0 /\ files' = {} ELSE UNCHANGED <<text,
           files>>
      /\ UNCHANGED <<box, uploading, chosenChannel, written, doubled>>
  BY <1>1, <1>2, <1>3 DEF SendEnds, HandleSend
<1>5. s \in Call /\ BoxTypeOK /\ CallRight(s)
  BY DEF DraftInv, BoxTypeOK
<1>6. /\ items \subseteq Content(s) /\ Content(s) \subseteq 1..written
           /\ 1..written \subseteq Items
      /\ \A i \in Content(s) : i \in items \/ i \in gone
      /\ written \in Nat /\ InBox \subseteq 1..written
  BY <1>1, <1>4, <1>5, ContentTyped DEF CallRight, Content, BoxTypeOK
<1>7. \A i \in Items : /\ posted[i] \in Nat /\ posted'[i] \in Nat /\ posted[i] <= posted'[i]
                       /\ i \notin items => posted'[i] = posted[i]
                       /\ i \in items => posted'[i] <= posted[i] + 1
                       /\ i \in items /\ taken => posted'[i] > 0
  BY <1>4, <1>5 DEF BoxTypeOK
<1>8. BoxTypeOK'
  <2>1. gone' \subseteq Items /\ submits' \subseteq Call /\ reply' \in Nat
    BY <1>2, <1>3, <1>4, <1>5, <1>6 DEF BoxTypeOK
  <2>2. posted' \in [Items -> Nat]
    BY <1>4, <1>7, <1>5 DEF BoxTypeOK
  <2>3. text' \in 0..written /\ files' \subseteq 1..written
    <3>1. text \in 0..written /\ files \subseteq 1..written /\ 0 \in 0..written
      BY <1>5, <1>6 DEF BoxTypeOK
    <3> QED
      BY <3>1, <1>4
  <2> QED
    BY <2>1, <2>2, <2>3, <1>4, <1>5 DEF BoxTypeOK
<1>9. /\ s.box = box /\ Mounted => InBox' = {}
      /\ ~(s.box = box /\ Mounted) => InBox' = InBox /\ Content(s) \intersect InBox = {}
      /\ Mounted' = Mounted
  BY <1>4, <1>5 DEF InBox, Mounted, CallRight
<1>10. \A i \in Content(s) : i \in gone' \/ posted'[i] > 0
  BY <1>3, <1>4, <1>6, <1>7
<1>11. \A i \in InBox : i \in InBox' \union gone' \/ posted'[i] > 0
  BY <1>2, <1>4, <1>9, <1>10
<1>12. ASSUME NEW i \in Items, posted[i] > 0 PROVE posted'[i] > 0
  BY <1>7, <1>12
<1>13. gone \subseteq gone' /\ InBox' \subseteq InBox
  BY <1>4, <1>9
<1>14. ASSUME NEW t \in submits' PROVE CallRight(t)'
  <2>1. CallRight(t)
    BY <1>4 DEF DraftInv
  <2>2. Content(t) \subseteq Items
    BY <2>1, <1>6 DEF CallRight
  <2>3. t.phase = "uploading" => \A i \in Content(t) : i \in InBox' \union gone'
          \/ posted'[i] > 0
    BY <2>1, <2>2, <1>11, <1>12, <1>13 DEF CallRight
  <2>4. Content(t) \intersect InBox' # {} => t.box = box /\ Mounted
    BY <2>1, <1>13 DEF CallRight
  <2> QED
    BY <2>1, <2>3, <2>4, <1>4, <1>9, <1>13 DEF CallRight, Content
<1>15. DoubledRight'
  <2>1. \A t, u \in submits' : t # u => Content(t) \intersect Content(u) \subseteq doubled'
    BY <1>4 DEF DraftInv, DoubledRight
  <2>2. ASSUME NEW i \in Items, posted'[i] > 0
        PROVE  /\ i \in InBox' => i \in doubled'
               /\ \A t \in submits' : i \in Content(t) => i \in doubled'
               /\ i <= written'
    <3>1. CASE i \in items
      <4>1. i \in Content(s)
        BY <3>1, <1>6
      <4>2. i \notin InBox'
        BY <4>1, <1>9
      <4>3. \A t \in submits' : i \in Content(t) => i \in doubled
        BY <4>1, <1>4 DEF DraftInv, DoubledRight
      <4>4. i <= written
        BY <4>1, <1>6
      <4> QED
        BY <4>2, <4>3, <4>4, <1>4
    <3>2. CASE i \notin items
      <4>1. posted[i] > 0
        BY <3>2, <2>2, <1>7
      <4> QED
        BY <4>1, <1>4, <1>13 DEF DraftInv, DoubledRight
    <3> QED
      BY <3>1, <3>2
  <2>3. ASSUME NEW i \in Items, posted'[i] > 1 PROVE i \in doubled'
    <3>1. CASE i \in items
      <4>1. i \in Content(s) /\ posted[i] > 0
        BY <3>1, <2>3, <1>6, <1>7
      <4> QED
        BY <4>1, <1>4 DEF DraftInv, DoubledRight
    <3>2. CASE i \notin items
      BY <3>2, <2>3, <1>4, <1>7 DEF DraftInv, DoubledRight
    <3> QED
      BY <3>1, <3>2
  <2>4. ~Mounted' => InBox' = {}
    BY <1>9, <1>13 DEF DraftInv, DoubledRight
  <2> QED
    BY ONLY <2>1, <2>2, <2>3, <2>4 DEF DoubledRight, Content
<1>16. Kept'
  <2> SUFFICES ASSUME NEW i \in 1..written
               PROVE  \/ i \in InBox' \union gone' \/ posted'[i] > 0
                      \/ \E t \in submits' : i \in Content(t)
    BY <1>4 DEF Kept, Content
  <2>1. i \in Items
    BY <1>6
  <2>2. CASE i \in Content(s)
    BY <2>2, <1>10
  <2>3. CASE i \notin Content(s)
    BY <2>1, <2>3, <1>4, <1>11, <1>12, <1>13 DEF DraftInv, Kept
  <2> QED
    BY <2>2, <2>3
<1> QED
  BY <1>8, <1>14, <1>15, <1>16 DEF DraftInv

(* A recording goes through its five calls in order, or it is tangled.     *)
LEMMA RecorderKeeps ==
    ASSUME RecorderInv, BoxTypeOK,
           \/ SelectVoice \/ StartRecording \/ StopRecording
           \/ \E s \in starts : Granted(s) \/ Denied(s) \/ Begins(s) \/ BeginFails(s)
           \/ \E r \in 1..Len(homes) : Stopped(r)
    PROVE  RecorderInv'
<1>t. /\ homes \in Seq(1..MaxMounts) /\ recording \in BOOLEAN /\ tangled \in BOOLEAN
      /\ streamRef \in [1..MaxMounts -> Nat] /\ recorderRef \in [1..MaxMounts -> Nat]
      /\ \A s \in starts : s.stream \in 1..Len(homes)
      /\ box \in 1..MaxMounts
  BY DEF RecorderInv, RecorderTypeOK, BoxTypeOK
<1>0. ASSUME NEW r \in 1..Len(homes) PROVE homes[r] \in 1..MaxMounts /\ r \in Nat
  <2>1. PICK S : S = 1..MaxMounts
    OBVIOUS
  <2>2. homes \in Seq(S)
    BY <2>1, <1>t
  <2>3. Len(homes) \in Nat /\ homes[r] \in S
    BY ONLY <2>2, r \in 1..Len(homes)
  <2> QED
    BY <2>1, <2>3
<1>1. CASE SelectVoice
  <2>1. /\ UNCHANGED <<box, starts, homes, mics, streamRef, recorderRef, running, stopping>>
        /\ recording' = FALSE /\ tangled' = (tangled \/ mics # {} \/ starts # {})
    BY <1>1 DEF SelectVoice
  <2>2. RecorderTypeOK'
    BY <1>t, <2>1 DEF RecorderTypeOK
  <2>3. tangled' \/ Idle'
    BY <2>1 DEF RecorderInv, Idle, Asked, Opened, Runs, Ends, Holds
  <2> QED
    BY <2>2, <2>3 DEF RecorderInv
<1>2. CASE StartRecording
  <2>1. PICK r : r = Len(homes) + 1
    OBVIOUS
  <2>2. /\ Mounted /\ ~recording /\ homes' = Append(homes, box)
        /\ starts' = starts \union {[stream |-> r, phase |-> "asks"]}
        /\ tangled' = (tangled \/ starts # {} \/ stopping # {})
        /\ UNCHANGED <<mics, streamRef, recorderRef, running, stopping, recording>>
        /\ UNCHANGED <<box, chosenChannel>>
    BY <1>2, <2>1 DEF StartRecording, boxVars
  <2>3. /\ homes' \in Seq(1..MaxMounts) /\ Len(homes') = r /\ homes'[r] = box
        /\ r \in 1..Len(homes') /\ 1..Len(homes) \subseteq 1..Len(homes')
    BY <2>1, <2>2, <1>t
  <2>4. RecorderTypeOK'
    BY <2>2, <2>3, <1>t DEF RecorderTypeOK
  <2>5. ASSUME ~tangled' PROVE Here(r)' /\ Asked(r)'
    <3>1. ~tangled /\ starts = {} /\ stopping = {} /\ ~recording
      BY <2>2, <2>5
    <3>2. Idle
      BY <3>1 DEF RecorderInv, Asked, Opened, Runs, Ends
    <3> QED
      BY <2>2, <2>3, <3>1, <3>2 DEF Idle, Here, Mounted, Asked
  <2> QED
    BY <2>3, <2>4, <2>5 DEF RecorderInv
<1>3. CASE StopRecording
  <2>1. /\ recording /\ recording' = FALSE /\ running' = running \ {recorderRef[box]}
        /\ stopping' = stopping \union ({recorderRef[box]} \intersect running)
        /\ UNCHANGED <<starts, homes, mics, streamRef, recorderRef, tangled, box,
             chosenChannel>>
    BY <1>3 DEF StopRecording, boxVars
  <2>2. RecorderTypeOK'
    BY <1>t, <2>1 DEF RecorderTypeOK
  <2>3. ASSUME ~tangled PROVE \E r \in 1..Len(homes) : Here(r)' /\ Ends(r)'
    <3>1. PICK r \in 1..Len(homes) : Here(r) /\ Runs(r)
      BY <2>1, <2>3 DEF RecorderInv, Idle, Asked, Opened, Ends
    <3>2. Here(r)' /\ Ends(r)'
      BY <2>1, <3>1 DEF Here, Mounted, Runs, Ends, Holds
    <3> QED
      BY <3>2
  <2> QED
    BY <2>1, <2>2, <2>3 DEF RecorderInv
<1>4. ASSUME NEW s \in starts, Granted(s) PROVE RecorderInv'
  <2>1. PICK r : r = s.stream
    OBVIOUS
  <2>2. r \in 1..Len(homes) /\ r \in Nat /\ homes[r] \in 1..MaxMounts
    BY <2>1, <1>t, <1>0
  <2>3. /\ s.phase = "asks"
        /\ starts' = (starts \ {s}) \union {[s EXCEPT !.phase = "resumes"]}
        /\ mics' = mics \union {r}
        /\ streamRef' = [streamRef EXCEPT ![homes[r]] = r]
        /\ recorderRef' = [recorderRef EXCEPT ![homes[r]] = r]
        /\ UNCHANGED <<homes, running, stopping, recording, tangled, box, chosenChannel>>
    BY <1>4, <2>1 DEF Granted, boxVars
  <2>4. RecorderTypeOK'
    <3>1. [s EXCEPT !.phase = "resumes"].stream = r
      BY <2>1
    <3> QED
      BY <3>1, <2>2, <2>3, <1>t DEF RecorderTypeOK
  <2>5. ASSUME ~tangled PROVE Here(r)' /\ Opened(r)'
    <3>1. s = [stream |-> r, phase |-> "asks"] /\ Here(r) /\ Asked(r)
      BY <2>1, <2>3, <2>5, <1>4 DEF RecorderInv, Idle, Asked, Opened, Runs, Ends
    <3>2. [s EXCEPT !.phase = "resumes"] = [stream |-> r, phase |-> "resumes"]
      BY <3>1
    <3>3. starts' = {[stream |-> r, phase |-> "resumes"]}
      BY <3>1, <3>2, <2>3 DEF Asked
    <3>4. streamRef'[box] = r /\ recorderRef'[box] = r
      BY <3>1, <2>2, <2>3, <1>t DEF Here
    <3> QED
      BY <3>1, <3>3, <3>4, <2>3 DEF Here, Mounted, Asked, Opened, Holds
  <2> QED
    BY <2>2, <2>3, <2>4, <2>5 DEF RecorderInv
<1>5. ASSUME NEW s \in starts, Denied(s) PROVE RecorderInv'
  <2>1. /\ s.phase = "asks" /\ starts' = starts \ {s}
        /\ UNCHANGED <<homes, mics, streamRef, recorderRef, running, stopping, recording,
             tangled>>
    BY <1>5 DEF Denied
  <2>2. RecorderTypeOK'
    BY <1>t, <2>1 DEF RecorderTypeOK
  <2>3. ASSUME ~tangled PROVE Idle'
    BY <2>1, <2>3, <1>5 DEF RecorderInv, Idle, Asked, Opened, Runs, Ends
  <2> QED
    BY <2>1, <2>2, <2>3 DEF RecorderInv
<1>6. ASSUME NEW s \in starts, Begins(s) PROVE RecorderInv'
  <2>1. PICK r : r = s.stream
    OBVIOUS
  <2>2. /\ s.phase = "resumes" /\ starts' = starts \ {s} /\ running' = running \union {r}
        /\ recording' = (recording \/ Here(r))
        /\ UNCHANGED <<homes, mics, streamRef, recorderRef, stopping, tangled, box,
             chosenChannel>>
    BY <1>6, <2>1 DEF Begins, boxVars
  <2>3. recording' \in BOOLEAN
    BY <2>2
  <2>4. RecorderTypeOK'
    BY <1>t, <2>2, <2>3 DEF RecorderTypeOK
  <2>5. ASSUME ~tangled PROVE Here(r) /\ Opened(r) /\ r \in 1..Len(homes)
    BY <2>1, <2>2, <2>5, <1>6 DEF RecorderInv, Idle, Asked, Opened, Runs, Ends
  <2>6. ASSUME ~tangled PROVE Here(r)' /\ Runs(r)'
    <3>1. starts' = {} /\ running' = {r} /\ recording'
      BY <2>2, <2>5, <2>6, <1>6 DEF Opened
    <3> QED
      BY <3>1, <2>2, <2>5, <2>6 DEF Here, Mounted, Opened, Runs, Holds
  <2> QED
    BY <2>2, <2>4, <2>5, <2>6 DEF RecorderInv
<1>7. ASSUME NEW s \in starts, BeginFails(s) PROVE RecorderInv'
  BY <1>t, <1>7 DEF BeginFails, RecorderInv, RecorderTypeOK
<1>8. ASSUME NEW r \in 1..Len(homes), Stopped(r) PROVE RecorderInv'
  <2>1. /\ r \in stopping \union (running \ mics)
        /\ stopping' = stopping \ {r} /\ running' = running \ {r}
        /\ mics' = mics \ {streamRef[homes[r]]}
        /\ streamRef' = [streamRef EXCEPT ![homes[r]] = 0]
        /\ UNCHANGED <<starts, homes, recorderRef, recording, tangled>>
    BY <1>8 DEF Stopped
  <2>2. RecorderTypeOK'
    BY <1>t, <2>1 DEF RecorderTypeOK
  <2>3. ASSUME ~tangled PROVE Idle'
    <3>1. Here(r) /\ Ends(r)
      BY <2>1, <2>3 DEF RecorderInv, Idle, Asked, Opened, Runs, Ends, Holds
    <3> QED
      BY <3>1, <2>1 DEF Here, Ends, Holds, Idle
  <2> QED
    BY <2>1, <2>2, <2>3 DEF RecorderInv
<1> QED
  BY <1>1, <1>2, <1>3, <1>4, <1>5, <1>6, <1>7, <1>8

LEMMA RecorderStays ==
    ASSUME RecorderInv, UNCHANGED recorderVars, Mounted => UNCHANGED box, Mounted
             => Mounted'
    PROVE  RecorderInv'
<1>1. UNCHANGED <<starts, homes, mics, streamRef, recorderRef, running, stopping,
        recording, tangled>>
  BY DEF recorderVars
<1>2. ASSUME NEW r, Here(r)
      PROVE  /\ Here(r)' /\ (Asked(r) => Asked(r)') /\ (Opened(r) => Opened(r)')
             /\ Runs(r) => Runs(r)'
             /\ Ends(r) => Ends(r)'
  BY <1>1, <1>2 DEF Here, Asked, Opened, Runs, Ends, Holds
<1>3. RecorderTypeOK' /\ (Idle => Idle')
  BY <1>1 DEF RecorderInv, RecorderTypeOK, Idle
<1> QED
  BY <1>1, <1>2, <1>3 DEF RecorderInv

LEMMA BoxKeeps ==
    ASSUME DraftInv, RecorderInv, [ComposerNext]_composerVars
    PROVE  DraftInv'
<1>t. /\ BoxTypeOK /\ written \in 0..MaxItems /\ written \in Nat /\ text \in 0..written
      /\ files \subseteq 1..written /\ gone \subseteq Items
      /\ InBox \subseteq 1..written /\ 1..written \subseteq Items
      /\ ~Mounted => InBox = {}
  BY ContentTyped DEF DraftInv, BoxTypeOK, DoubledRight
<1>n. written < MaxItems =>
        /\ written + 1 \in 0..MaxItems /\ written + 1 \in 0..written + 1
        /\ written + 1 \in 1..written + 1
        /\ 0..written \subseteq 0..written + 1 /\ 1..written \subseteq 1..written + 1
  BY <1>t, ComposerAssumption
<1>z. 0 \in 0..written
  BY <1>t
<1>1. CASE Type
  <2>1. CASE text = 0
    <3>1. /\ written < MaxItems /\ written' = written + 1 /\ text' = written + 1 /\ Mounted
          /\ UNCHANGED <<box, files, uploading, chosenChannel, reply, submits, posted,
               gone, doubled>>
      BY <1>1, <2>1 DEF Type
    <3>2. BoxTypeOK'
      BY <3>1, <1>t, <1>n DEF BoxTypeOK
    <3>3. InBox' = InBox \union {written + 1} /\ Mounted'
      BY <2>1, <3>1, <1>t DEF InBox, Mounted
    <3> QED
      BY <3>1, <3>2, <3>3, QuietKeeps
  <2>2. CASE text # 0
    <3>1. /\ text' = 0 /\ gone' = gone \union {text} /\ Mounted
          /\ UNCHANGED <<box, files, uploading, chosenChannel, reply, submits, posted,
               written, doubled>>
      BY <1>1, <2>2 DEF Type
    <3>2. text \in Items /\ 0 \in 0..written
      BY <2>2, <1>t DEF InBox
    <3>3. BoxTypeOK'
      BY <3>1, <3>2, <1>t DEF BoxTypeOK
    <3>4. InBox' = files /\ InBox = files \union {text} /\ Mounted'
      BY <2>2, <3>1 DEF InBox, Mounted
    <3> QED
      BY <3>1, <3>3, <3>4, QuietKeeps
  <2> QED
    BY <2>1, <2>2
<1>2. CASE AddFile
  <2>1. /\ written < MaxItems /\ written' = written + 1
             /\ files' = files \union {written + 1} /\ Mounted
        /\ UNCHANGED <<box, text, uploading, chosenChannel, reply, submits, posted, gone,
             doubled>>
    BY <1>2 DEF AddFile
  <2>2. BoxTypeOK'
    BY <2>1, <1>t, <1>n DEF BoxTypeOK
  <2>3. InBox' = InBox \union {written + 1} /\ Mounted'
    BY <2>1, <1>t DEF InBox, Mounted
  <2> QED
    BY <2>1, <2>2, <2>3, QuietKeeps
<1>3. ASSUME NEW f \in files, RemovePendingFile(f) PROVE DraftInv'
  <2>1. /\ files' = files \ {f} /\ gone' = gone \union {f} /\ Mounted
        /\ UNCHANGED <<box, text, uploading, chosenChannel, reply, submits, written,
             posted, doubled>>
    BY <1>3 DEF RemovePendingFile
  <2>2. f \in Items
    BY <1>t
  <2>3. BoxTypeOK'
    BY <2>1, <2>2, <1>t DEF BoxTypeOK
  <2>4. (\A i \in InBox : i \in InBox' \/ i \in gone') /\ InBox' \subseteq InBox /\ Mounted'
    BY <2>1 DEF InBox, Mounted
  <2> QED
    BY <2>1, <2>3, <2>4, QuietKeeps
<1>4. CASE ChooseReply
  <2>1. /\ reply' \in {0, chosenChannel} /\ Mounted
        /\ UNCHANGED <<box, text, files, uploading, chosenChannel, submits, written,
             posted, gone, doubled>>
    BY <1>4 DEF ChooseReply
  <2>2. BoxTypeOK'
    BY <2>1, <1>t DEF BoxTypeOK, Channels, VoiceSelected
  <2>3. InBox' = InBox /\ Mounted'
    BY <2>1 DEF InBox, Mounted
  <2> QED
    BY <2>1, <2>2, <2>3, QuietKeeps
<1>5. ASSUME NEW c \in Channels, SelectText(c) PROVE DraftInv'
  <2>1. /\ chosenChannel' = c /\ (Mounted \/ box < MaxMounts)
        /\ box' = (IF Mounted THEN box ELSE box + 1)
        /\ UNCHANGED <<text, files, uploading, reply, submits, written, posted, gone,
             doubled>>
    BY <1>5 DEF SelectText
  <2>2. BoxTypeOK'
    BY <2>1, <1>t, ComposerAssumption DEF BoxTypeOK
  <2>3. InBox' = InBox /\ Mounted'
    BY <2>1 DEF InBox, Mounted, Channels, VoiceSelected
  <2>4. InBox = {} \/ box' = box
    BY <2>1, <1>t
  <2> QED
    BY <2>1, <2>2, <2>3, <2>4, QuietKeeps
<1>6. CASE SelectVoice
  <2>1. /\ chosenChannel' = VoiceSelected /\ gone' = gone \union InBox
        /\ text' = 0 /\ files' = {} /\ uploading' = FALSE
        /\ UNCHANGED <<box, reply, submits, written, posted, doubled>>
    BY <1>6 DEF SelectVoice
  <2>2. BoxTypeOK'
    BY <2>1, <1>t, <1>z DEF BoxTypeOK
  <2>3. InBox' = {}
    BY <2>1 DEF InBox
  <2> QED
    BY <2>1, <2>2, <2>3, QuietKeeps
<1>7. ASSUME NEW r \in 1..Len(homes), Stopped(r) PROVE DraftInv'
  <2>1. /\ UNCHANGED <<box, text, uploading, chosenChannel, reply, submits, posted, gone,
             doubled>>
        /\ IF Here(r) /\ written < MaxItems
           THEN written' = written + 1 /\ files' = files \union {written + 1}
           ELSE UNCHANGED <<written, files>>
    BY <1>7 DEF Stopped
  <2>2. CASE UNCHANGED <<written, files>>
    <3>1. BoxTypeOK'
      BY <2>1, <2>2, <1>t DEF BoxTypeOK
    <3>2. InBox' = InBox /\ (Mounted <=> Mounted')
      BY <2>1, <2>2 DEF InBox, Mounted
    <3> QED
      BY <2>1, <2>2, <3>1, <3>2, <1>t, QuietKeeps
  <2>3. CASE Mounted /\ written < MaxItems /\ written' = written + 1
          /\ files' = files \union {written + 1}
    <3>1. BoxTypeOK'
      BY <2>1, <2>3, <1>t, <1>n DEF BoxTypeOK
    <3>2. InBox' = InBox \union {written + 1} /\ Mounted'
      BY <2>1, <2>3, <1>t DEF InBox, Mounted
    <3> QED
      BY <2>1, <2>3, <3>1, <3>2, QuietKeeps
  <2> QED
    BY <2>1, <2>2, <2>3 DEF Here
<1>8. CASE UNCHANGED boxVars
  <2>1. UNCHANGED <<box, text, files, uploading, chosenChannel, reply, submits, written,
          posted, gone, doubled>>
    BY <1>8 DEF boxVars
  <2>2. BoxTypeOK'
    BY <2>1, <1>t DEF BoxTypeOK
  <2>3. InBox' = InBox /\ (Mounted <=> Mounted')
    BY <2>1 DEF InBox, Mounted
  <2> QED
    BY <2>1, <2>2, <2>3, <1>t, QuietKeeps
<1>9. \/ StartRecording \/ StopRecording \/ UNCHANGED composerVars
      \/ \E s \in starts : Granted(s) \/ Denied(s) \/ Begins(s) \/ BeginFails(s)
      => UNCHANGED boxVars
  BY DEF StartRecording, StopRecording, Granted, Denied, Begins, BeginFails, composerVars
<1> QED
  BY <1>1, <1>2, <1>3, <1>4, <1>5, <1>6, <1>7, <1>8, <1>9, SubmitKeeps, UploadKeeps,
       SendKeeps
     DEF ComposerNext

(* Items of the message box are accounted for through submits, failed      *)
(* uploads, changes of channel and unmounts, and a recording that met no   *)
(* other goes through getUserMedia, start, stop and onstop in order.       *)
THEOREM ComposerInvHolds == ComposerSpec => []ComposerInv
<1>1. ComposerInit => ComposerInv
  <2> SUFFICES ASSUME ComposerInit PROVE ComposerInv
    OBVIOUS
  <2>1. /\ box = 1 /\ text = 0 /\ files = {} /\ uploading = FALSE /\ chosenChannel = 1
             /\ reply = 0
        /\ submits = {} /\ written = 0 /\ posted = [i \in Items |-> 0] /\ gone = {}
             /\ doubled = {}
    BY DEF ComposerInit, Items
  <2>2. BoxTypeOK
    <3>1. 1 \in 1..MaxMounts /\ 0 \in 0..MaxItems /\ 0 \in 0..0
      BY ComposerAssumption
    <3>2. posted \in [Items -> Nat] /\ 1 \in Channels
      BY <2>1 DEF Channels
    <3> QED
      BY <2>1, <3>1, <3>2 DEF BoxTypeOK
  <2>3. DoubledRight /\ Kept /\ \A s \in submits : CallRight(s)
    BY <2>1 DEF DoubledRight, Kept, InBox
  <2>4. RecorderTypeOK /\ Idle
    <3>1. homes = <<>> /\ starts = {} /\ recording = FALSE /\ tangled = FALSE
      BY DEF ComposerInit
    <3>2. homes \in Seq(1..MaxMounts)
      BY ONLY <3>1
    <3>3. streamRef \in [1..MaxMounts -> Nat] /\ recorderRef \in [1..MaxMounts -> Nat]
      BY DEF ComposerInit
    <3>4. Idle
      BY DEF ComposerInit, Idle
    <3> QED
      BY ONLY <3>1, <3>2, <3>3, <3>4 DEF RecorderTypeOK
  <2> QED
    BY <2>2, <2>3, <2>4 DEF ComposerInv, DraftInv, RecorderInv
<1>2. ComposerInv /\ [ComposerNext]_composerVars => ComposerInv'
  <2> SUFFICES ASSUME ComposerInv, [ComposerNext]_composerVars PROVE ComposerInv'
    OBVIOUS
  <2>1. DraftInv /\ RecorderInv /\ BoxTypeOK
    BY DEF ComposerInv, DraftInv
  <2>2. DraftInv'
    BY <2>1, BoxKeeps
  <2>3. CASE \/ Type \/ AddFile \/ ChooseReply \/ Submit \/ UNCHANGED composerVars
             \/ \E f \in files : RemovePendingFile(f)
    <3>1. UNCHANGED <<recorderVars, box, chosenChannel>>
      BY <2>3 DEF Type, AddFile, ChooseReply, Submit, RemovePendingFile, composerVars,
           boxVars
    <3> QED
      BY <3>1, <2>1, <2>2, RecorderStays DEF Mounted, ComposerInv
  <2>4. ASSUME NEW s \in submits, NEW done, UploadEnds(s, done) PROVE RecorderInv'
    <3>1. UNCHANGED <<recorderVars, box, chosenChannel>>
      BY <2>4 DEF UploadEnds
    <3> QED
      BY <3>1, <2>1, RecorderStays DEF Mounted
  <2>5. ASSUME NEW s \in submits, NEW taken, NEW told, SendEnds(s, taken,
                 told) PROVE RecorderInv'
    <3>1. UNCHANGED <<recorderVars, box, chosenChannel>>
      BY <2>5 DEF SendEnds
    <3> QED
      BY <3>1, <2>1, RecorderStays DEF Mounted
  <2>6. ASSUME NEW c \in Channels, SelectText(c) PROVE RecorderInv'
    <3>1. UNCHANGED recorderVars /\ (Mounted => UNCHANGED box) /\ Mounted'
      BY <2>6 DEF SelectText, Mounted, Channels, VoiceSelected
    <3> QED
      BY <3>1, <2>1, RecorderStays
  <2> QED
    BY <2>1, <2>2, <2>3, <2>4, <2>5, <2>6, RecorderKeeps DEF ComposerNext, ComposerInv
<1> QED
  BY <1>1, <1>2, PTL DEF ComposerSpec

(* What was written is in the box, in a submit or posted, and posted twice *)
(* only if the user submitted it again while a send was under way.         *)
THEOREM DraftsArePosted == ComposerSpec => []DraftIsPosted
<1>1. ComposerInv => DraftIsPosted
  <2> SUFFICES ASSUME ComposerInv PROVE DraftIsPosted
    OBVIOUS
  <2>1. Kept /\ DoubledRight /\ 1..written \subseteq Items
    BY ContentTyped DEF ComposerInv, DraftInv
  <2> QED
    BY <2>1 DEF DraftIsPosted, Kept, DoubledRight
<1> QED
  BY <1>1, ComposerInvHolds, PTL

(* The microphone of the message box is held only while a recording        *)
(* starts, runs or ends, and the stop button reaches it.                   *)
THEOREM TheMicIsReleased == ComposerSpec => []MicReleased
<1>1. ComposerInv => MicReleased
  BY DEF ComposerInv, RecorderInv, MicReleased, Idle, Asked, Opened, Runs, Ends, Holds
<1> QED
  BY <1>1, ComposerInvHolds, PTL

-----------------------------------------------------------------------------
(* Unread counters and read marks.  The messages of a channel have the ids *)
(* 1, 2, ... and what is on its way keeps its order, so that of every      *)
(* frame it is known how many messages have come before it (Front).        *)

ReadSpec == ReadInit /\ [][ReadNext]_readVars

Request == [kind : {"unread"}] \union [kind : {"mark"}, of : TextChannels, id : Nat]
              \union [kind : {"history"}, of : TextChannels]
Frame == [kind : {"message", "page"}, of : TextChannels, id : Nat]
              \union [kind : {"counts"}, counts : [TextChannels -> Nat]]

ReadTypeOK ==
    /\ newest \in [TextChannels -> Nat] /\ lastRead \in [TextChannels -> Nat]
    /\ known \in [TextChannels -> Nat] /\ count \in [TextChannels -> Nat]
    /\ waiting \in [TextChannels -> Nat] /\ lastSent \in [TextChannels -> Nat]
    /\ missed \in [TextChannels -> BOOLEAN] /\ listed \in [TextChannels -> BOOLEAN]
    /\ recent \in [TextChannels -> BOOLEAN] /\ timer \in [TextChannels -> BOOLEAN]
    /\ lostMark \in [TextChannels -> BOOLEAN]
    /\ connected \in BOOLEAN /\ visible \in BOOLEAN /\ staleCount \in BOOLEAN
    /\ chosen \in TextChannels \union {0}
    /\ up \in Seq(Request) /\ down \in Seq(Frame)

(* The marks of a channel on their way, and the one that will be the last. *)
IsMark(i, c) == up[i].kind = "mark" /\ up[i].of = c
HasMark(c) == \E i \in DOMAIN up : IsMark(i, c)
Promised(c) == IF timer[c] THEN waiting[c] ELSE lastSent[c]

ThrottleRight(c) ==
    /\ waiting[c] # 0 <=> timer[c]
    /\ timer[c] => c = chosen /\ visible /\ waiting[c] > lastSent[c]
    /\ lastRead[c] <= lastSent[c] /\ Promised(c) <= known[c] /\ known[c] <= newest[c]
    /\ c = chosen /\ visible => known[c] = Promised(c)

MarksRight(c) ==
    /\ \A i \in DOMAIN up : IsMark(i, c) =>
         /\ up[i].id <= lastSent[c]
         /\ up[i].id = lastSent[c] \/ \E j \in DOMAIN up : j > i /\ IsMark(j, c)
    /\ ~lostMark[c] /\ ~HasMark(c) => lastRead[c] = lastSent[c]

(* Of the n messages of channel c the first f have been sent before frame i *)
(* of q.                                                                   *)
IsMessage(q, i, c) == q[i].kind = "message" /\ q[i].of = c
Front(q, n, c, i, f) ==
    /\ f <= n
    /\ \A j \in DOMAIN q : IsMessage(q, j, c) => q[j].id <= n /\ (j > i <=> q[j].id > f)
    /\ \A m \in Nat : f < m /\ m <= n => \E j \in DOMAIN q : IsMessage(q, j, c) /\ q[j].id = m

(* The messages and the pages of c in q, for a client that knows the first *)
(* k of the n.                                                             *)
Stream(q, n, c, k) ==
    /\ \A i \in DOMAIN q : IsMessage(q, i, c) => q[i].id > k
    /\ \A i, j \in DOMAIN q : IsMessage(q, i, c) /\ IsMessage(q, j, c) /\ i < j => q[i].id < q[j].id
    /\ \E f \in Nat : Front(q, n, c, 0, f)
    /\ \A i \in DOMAIN q : q[i].kind = "page" /\ q[i].of = c => Front(q, n, c, i, q[i].id)

FramesRight(c) == Stream(down, newest[c], c, known[c])

\* A list that missed nothing holds all that is not on its way.
HeldRight(c) ==
    ~missed[c] /\ (listed[c] \/ known[c] > 0) => Front(down, newest[c], c, 0, known[c])

\* No mark meets a fetch under way, unless the counters are stale then.
Counted(i, c) ==
    \E f \in Nat : Front(down, newest[c], c, i, f) /\ down[i].counts[c] + lastRead[c] = f
FetchRight ==
    Refreshing /\ ~staleCount =>
        /\ \A c \in TextChannels : ~timer[c] /\ ~HasMark(c)
        /\ \A i \in DOMAIN down : down[i].kind = "counts" => \A c \in TextChannels : Counted(i, c)

\* The badge counts what has been received and is not to be marked; it is
\* cleared before its time when a channel is opened whose list is not there.
Opening(c) == c = chosen /\ visible /\ ~listed[c]
Claimed(c) == ~lostMark[c] \/ timer[c] \/ HasMark(c)
BadgeRight(c) ==
    connected /\ ~Refreshing /\ ~staleCount =>
        \A f \in Nat : Front(down, newest[c], c, 0, f) =>
            IF Opening(c) THEN f = 0 => count[c] = 0
                          ELSE Claimed(c) => count[c] + Promised(c) = f

ReadInv ==
    /\ ReadTypeOK /\ FetchRight
    /\ ~connected => up = <<>> /\ down = <<>>
    /\ \A c \in TextChannels :
         /\ ThrottleRight(c) /\ MarksRight(c) /\ FramesRight(c)
         /\ HeldRight(c) /\ BadgeRight(c)

LEMMA FrameFacts ==
    ASSUME NEW e \in Frame
    PROVE  /\ e.kind \in {"message", "page", "counts"}
           /\ e.kind # "counts" => e.of \in TextChannels /\ e.id \in Nat
           /\ e.kind = "counts" => e.counts \in [TextChannels -> Nat]
  BY DEF Frame

(* There is one number of messages that have come before a frame.          *)
LEMMA FrontOne ==
    ASSUME NEW q \in Seq(Frame), NEW n \in Nat, NEW c, NEW f \in Nat, NEW g \in Nat,
           Front(q, n, c, 0, f), Front(q, n, c, 0, g)
    PROVE  f = g
<1>1. \A j \in DOMAIN q : j > 0
  OBVIOUS
<1>2. ASSUME NEW a \in Nat, NEW b \in Nat, a < b, Front(q, n, c, 0, a), Front(q, n, c, 0, b)
      PROVE  FALSE
  <2>1. b <= n
    BY <1>2 DEF Front
  <2>2. PICK j \in DOMAIN q : IsMessage(q, j, c) /\ q[j].id = b
    BY <1>2, <2>1 DEF Front
  <2> QED
    BY <1>1, <1>2, <2>2 DEF Front
<1> QED
  BY <1>2

(* It is at least what the client knows, if every message is new to it.    *)
LEMMA FrontKnown ==
    ASSUME NEW q \in Seq(Frame), NEW n \in Nat, NEW c, NEW i \in Nat, NEW f \in Nat,
           Front(q, n, c, i, f), NEW k \in Nat, k <= n,
           \A j \in DOMAIN q : IsMessage(q, j, c) => q[j].id > k
    PROVE  k <= f
<1> SUFFICES ASSUME f < k PROVE FALSE
  OBVIOUS
<1>1. PICK j \in DOMAIN q : IsMessage(q, j, c) /\ q[j].id = k
  BY DEF Front
<1> QED
  BY <1>1

LEMMA FrontEmpty ==
    ASSUME NEW n \in Nat, NEW c, NEW i
    PROVE  /\ Front(<<>>, n, c, i, n)
           /\ \A f \in Nat : Front(<<>>, n, c, i, f) => f = n
<1>1. \A j \in DOMAIN <<>> : FALSE
  OBVIOUS
<1>2. ASSUME NEW f \in Nat, Front(<<>>, n, c, i, f), f < n PROVE FALSE
  BY <1>1, <1>2 DEF Front
<1>3. \A m \in Nat : ~(n < m /\ m <= n)
  OBVIOUS
<1> QED
  BY <1>1, <1>2, <1>3 DEF Front

(* Frames are added.                                                       *)
LEMMA AppendFacts ==
    ASSUME NEW S, NEW q \in Seq(S), NEW e \in S, NEW r, r = Append(q, e)
    PROVE  /\ r \in Seq(S) /\ Len(q) \in Nat /\ Len(q) + 1 \in DOMAIN r /\ r[Len(q) + 1] = e
           /\ \A i \in DOMAIN q : /\ i \in DOMAIN r /\ r[i] = q[i]
                                  /\ i \in Nat /\ i > 0 /\ i < Len(q) + 1
           /\ \A i \in DOMAIN r : i \in DOMAIN q \/ i = Len(q) + 1
  OBVIOUS

LEMMA FrontMore ==
    ASSUME NEW q \in Seq(Frame), NEW n \in Nat, NEW c, NEW e \in Frame,
           ~(e.kind = "message" /\ e.of = c), NEW r, r = Append(q, e)
    PROVE  /\ \A i, f \in Nat : Front(q, n, c, i, f) => Front(r, n, c, i, f)
           /\ \A f \in Nat : Front(q, n, c, 0, f) => Front(r, n, c, Len(q) + 1, n)
<1>1. /\ Len(q) \in Nat
      /\ \A i \in DOMAIN q : i \in DOMAIN r /\ r[i] = q[i] /\ i \in Nat /\ i < Len(q) + 1
      /\ \A i \in DOMAIN r : i \in DOMAIN q \/ i = Len(q) + 1
      /\ r[Len(q) + 1] = e
  BY AppendFacts
<1>2. /\ \A i \in DOMAIN r : IsMessage(r, i, c) => i \in DOMAIN q /\ IsMessage(q, i, c) /\ r[i] = q[i]
      /\ \A i \in DOMAIN q : IsMessage(q, i, c) => i \in DOMAIN r /\ IsMessage(r, i, c) /\ r[i] = q[i]
  BY <1>1 DEF IsMessage
<1>3. ASSUME NEW i \in Nat, NEW f \in Nat, Front(q, n, c, i, f) PROVE Front(r, n, c, i, f)
  BY ONLY <1>2, <1>3 DEF Front
<1>4. ASSUME NEW f \in Nat, Front(q, n, c, 0, f) PROVE Front(r, n, c, Len(q) + 1, n)
  <2>1. \A j \in DOMAIN r : IsMessage(r, j, c) => r[j].id <= n
    BY <1>2, <1>4 DEF Front
  <2>2. \A j \in DOMAIN r : IsMessage(r, j, c) => ~(j > Len(q) + 1)
    BY <1>1, <1>2
  <2>3. \A j \in DOMAIN r : IsMessage(r, j, c) => r[j].id \in Nat
    <3>1. \A j \in DOMAIN q : q[j] \in Frame
      OBVIOUS
    <3> QED
      BY <3>1, <1>2, FrameFacts DEF IsMessage
  <2>4. \A m \in Nat : ~(n < m /\ m <= n)
    OBVIOUS
  <2> QED
    BY <2>1, <2>2, <2>3, <2>4 DEF Front
<1> QED
  BY <1>3, <1>4

LEMMA FrontSaved ==
    ASSUME NEW q \in Seq(Frame), NEW n \in Nat, NEW c, NEW e \in Frame,
           e.kind = "message", e.of = c, e.id = n + 1, NEW r, r = Append(q, e),
           NEW i \in Nat, i <= Len(q), NEW f \in Nat, Front(q, n, c, i, f)
    PROVE  Front(r, n + 1, c, i, f)
<1>1. /\ Len(q) \in Nat /\ Len(q) + 1 \in DOMAIN r
      /\ \A j \in DOMAIN q : j \in DOMAIN r /\ r[j] = q[j] /\ j \in Nat /\ j < Len(q) + 1
      /\ \A j \in DOMAIN r : j \in DOMAIN q \/ j = Len(q) + 1
      /\ r[Len(q) + 1] = e
  BY AppendFacts
<1>f. f <= n
  BY DEF Front
<1>2. ASSUME NEW j \in DOMAIN r, IsMessage(r, j, c)
      PROVE  r[j].id <= n + 1 /\ (j > i <=> r[j].id > f)
  <2>1. CASE j \in DOMAIN q
    <3>1. q[j] \in Frame /\ IsMessage(q, j, c) /\ r[j] = q[j]
      BY <2>1, <1>1, <1>2 DEF IsMessage
    <3>2. q[j].id \in Nat
      BY <3>1, FrameFacts DEF IsMessage
    <3>3. q[j].id <= n /\ (j > i <=> q[j].id > f)
      BY <2>1, <3>1 DEF Front
    <3> QED
      BY <3>1, <3>2, <3>3
  <2>2. CASE j = Len(q) + 1
    BY <2>2, <1>1, <1>f
  <2> QED
    BY <2>1, <2>2, <1>1
<1>3. ASSUME NEW m \in Nat, f < m, m <= n + 1
      PROVE  \E j \in DOMAIN r : IsMessage(r, j, c) /\ r[j].id = m
  <2>1. CASE m = n + 1
    BY <2>1, <1>1 DEF IsMessage
  <2>2. CASE m <= n
    <3>1. PICK j \in DOMAIN q : IsMessage(q, j, c) /\ q[j].id = m
      BY <2>2, <1>3 DEF Front
    <3> QED
      BY <3>1, <1>1 DEF IsMessage
  <2> QED
    BY <2>1, <2>2, <1>3
<1> QED
  BY <1>2, <1>3, <1>f DEF Front

(* The first frame is taken.                                               *)
LEMMA TakenFacts ==
    ASSUME NEW S, NEW q \in Seq(S), q # <<>>, NEW r, r = Tail(q)
    PROVE  /\ r \in Seq(S) /\ 1 \in DOMAIN q /\ Head(q) = q[1] /\ q[1] \in S
           /\ \A i \in DOMAIN r : i + 1 \in DOMAIN q /\ r[i] = q[i + 1] /\ i \in Nat /\ i > 0
           /\ \A i \in DOMAIN q : i # 1 => /\ i - 1 \in DOMAIN r /\ r[i - 1] = q[i]
                                           /\ i \in Nat /\ i > 1
  OBVIOUS

LEMMA FrontTaken ==
    ASSUME NEW q \in Seq(Frame), q # <<>>, NEW n \in Nat, NEW c, NEW r, r = Tail(q),
           NEW i \in Nat, NEW f \in Nat, Front(q, n, c, i + 1, f)
    PROVE  Front(r, n, c, i, f)
<1>1. /\ \A j \in DOMAIN r : j + 1 \in DOMAIN q /\ r[j] = q[j + 1] /\ j \in Nat
      /\ \A j \in DOMAIN q : j # 1 => j - 1 \in DOMAIN r /\ r[j - 1] = q[j] /\ j \in Nat
      /\ 1 \in DOMAIN q
  BY TakenFacts
<1>2. ASSUME NEW j \in DOMAIN r, IsMessage(r, j, c) PROVE r[j].id <= n /\ (j > i <=> r[j].id > f)
  <2>1. j + 1 \in DOMAIN q /\ r[j] = q[j + 1] /\ IsMessage(q, j + 1, c) /\ j \in Nat
    BY <1>1, <1>2 DEF IsMessage
  <2>2. q[j + 1].id <= n /\ (j + 1 > i + 1 <=> q[j + 1].id > f)
    BY <2>1 DEF Front
  <2> QED
    BY <2>1, <2>2
<1>3. ASSUME NEW m \in Nat, f < m, m <= n
      PROVE  \E j \in DOMAIN r : IsMessage(r, j, c) /\ r[j].id = m
  <2>1. PICK j \in DOMAIN q : IsMessage(q, j, c) /\ q[j].id = m
    BY <1>3 DEF Front
  <2>2. j # 1
    <3>1. j > i + 1
      BY <2>1, <1>3 DEF Front
    <3> QED
      BY <3>1
  <2>3. j - 1 \in DOMAIN r /\ r[j - 1] = q[j]
    BY <2>2, <1>1
  <2>4. IsMessage(r, j - 1, c) /\ r[j - 1].id = m
    BY <2>1, <2>3 DEF IsMessage
  <2> QED
    BY <2>3, <2>4
<1> QED
  BY <1>2, <1>3 DEF Front

LEMMA FrontSkipped ==
    ASSUME NEW q \in Seq(Frame), q # <<>>, NEW n \in Nat, NEW c, ~IsMessage(q, 1, c),
           NEW f \in Nat, Front(q, n, c, 0, f)
    PROVE  Front(q, n, c, 1, f)
<1>1. \A j \in DOMAIN q : IsMessage(q, j, c) => (j > 0 <=> j > 1)
  OBVIOUS
<1> QED
  BY <1>1 DEF Front

LEMMA FrontRead ==
    ASSUME NEW q \in Seq(Frame), q # <<>>, NEW n \in Nat, NEW c, IsMessage(q, 1, c),
           \A i, j \in DOMAIN q : IsMessage(q, i, c) /\ IsMessage(q, j, c) /\ i < j => q[i].id < q[j].id,
           NEW f \in Nat, Front(q, n, c, 0, f)
    PROVE  q[1].id = f + 1 /\ Front(q, n, c, 1, f + 1)
<1>1. 1 \in DOMAIN q /\ q[1] \in Frame /\ \A j \in DOMAIN q : j \in Nat /\ q[j] \in Frame /\ j > 0
  OBVIOUS
<1>2. \A j \in DOMAIN q : IsMessage(q, j, c) => q[j].id \in Nat
  BY <1>1, FrameFacts DEF IsMessage
<1>3. f < q[1].id /\ q[1].id <= n
  BY <1>1, <1>2 DEF Front
<1>4. q[1].id = f + 1
  <2>1. PICK j \in DOMAIN q : IsMessage(q, j, c) /\ q[j].id = f + 1
    BY <1>1, <1>2, <1>3 DEF Front
  <2>2. j = 1 \/ q[1].id < q[j].id
    BY <2>1, <1>1
  <2> QED
    BY <2>1, <2>2, <1>1, <1>2, <1>3
<1>5. ASSUME NEW j \in DOMAIN q, IsMessage(q, j, c) PROVE j > 1 <=> q[j].id > f + 1
  <2>1. j > 1 => q[j].id > q[1].id
    BY <1>1, <1>2, <1>5
  <2>2. ~(j > 1) => j = 1
    BY <1>1
  <2> QED
    BY <2>1, <2>2, <1>2, <1>4
<1>6. \A j \in DOMAIN q : IsMessage(q, j, c) => q[j].id <= n
  BY DEF Front
<1>7. \A m \in Nat : f + 1 < m /\ m <= n => \E j \in DOMAIN q : IsMessage(q, j, c) /\ q[j].id = m
  BY DEF Front
<1> QED
  BY <1>3, <1>4, <1>5, <1>6, <1>7 DEF Front

(* The same for all that is said of the messages and pages of a channel.   *)
LEMMA StreamMore ==
    ASSUME NEW q \in Seq(Frame), NEW n \in Nat, NEW c, NEW k \in Nat, Stream(q, n, c, k),
           NEW e \in Frame, ~(e.kind = "message" /\ e.of = c),
           e.kind = "page" /\ e.of = c => e.id = n, NEW r, r = Append(q, e)
    PROVE  Stream(r, n, c, k)
<1>1. /\ Len(q) \in Nat
      /\ \A i \in DOMAIN q : i \in DOMAIN r /\ r[i] = q[i] /\ i \in Nat /\ i < Len(q) + 1
      /\ \A i \in DOMAIN r : i \in DOMAIN q \/ i = Len(q) + 1
      /\ r[Len(q) + 1] = e
  BY AppendFacts
<1>2. \A i \in DOMAIN r : IsMessage(r, i, c) => i \in DOMAIN q /\ IsMessage(q, i, c) /\ r[i] = q[i]
  BY <1>1 DEF IsMessage
<1>3. PICK f \in Nat : Front(q, n, c, 0, f)
  BY DEF Stream
<1>4. Front(r, n, c, 0, f) /\ Front(r, n, c, Len(q) + 1, n)
  BY <1>3, FrontMore
<1>5. ASSUME NEW i \in DOMAIN r, r[i].kind = "page", r[i].of = c PROVE Front(r, n, c, i, r[i].id)
  <2>1. CASE i \in DOMAIN q
    <3>1. r[i] = q[i] /\ i \in Nat /\ q[i] \in Frame
      BY <2>1, <1>1
    <3>2. q[i].id \in Nat
      BY <3>1, <1>5, FrameFacts
    <3>3. Front(q, n, c, i, q[i].id)
      BY <2>1, <3>1, <1>5 DEF Stream
    <3> QED
      BY <3>1, <3>2, <3>3, FrontMore
  <2>2. CASE i = Len(q) + 1
    BY <2>2, <1>1, <1>4, <1>5
  <2> QED
    BY <2>1, <2>2, <1>1
<1>6. \A i \in DOMAIN r : IsMessage(r, i, c) => r[i].id > k
  BY <1>2 DEF Stream
<1>7. \A i, j \in DOMAIN r : IsMessage(r, i, c) /\ IsMessage(r, j, c) /\ i < j => r[i].id < r[j].id
  BY <1>2 DEF Stream
<1> QED
  BY <1>3, <1>4, <1>5, <1>6, <1>7 DEF Stream

LEMMA StreamSaved ==
    ASSUME NEW q \in Seq(Frame), NEW n \in Nat, NEW c, NEW k \in Nat, Stream(q, n, c, k), k <= n,
           NEW e \in Frame, e.kind = "message", e.of = c, e.id = n + 1, NEW r, r = Append(q, e)
    PROVE  Stream(r, n + 1, c, k)
<1>1. /\ Len(q) \in Nat
      /\ \A i \in DOMAIN q : i \in DOMAIN r /\ r[i] = q[i] /\ i \in Nat /\ i < Len(q) + 1 /\ q[i] \in Frame
      /\ \A i \in DOMAIN r : i \in DOMAIN q \/ i = Len(q) + 1
      /\ r[Len(q) + 1] = e
  BY AppendFacts
<1>2. \A i \in DOMAIN r : IsMessage(r, i, c) =>
        (i \in DOMAIN q /\ IsMessage(q, i, c) /\ r[i] = q[i]) \/ i = Len(q) + 1
  BY <1>1 DEF IsMessage
<1>3. PICK f \in Nat : Front(q, n, c, 0, f)
  BY DEF Stream
<1>4. Front(r, n + 1, c, 0, f)
  <2>1. 0 \in Nat /\ 0 <= Len(q)
    BY <1>1
  <2> QED
    BY <2>1, <1>3, FrontSaved
<1>5. ASSUME NEW i \in DOMAIN r, r[i].kind = "page", r[i].of = c
      PROVE Front(r, n + 1, c, i, r[i].id)
  <2>1. i \in DOMAIN q
    BY <1>1, <1>5
  <2>2. r[i] = q[i] /\ i \in Nat /\ i <= Len(q) /\ q[i] \in Frame
    BY <2>1, <1>1
  <2>3. q[i].id \in Nat
    BY <2>2, <1>5, FrameFacts
  <2>4. Front(q, n, c, i, q[i].id)
    BY <2>1, <2>2, <1>5 DEF Stream
  <2> QED
    BY <2>2, <2>3, <2>4, FrontSaved
<1>6. \A i \in DOMAIN r : IsMessage(r, i, c) => r[i].id > k
  BY <1>1, <1>2 DEF Stream
<1>7. ASSUME NEW i \in DOMAIN r, NEW j \in DOMAIN r, IsMessage(r, i, c), IsMessage(r, j, c), i < j
      PROVE  r[i].id < r[j].id
  <2>1. i \in DOMAIN q /\ IsMessage(q, i, c) /\ r[i] = q[i]
    BY <1>1, <1>2, <1>7
  <2>2. q[i].id <= n /\ q[i].id \in Nat
    BY <2>1, <1>1, <1>3, FrameFacts DEF Front, IsMessage
  <2>3. CASE j = Len(q) + 1
    BY <2>1, <2>2, <2>3, <1>1
  <2>4. CASE j \in DOMAIN q /\ IsMessage(q, j, c) /\ r[j] = q[j]
    BY <2>1, <2>4, <1>7 DEF Stream
  <2> QED
    BY <2>3, <2>4, <1>2, <1>7
<1> QED
  BY <1>4, <1>5, <1>6, <1>7 DEF Stream

\* What the first frame brings: g is how far the client is then.
Advances(q, r, h, n, c, k) ==
    /\ h \in Frame /\ r \in Seq(Frame)
    /\ IsMessage(q, 1, c) <=> h.kind = "message" /\ h.of = c
    /\ h.kind \in {"message", "page"} /\ h.of = c =>
         /\ h.id \in Nat /\ k <= h.id /\ h.id <= n
         /\ h.kind = "message" => k < h.id
         /\ Front(r, n, c, 0, h.id) /\ Stream(r, n, c, h.id)
    /\ h.kind = "page" /\ h.of = c => Front(q, n, c, 0, h.id)
    /\ h.kind = "message" /\ h.of = c => Front(q, n, c, 0, h.id - 1)
    /\ ~(h.kind = "message" /\ h.of = c) =>
         /\ Stream(r, n, c, k)
         /\ \A f \in Nat : Front(q, n, c, 0, f) => Front(r, n, c, 0, f)

LEMMA StreamTaken ==
    ASSUME NEW q \in Seq(Frame), q # <<>>, NEW n \in Nat, NEW c, NEW k \in Nat, k <= n,
           Stream(q, n, c, k), NEW r, r = Tail(q), NEW h, h = Head(q)
    PROVE  Advances(q, r, h, n, c, k)
<1>1. /\ r \in Seq(Frame) /\ 1 \in DOMAIN q /\ h = q[1] /\ h \in Frame
      /\ \A i \in DOMAIN r : i + 1 \in DOMAIN q /\ r[i] = q[i + 1] /\ i \in Nat /\ i + 1 > 1
  BY TakenFacts
<1>a. \A i \in DOMAIN r : r[i] \in Frame
  BY <1>1
<1>2. \A i \in DOMAIN r : IsMessage(r, i, c) => IsMessage(q, i + 1, c) /\ i + 1 \in DOMAIN q
  BY <1>1 DEF IsMessage
<1>3. PICK f \in Nat : Front(q, n, c, 0, f)
  BY DEF Stream
<1>4. \A i \in DOMAIN r : IsMessage(r, i, c) => r[i].id > k
  BY <1>1, <1>2 DEF Stream
<1>5. ASSUME NEW i \in DOMAIN r, NEW j \in DOMAIN r, IsMessage(r, i, c), IsMessage(r, j, c), i < j
      PROVE  r[i].id < r[j].id
  <2>1. i + 1 < j + 1 /\ r[i] = q[i + 1] /\ r[j] = q[j + 1]
    BY <1>1, <1>5
  <2> QED
    BY <2>1, <1>2, <1>5 DEF Stream
<1>6. ASSUME NEW i \in DOMAIN r, r[i].kind = "page", r[i].of = c PROVE Front(r, n, c, i, r[i].id)
  <2>1. r[i] = q[i + 1] /\ i \in Nat /\ i + 1 \in DOMAIN q /\ r[i] \in Frame
    BY <1>1, <1>a
  <2>2. Front(q, n, c, i + 1, r[i].id)
    BY <2>1, <1>6 DEF Stream
  <2>3. r[i].id \in Nat
    BY <2>1, <1>6, FrameFacts
  <2> QED
    BY <2>1, <2>2, <2>3, FrontTaken
<1>7. IsMessage(q, 1, c) <=> h.kind = "message" /\ h.of = c
  BY <1>1 DEF IsMessage
<1>8. ASSUME ~(h.kind = "message" /\ h.of = c), NEW g \in Nat, Front(q, n, c, 0, g)
      PROVE  Front(r, n, c, 0, g)
  <2>1. Front(q, n, c, 1, g)
    BY <1>7, <1>8, FrontSkipped
  <2>2. 0 \in Nat /\ 1 = 0 + 1
    OBVIOUS
  <2> QED
    BY <2>1, <2>2, FrontTaken
<1>9. ~(h.kind = "message" /\ h.of = c) => Stream(r, n, c, k)
  <2>1. ~(h.kind = "message" /\ h.of = c) => Front(r, n, c, 0, f)
    BY <1>3, <1>8
  <2> QED
    BY <2>1, <1>4, <1>5, <1>6 DEF Stream
<1>10. ASSUME h.kind = "page", h.of = c
       PROVE  /\ h.id \in Nat /\ k <= h.id /\ h.id <= n /\ Front(q, n, c, 0, h.id)
              /\ Front(r, n, c, 0, h.id) /\ Stream(r, n, c, h.id)
  <2>1. h.id \in Nat
    BY <1>1, <1>10, FrameFacts
  <2>2. Front(q, n, c, 1, h.id)
    BY <1>1, <1>10 DEF Stream
  <2>3. k <= h.id /\ h.id <= n
    <3>1. \A j \in DOMAIN q : IsMessage(q, j, c) => q[j].id > k
      BY DEF Stream
    <3>2. k <= h.id
      BY <2>1, <2>2, <3>1, FrontKnown
    <3> QED
      BY <2>2, <3>2 DEF Front
  <2>4. Front(r, n, c, 0, h.id)
    <3>1. 0 \in Nat /\ 1 = 0 + 1
      OBVIOUS
    <3> QED
      BY <2>1, <2>2, <3>1, FrontTaken
  <2>5. Front(q, n, c, 0, h.id)
    <3>1. \A j \in DOMAIN q : IsMessage(q, j, c) => (j > 0 <=> j > 1)
      <4>1. ~IsMessage(q, 1, c) /\ \A j \in DOMAIN q : j \in Nat /\ j > 0
        BY <1>7, <1>10
      <4> QED
        BY <4>1
    <3> QED
      BY <2>2, <3>1 DEF Front
  <2>6. \A i \in DOMAIN r : IsMessage(r, i, c) => r[i].id > h.id
    BY <2>4, <1>1 DEF Front
  <2> QED
    BY <2>1, <2>3, <2>4, <2>5, <2>6, <1>5, <1>6 DEF Stream
<1>11. ASSUME h.kind = "message", h.of = c
       PROVE  /\ h.id \in Nat /\ k < h.id /\ h.id <= n /\ Front(q, n, c, 0, h.id - 1)
              /\ Front(r, n, c, 0, h.id) /\ Stream(r, n, c, h.id)
  <2>0. \A i, j \in DOMAIN q : IsMessage(q, i, c) /\ IsMessage(q, j, c) /\ i < j => q[i].id < q[j].id
    BY DEF Stream
  <2>1. q[1].id = f + 1 /\ Front(q, n, c, 1, f + 1)
    BY <2>0, <1>3, <1>7, <1>11, FrontRead
  <2>2. h.id = f + 1 /\ k < h.id /\ IsMessage(q, 1, c)
    BY <2>1, <1>1, <1>7, <1>11 DEF Stream
  <2>3. Front(r, n, c, 0, f + 1)
    <3>1. 0 \in Nat /\ 1 = 0 + 1 /\ f + 1 \in Nat
      OBVIOUS
    <3> QED
      BY <2>1, <3>1, FrontTaken
  <2>4. f + 1 <= n
    BY <2>1 DEF Front
  <2>5. Front(q, n, c, 0, h.id - 1)
    <3>1. h.id - 1 = f
      BY <2>2
    <3> QED
      BY <3>1, <1>3
  <2>6. \A i \in DOMAIN r : IsMessage(r, i, c) => r[i].id > f + 1
    BY <2>3, <1>1 DEF Front
  <2>7. Stream(r, n, c, f + 1)
    <3>1. f + 1 \in Nat
      OBVIOUS
    <3> QED
      BY <3>1, <2>3, <2>6, <1>5, <1>6 DEF Stream
  <2> QED
    BY <2>2, <2>3, <2>4, <2>5, <2>7
<1> QED
  BY <1>1, <1>7, <1>8, <1>9, <1>10, <1>11 DEF Advances

-----------------------------------------------------------------------------
(* Marks on their way *)

LEMMA RequestFacts ==
    /\ \A e \in Request : e.kind \in {"unread", "mark", "history"}
    /\ \A e \in Request : e.kind = "mark" => e.of \in TextChannels /\ e.id \in Nat
    /\ \A e \in Request : e.kind = "history" => e.of \in TextChannels
    /\ FetchCounts \in Request /\ FetchCounts.kind = "unread"
    /\ \A c \in TextChannels : /\ FetchHistory(c) \in Request /\ FetchHistory(c).kind = "history"
                               /\ FetchHistory(c).of = c
    /\ \A c \in TextChannels, id \in Nat :
         Mark(c, id) \in Request /\ Mark(c, id).kind = "mark" /\ Mark(c, id).of = c /\ Mark(c, id).id = id
  BY DEF Request, FetchCounts, FetchHistory, Mark

LEMMA ReadTypes ==
    ASSUME ReadInv, NEW c \in TextChannels
    PROVE  /\ newest[c] \in Nat /\ lastRead[c] \in Nat /\ known[c] \in Nat /\ count[c] \in Nat
           /\ waiting[c] \in Nat /\ lastSent[c] \in Nat /\ Promised(c) \in Nat
           /\ timer[c] \in BOOLEAN /\ lostMark[c] \in BOOLEAN /\ missed[c] \in BOOLEAN
           /\ listed[c] \in BOOLEAN
           /\ lastRead[c] <= lastSent[c] /\ lastSent[c] <= Promised(c)
           /\ Promised(c) <= known[c] /\ known[c] <= newest[c]
  BY DEF ReadInv, ReadTypeOK, Promised, ThrottleRight

\* What sending the last id of c does to the marks on their way.
LEMMA SendFacts ==
    ASSUME ReadInv, NEW c \in TextChannels, NEW id \in Nat, lastSent[c] < id, SendNow(c, id),
           lastRead' = lastRead
    PROVE  /\ up' \in Seq(Request)
           /\ waiting' \in [TextChannels -> Nat] /\ lastSent' \in [TextChannels -> Nat]
           /\ recent' \in [TextChannels -> BOOLEAN] /\ timer' \in [TextChannels -> BOOLEAN]
           /\ lostMark' \in [TextChannels -> BOOLEAN]
           /\ waiting'[c] = 0 /\ ~timer'[c] /\ lastSent'[c] = id
           /\ \A d \in TextChannels \ {c} :
                /\ waiting'[d] = waiting[d] /\ timer'[d] = timer[d] /\ lastSent'[d] = lastSent[d]
                /\ lostMark'[d] = lostMark[d] /\ (HasMark(d)' <=> HasMark(d))
           /\ \A d \in TextChannels : MarksRight(d)'
           /\ connected => HasMark(c)'
           /\ ~connected => up' = up
           /\ Has(up, "unread")' <=> Has(up, "unread")
<1>t. ReadTypeOK
  BY DEF ReadInv
<1>1. /\ waiting' = [waiting EXCEPT ![c] = 0] /\ timer' = [timer EXCEPT ![c] = FALSE]
      /\ lastSent' = [lastSent EXCEPT ![c] = id] /\ recent' = [recent EXCEPT ![c] = TRUE]
      /\ lostMark' = [lostMark EXCEPT ![c] = @ \/ ~connected]
      /\ up' = IF connected THEN Append(up, Mark(c, id)) ELSE up
  BY DEF SendNow
<1>2. /\ waiting' \in [TextChannels -> Nat] /\ lastSent' \in [TextChannels -> Nat]
      /\ recent' \in [TextChannels -> BOOLEAN] /\ timer' \in [TextChannels -> BOOLEAN]
      /\ lostMark' \in [TextChannels -> BOOLEAN]
      /\ waiting'[c] = 0 /\ ~timer'[c] /\ lastSent'[c] = id
      /\ \A d \in TextChannels \ {c} :
           /\ waiting'[d] = waiting[d] /\ timer'[d] = timer[d] /\ lastSent'[d] = lastSent[d]
           /\ lostMark'[d] = lostMark[d]
      /\ ~connected => lostMark'[c]
  BY <1>1, <1>t DEF ReadTypeOK
<1>3. Mark(c, id) \in Request /\ Mark(c, id).kind = "mark" /\ Mark(c, id).of = c /\ Mark(c, id).id = id
  BY RequestFacts
<1>4. CASE connected
  <2>1. PICK e : e = Mark(c, id)
    OBVIOUS
  <2>2. up \in Seq(Request) /\ e \in Request /\ up' = Append(up, e)
    BY <1>1, <1>3, <1>4, <1>t, <2>1 DEF ReadTypeOK
  <2>3. /\ up' \in Seq(Request) /\ Len(up) \in Nat /\ Len(up) + 1 \in DOMAIN up' /\ up'[Len(up) + 1] = e
        /\ \A i \in DOMAIN up : i \in DOMAIN up' /\ up'[i] = up[i] /\ i \in Nat /\ i > 0 /\ i < Len(up) + 1
        /\ \A i \in DOMAIN up' : i \in DOMAIN up \/ i = Len(up) + 1
    <3>1. PICK q, r : q = up /\ r = up'
      OBVIOUS
    <3>2. q \in Seq(Request) /\ r = Append(q, e)
      BY <3>1, <2>2
    <3>3. /\ r \in Seq(Request) /\ Len(q) \in Nat /\ Len(q) + 1 \in DOMAIN r /\ r[Len(q) + 1] = e
          /\ \A i \in DOMAIN q : i \in DOMAIN r /\ r[i] = q[i] /\ i \in Nat /\ i > 0 /\ i < Len(q) + 1
          /\ \A i \in DOMAIN r : i \in DOMAIN q \/ i = Len(q) + 1
      BY <3>2, <2>2, AppendFacts
    <3> QED
      BY <3>1, <3>3
  <2>4. e.kind = "mark" /\ e.of = c /\ e.id = id
    BY <1>3, <2>1
  <2>5. ASSUME NEW d \in TextChannels \ {c} PROVE HasMark(d)' <=> HasMark(d)
    BY <2>3, <2>4 DEF HasMark, IsMark
  <2>6. HasMark(c)'
    BY <2>3, <2>4 DEF HasMark, IsMark
  <2>7. Has(up, "unread")' <=> Has(up, "unread")
    <3>1. DOMAIN up = 1..Len(up) /\ DOMAIN up' = 1..Len(up')
      BY <2>2, <2>3
    <3> QED
      BY <2>3, <2>4, <3>1 DEF Has
  <2>8. ASSUME NEW d \in TextChannels \ {c} PROVE MarksRight(d)'
    <3>1. MarksRight(d)
      BY DEF ReadInv
    <3>2. \A i \in DOMAIN up' : IsMark(i, d)' => i \in DOMAIN up /\ IsMark(i, d) /\ up'[i] = up[i]
      BY <2>3, <2>4 DEF IsMark
    <3>3. \A i \in DOMAIN up : IsMark(i, d) => i \in DOMAIN up' /\ IsMark(i, d)'
      BY <2>3 DEF IsMark
    <3> QED
      BY <3>1, <3>2, <3>3, <2>5, <1>2 DEF MarksRight
  <2>9. MarksRight(c)'
    <3>1. \A i \in DOMAIN up : IsMark(i, c) => up[i].id <= lastSent[c] /\ up[i].id \in Nat
      <4>1. \A i \in DOMAIN up : up[i] \in Request
        BY <2>2
      <4> QED
        BY <4>1, RequestFacts DEF ReadInv, MarksRight, IsMark
    <3>2. PICK l : l = Len(up) + 1
      OBVIOUS
    <3>3. l \in DOMAIN up' /\ up'[l] = e /\ IsMark(l, c)' /\ l \in Nat
      BY <3>2, <2>3, <2>4 DEF IsMark
    <3>4. \A i \in DOMAIN up' : IsMark(i, c)' /\ i # l =>
            i \in DOMAIN up /\ i < l /\ IsMark(i, c) /\ up'[i] = up[i]
      BY <3>2, <2>3 DEF IsMark
    <3>5. ASSUME NEW i \in DOMAIN up', IsMark(i, c)', i # l
          PROVE  up'[i].id <= lastSent'[c] /\ \E j \in DOMAIN up' : j > i /\ IsMark(j, c)'
      <4>1. i \in DOMAIN up /\ i < l /\ IsMark(i, c) /\ up'[i] = up[i]
        BY <3>4, <3>5
      <4>2. up[i].id <= lastSent[c] /\ up[i].id \in Nat /\ i \in Nat
        BY <4>1, <3>1, <2>3
      <4>3. up'[i].id <= lastSent'[c]
        BY <4>1, <4>2, <1>2, ReadTypes
      <4> QED
        BY <4>1, <4>2, <4>3, <3>3
    <3>6. up'[l].id = lastSent'[c]
      BY <3>3, <2>4, <1>2
    <3>7. up'[l].id <= lastSent'[c]
      BY <3>6, <1>2
    <3> QED
      BY <3>5, <3>6, <3>7, <2>6 DEF MarksRight
  <2> QED
    BY <1>2, <1>4, <2>3, <2>5, <2>6, <2>7, <2>8, <2>9
<1>5. CASE ~connected
  <2>1. up' = up
    BY <1>1, <1>5
  <2>2. \A d \in TextChannels : HasMark(d)' <=> HasMark(d)
    BY <2>1 DEF HasMark, IsMark
  <2>3. ASSUME NEW d \in TextChannels \ {c} PROVE MarksRight(d)'
    <3>1. MarksRight(d)
      BY DEF ReadInv
    <3> QED
      BY <3>1, <2>1, <2>2, <1>2 DEF MarksRight, IsMark
  <2>4. MarksRight(c)'
    <3>1. up = <<>>
      BY <1>5 DEF ReadInv
    <3>2. \A i \in DOMAIN up' : FALSE
      BY <2>1, <3>1
    <3> QED
      BY <3>2, <1>2, <1>5 DEF MarksRight
  <2> QED
    BY <1>2, <1>5, <1>t, <2>1, <2>2, <2>3, <2>4 DEF Has, ReadTypeOK
<1> QED
  BY <1>4, <1>5

\* A flush leaves no timer, and changes nothing of what is promised.
LEMMA FlushFacts ==
    ASSUME ReadInv, FlushChannel(chosen), lastRead' = lastRead
    PROVE  /\ up' \in Seq(Request)
           /\ waiting' \in [TextChannels -> Nat] /\ lastSent' \in [TextChannels -> Nat]
           /\ recent' \in [TextChannels -> BOOLEAN] /\ timer' \in [TextChannels -> BOOLEAN]
           /\ lostMark' \in [TextChannels -> BOOLEAN]
           /\ \A d \in TextChannels :
                /\ waiting'[d] = 0 /\ ~timer'[d] /\ lastSent'[d] = Promised(d)
                /\ MarksRight(d)' /\ (connected => (Claimed(d)' => Claimed(d)))
           /\ (\A d \in TextChannels : ~timer[d] /\ ~HasMark(d))
                => \A d \in TextChannels : ~HasMark(d)'
           /\ ~connected => up' = up
           /\ Has(up, "unread")' <=> Has(up, "unread")
<1>t. ReadTypeOK
  BY DEF ReadInv
<1>a. \A d \in TextChannels : /\ waiting[d] # 0 <=> timer[d]
                              /\ timer[d] => d = chosen /\ waiting[d] > lastSent[d]
                              /\ MarksRight(d)
  BY DEF ReadInv, ThrottleRight
<1>1. CASE chosen # 0 /\ waiting[chosen] # 0
  <2>1. PICK c \in TextChannels : c = chosen
    BY <1>1, <1>t DEF ReadTypeOK
  <2>2. SendNow(c, waiting[c]) /\ timer[c] /\ waiting[c] \in Nat /\ lastSent[c] < waiting[c]
    BY <1>1, <2>1, <1>a, ReadTypes DEF FlushChannel
  <2>3. PICK id \in Nat : id = waiting[c]
    BY <2>2
  <2>4. SendNow(c, id) /\ lastSent[c] < id
    BY <2>2, <2>3
  <2>5. /\ up' \in Seq(Request)
        /\ waiting' \in [TextChannels -> Nat] /\ lastSent' \in [TextChannels -> Nat]
        /\ recent' \in [TextChannels -> BOOLEAN] /\ timer' \in [TextChannels -> BOOLEAN]
        /\ lostMark' \in [TextChannels -> BOOLEAN]
        /\ waiting'[c] = 0 /\ ~timer'[c] /\ lastSent'[c] = id
        /\ \A d \in TextChannels \ {c} :
             /\ waiting'[d] = waiting[d] /\ timer'[d] = timer[d] /\ lastSent'[d] = lastSent[d]
             /\ lostMark'[d] = lostMark[d] /\ (HasMark(d)' <=> HasMark(d))
        /\ \A d \in TextChannels : MarksRight(d)'
        /\ connected => HasMark(c)'
        /\ ~connected => up' = up
        /\ Has(up, "unread")' <=> Has(up, "unread")
    BY <2>4, SendFacts
  <2>6. Promised(c) = id /\ Claimed(c)
    BY <2>2, <2>3 DEF Promised, Claimed
  <2>7. ASSUME NEW d \in TextChannels \ {c}
        PROVE  /\ ~timer[d] /\ waiting[d] = 0 /\ Promised(d) = lastSent[d]
               /\ Claimed(d)' <=> Claimed(d)
    <3>1. ~timer[d] /\ waiting[d] = 0
      BY <1>a, <2>1
    <3>2. Promised(d) = lastSent[d]
      BY <3>1 DEF Promised
    <3>3. (~lostMark[d])' <=> ~lostMark[d]
      BY <2>5
    <3>4. ~timer'[d] /\ (HasMark(d)' <=> HasMark(d))
      BY <3>1, <2>5
    <3>5. Claimed(d)' <=> Claimed(d)
      BY <3>1, <3>3, <3>4 DEF Claimed
    <3> QED
      BY <3>1, <3>2, <3>5
  <2>8. \A d \in TextChannels :
           /\ waiting'[d] = 0 /\ ~timer'[d] /\ lastSent'[d] = Promised(d)
           /\ Claimed(d)' => Claimed(d)
    BY <2>5, <2>6, <2>7
  <2> QED
    BY <2>2, <2>5, <2>8
<1>2. CASE ~(chosen # 0 /\ waiting[chosen] # 0)
  <2>1. up' = up /\ waiting' = waiting /\ lastSent' = lastSent /\ recent' = recent /\ timer' = timer
        /\ lostMark' = lostMark
    BY <1>2 DEF FlushChannel, throttle
  <2>2. ASSUME NEW d \in TextChannels
        PROVE  ~timer[d] /\ waiting[d] = 0 /\ Promised(d) = lastSent[d]
    <3>1. d # 0
      BY ReadAssumption
    <3>2. ~timer[d]
      BY <3>1, <1>2, <1>a
    <3> QED
      BY <3>2, <1>a DEF Promised
  <2>3. \A d \in TextChannels : HasMark(d)' <=> HasMark(d)
    BY <2>1 DEF HasMark, IsMark
  <2>4. ASSUME NEW d \in TextChannels PROVE MarksRight(d)' /\ (Claimed(d)' <=> Claimed(d))
    BY <2>1, <2>3, <1>a DEF MarksRight, IsMark, Claimed
  <2>5. Has(up, "unread")' <=> Has(up, "unread")
    BY <2>1 DEF Has
  <2>6. /\ up' \in Seq(Request)
        /\ waiting' \in [TextChannels -> Nat] /\ lastSent' \in [TextChannels -> Nat]
        /\ recent' \in [TextChannels -> BOOLEAN] /\ timer' \in [TextChannels -> BOOLEAN]
        /\ lostMark' \in [TextChannels -> BOOLEAN]
    BY <2>1, <1>t DEF ReadTypeOK
  <2> QED
    BY <2>1, <2>2, <2>3, <2>4, <2>5, <2>6
<1> QED
  BY <1>1, <1>2

\* Scheduling an id no smaller than the one promised promises it.
LEMMA ScheduleFacts ==
    ASSUME ReadInv, NEW c \in TextChannels, NEW id \in Nat, Promised(c) <= id,
           ScheduleSend(c, id), lastRead' = lastRead
    PROVE  /\ up' \in Seq(Request)
           /\ waiting' \in [TextChannels -> Nat] /\ lastSent' \in [TextChannels -> Nat]
           /\ recent' \in [TextChannels -> BOOLEAN] /\ timer' \in [TextChannels -> BOOLEAN]
           /\ lostMark' \in [TextChannels -> BOOLEAN]
           /\ Promised(c)' = id /\ lastSent[c] <= lastSent'[c]
           /\ waiting'[c] # 0 <=> timer'[c]
           /\ timer'[c] => waiting'[c] > lastSent'[c]
           /\ \A d \in TextChannels \ {c} :
                /\ waiting'[d] = waiting[d] /\ timer'[d] = timer[d] /\ lastSent'[d] = lastSent[d]
                /\ lostMark'[d] = lostMark[d] /\ (HasMark(d)' <=> HasMark(d))
           /\ \A d \in TextChannels : MarksRight(d)'
           /\ ~connected => up' = up
           /\ Has(up, "unread")' <=> Has(up, "unread")
<1>t. ReadTypeOK
  BY DEF ReadInv
<1>a. /\ waiting[c] # 0 <=> timer[c]
      /\ timer[c] => waiting[c] > lastSent[c]
      /\ waiting[c] \in Nat /\ lastSent[c] \in Nat
  BY ReadTypes DEF ReadInv, ThrottleRight
<1>m. \A d \in TextChannels : MarksRight(d)
  BY DEF ReadInv
<1>1. CASE id <= lastSent[c] /\ UNCHANGED <<up, throttle>>
  <2>1. up' = up /\ waiting' = waiting /\ lastSent' = lastSent /\ recent' = recent /\ timer' = timer
        /\ lostMark' = lostMark
    BY <1>1 DEF throttle
  <2>2. ~timer[c] /\ lastSent[c] = id
    BY <1>1, <1>a DEF Promised
  <2>3. \A d \in TextChannels : HasMark(d)' <=> HasMark(d)
    BY <2>1 DEF HasMark, IsMark
  <2>4. ASSUME NEW d \in TextChannels PROVE MarksRight(d)'
    BY <2>1, <2>3, <1>m DEF MarksRight, IsMark
  <2>5. Has(up, "unread")' <=> Has(up, "unread")
    BY <2>1 DEF Has
  <2>6. Promised(c)' = id
    BY <2>1, <2>2 DEF Promised
  <2>7. /\ up' \in Seq(Request)
        /\ waiting' \in [TextChannels -> Nat] /\ lastSent' \in [TextChannels -> Nat]
        /\ recent' \in [TextChannels -> BOOLEAN] /\ timer' \in [TextChannels -> BOOLEAN]
        /\ lostMark' \in [TextChannels -> BOOLEAN]
    BY <2>1, <1>t DEF ReadTypeOK
  <2> QED
    BY <2>1, <2>3, <2>4, <2>5, <2>6, <2>7, <1>a
<1>2. CASE id > lastSent[c] /\ SendNow(c, id)
  <2>1. lastSent[c] < id /\ SendNow(c, id)
    BY <1>2, <1>a
  <2>5. /\ up' \in Seq(Request)
        /\ waiting' \in [TextChannels -> Nat] /\ lastSent' \in [TextChannels -> Nat]
        /\ recent' \in [TextChannels -> BOOLEAN] /\ timer' \in [TextChannels -> BOOLEAN]
        /\ lostMark' \in [TextChannels -> BOOLEAN]
        /\ waiting'[c] = 0 /\ ~timer'[c] /\ lastSent'[c] = id
        /\ \A d \in TextChannels \ {c} :
             /\ waiting'[d] = waiting[d] /\ timer'[d] = timer[d] /\ lastSent'[d] = lastSent[d]
             /\ lostMark'[d] = lostMark[d] /\ (HasMark(d)' <=> HasMark(d))
        /\ \A d \in TextChannels : MarksRight(d)'
        /\ ~connected => up' = up
        /\ Has(up, "unread")' <=> Has(up, "unread")
    BY <2>1, SendFacts
  <2>6. Promised(c)' = id
    BY <2>5 DEF Promised
  <2> QED
    BY <2>1, <2>5, <2>6, <1>a
<1>3. CASE id > lastSent[c] /\ WaitForTimer(c, id)
  <2>1. /\ waiting' = [waiting EXCEPT ![c] = id] /\ timer' = [timer EXCEPT ![c] = TRUE]
        /\ up' = up /\ lastSent' = lastSent /\ recent' = recent /\ lostMark' = lostMark
    BY <1>3 DEF WaitForTimer
  <2>2. /\ waiting' \in [TextChannels -> Nat] /\ timer' \in [TextChannels -> BOOLEAN]
        /\ waiting'[c] = id /\ timer'[c]
        /\ \A d \in TextChannels \ {c} : waiting'[d] = waiting[d] /\ timer'[d] = timer[d]
    BY <2>1, <1>t DEF ReadTypeOK
  <2>3. \A d \in TextChannels : HasMark(d)' <=> HasMark(d)
    BY <2>1 DEF HasMark, IsMark
  <2>4. ASSUME NEW d \in TextChannels PROVE MarksRight(d)'
    BY <2>1, <2>3, <1>m DEF MarksRight, IsMark
  <2>5. Has(up, "unread")' <=> Has(up, "unread")
    BY <2>1 DEF Has
  <2>6. Promised(c)' = id
    BY <2>2 DEF Promised
  <2>7. /\ up' \in Seq(Request) /\ lastSent' \in [TextChannels -> Nat]
        /\ recent' \in [TextChannels -> BOOLEAN] /\ lostMark' \in [TextChannels -> BOOLEAN]
    BY <2>1, <1>t DEF ReadTypeOK
  <2>8. waiting'[c] # 0 /\ waiting'[c] > lastSent'[c]
    BY <2>1, <2>2, <1>3, <1>a
  <2> QED
    BY <2>1, <2>2, <2>3, <2>4, <2>5, <2>6, <2>7, <2>8, <1>a
<1> QED
  BY <1>1, <1>2, <1>3 DEF ScheduleSend

-----------------------------------------------------------------------------
(* What a step keeps *)

LEMMA HasMore ==
    ASSUME NEW S, NEW q \in Seq(S), NEW e \in S, NEW r, r = Append(q, e), NEW k
    PROVE  Has(r, k) <=> (Has(q, k) \/ e.kind = k)
<1>1. /\ \A i \in DOMAIN q : i \in DOMAIN r /\ r[i] = q[i]
      /\ \A i \in DOMAIN r : i \in DOMAIN q \/ i = Len(q) + 1
      /\ r[Len(q) + 1] = e /\ Len(q) + 1 \in DOMAIN r /\ r \in Seq(S)
  BY AppendFacts
<1>2. DOMAIN q = 1..Len(q) /\ DOMAIN r = 1..Len(r)
  BY <1>1
<1> QED
  BY <1>1, <1>2 DEF Has

LEMMA HasTaken ==
    ASSUME NEW S, NEW q \in Seq(S), q # <<>>, NEW r, r = Tail(q), NEW k
    PROVE  Has(q, k) <=> (Has(r, k) \/ Head(q).kind = k)
<1>1. /\ r \in Seq(S) /\ 1 \in DOMAIN q /\ Head(q) = q[1]
      /\ \A i \in DOMAIN r : i + 1 \in DOMAIN q /\ r[i] = q[i + 1]
      /\ \A i \in DOMAIN q : i # 1 => i - 1 \in DOMAIN r /\ r[i - 1] = q[i]
  BY TakenFacts
<1>2. DOMAIN q = 1..Len(q) /\ DOMAIN r = 1..Len(r)
  BY <1>1
<1> QED
  BY <1>1, <1>2 DEF Has

LEMMA FrontBack ==
    ASSUME NEW q, NEW r \in Seq(Frame), NEW n, NEW m \in Nat, NEW c, NEW k, Stream(q, n, c, k),
           \A f \in Nat : Front(q, n, c, 0, f) => Front(r, m, c, 0, f)
    PROVE  \A f \in Nat : Front(r, m, c, 0, f) => Front(q, n, c, 0, f)
<1>1. PICK g \in Nat : Front(q, n, c, 0, g)
  BY DEF Stream
<1>2. ASSUME NEW f \in Nat, Front(r, m, c, 0, f) PROVE Front(q, n, c, 0, f)
  <2>1. Front(r, m, c, 0, g)
    BY <1>1
  <2>2. f = g
    BY <1>2, <2>1, FrontOne
  <2> QED
    BY <1>1, <2>2
<1> QED
  BY <1>2

LEMMA BadgeKept ==
    ASSUME ReadInv, NEW c \in TextChannels,
           \A f \in Nat : Front(down', newest'[c], c, 0, f) => Front(down, newest[c], c, 0, f),
           count'[c] = count[c], Promised(c)' = Promised(c),
           connected' /\ ~Refreshing' /\ ~staleCount' =>
               /\ connected /\ ~Refreshing /\ ~staleCount
               /\ Opening(c)' <=> Opening(c)
               /\ Claimed(c)' => Claimed(c)
    PROVE  BadgeRight(c)'
<1> SUFFICES ASSUME connected', ~Refreshing', ~staleCount', NEW f \in Nat,
                    Front(down', newest'[c], c, 0, f)
             PROVE  IF Opening(c)' THEN f = 0 => count'[c] = 0
                                   ELSE Claimed(c)' => count'[c] + Promised(c)' = f
  BY DEF BadgeRight
<1>1. Front(down, newest[c], c, 0, f)
  OBVIOUS
<1>2. connected /\ ~Refreshing /\ ~staleCount
  OBVIOUS
<1>3. IF Opening(c) THEN f = 0 => count[c] = 0 ELSE Claimed(c) => count[c] + Promised(c) = f
  <2>1. BadgeRight(c)
    BY DEF ReadInv
  <2> QED
    BY ONLY <2>1, <1>1, <1>2, f \in Nat DEF BadgeRight
<1>4. (Opening(c)' <=> Opening(c)) /\ (Claimed(c)' => Claimed(c))
  OBVIOUS
<1> QED
  BY ONLY <1>3, <1>4, count'[c] = count[c], Promised(c)' = Promised(c)

LEMMA FetchKept ==
    ASSUME ReadInv, lastRead' = lastRead,
           Refreshing' /\ ~staleCount' => Refreshing /\ ~staleCount,
           Refreshing' /\ ~staleCount' /\ (\A c \in TextChannels : ~timer[c] /\ ~HasMark(c))
               => \A c \in TextChannels : ~timer'[c] /\ ~HasMark(c)',
           \A i \in DOMAIN down' : down'[i].kind = "counts" =>
               \E j \in DOMAIN down :
                   /\ down[j] = down'[i]
                   /\ \A c \in TextChannels, f \in Nat :
                        Front(down, newest[c], c, j, f) => Front(down', newest'[c], c, i, f)
    PROVE  FetchRight'
<1> SUFFICES ASSUME Refreshing', ~staleCount'
             PROVE  /\ \A c \in TextChannels : ~timer'[c] /\ ~HasMark(c)'
                    /\ \A i \in DOMAIN down' : down'[i].kind = "counts" =>
                         \A c \in TextChannels : Counted(i, c)'
  BY DEF FetchRight
<1>1. Refreshing /\ ~staleCount
  OBVIOUS
<1>2. FetchRight
  BY DEF ReadInv
<1>3. /\ \A c \in TextChannels : ~timer[c] /\ ~HasMark(c)
      /\ \A i \in DOMAIN down : down[i].kind = "counts" => \A c \in TextChannels : Counted(i, c)
  BY <1>1, <1>2 DEF FetchRight
<1>4. \A c \in TextChannels : ~timer'[c] /\ ~HasMark(c)'
  BY <1>3
<1>5. ASSUME NEW i \in DOMAIN down', down'[i].kind = "counts", NEW c \in TextChannels
      PROVE  Counted(i, c)'
  <2>1. PICK j \in DOMAIN down :
            /\ down[j] = down'[i]
            /\ \A f \in Nat : Front(down, newest[c], c, j, f) => Front(down', newest'[c], c, i, f)
    BY <1>5
  <2>2. Counted(j, c)
    BY <2>1, <1>3, <1>5
  <2>3. PICK f \in Nat : Front(down, newest[c], c, j, f) /\ down[j].counts[c] + lastRead[c] = f
    BY <2>2 DEF Counted
  <2>4. Front(down', newest'[c], c, i, f) /\ down'[i].counts[c] + lastRead'[c] = f
    BY <2>1, <2>3
  <2> QED
    BY <2>4 DEF Counted
<1> QED
  BY <1>4, <1>5

\* No frame came or went.
LEMMA FetchStays ==
    ASSUME ReadInv, lastRead' = lastRead, down' = down, newest' = newest,
           Refreshing' /\ ~staleCount' => Refreshing /\ ~staleCount,
           Refreshing' /\ ~staleCount' /\ (\A c \in TextChannels : ~timer[c] /\ ~HasMark(c))
               => \A c \in TextChannels : ~timer'[c] /\ ~HasMark(c)'
    PROVE  FetchRight'
<1>1. \A i \in DOMAIN down' : down'[i].kind = "counts" =>
          \E j \in DOMAIN down :
              /\ down[j] = down'[i]
              /\ \A c \in TextChannels, f \in Nat :
                   Front(down, newest[c], c, j, f) => Front(down', newest'[c], c, i, f)
  <2>1. ASSUME NEW i \in DOMAIN down'
        PROVE  /\ i \in DOMAIN down /\ down[i] = down'[i]
               /\ \A c \in TextChannels, f \in Nat :
                    Front(down, newest[c], c, i, f) => Front(down', newest'[c], c, i, f)
    OBVIOUS
  <2> QED
    BY <2>1
<1> QED
  BY <1>1, FetchKept

\* The first frame was taken.
LEMMA FetchTaken ==
    ASSUME ReadInv, lastRead' = lastRead, down # <<>>, down' = Tail(down), newest' = newest,
           Refreshing' /\ ~staleCount' => Refreshing /\ ~staleCount,
           Refreshing' /\ ~staleCount' /\ (\A c \in TextChannels : ~timer[c] /\ ~HasMark(c))
               => \A c \in TextChannels : ~timer'[c] /\ ~HasMark(c)'
    PROVE  FetchRight'
<1>1. PICK q, r : q = down /\ r = down'
  OBVIOUS
<1>2. q \in Seq(Frame) /\ q # <<>> /\ r = Tail(q)
  BY <1>1 DEF ReadInv, ReadTypeOK
<1>3. \A i \in DOMAIN r : i + 1 \in DOMAIN q /\ r[i] = q[i + 1] /\ i \in Nat
  BY <1>2, TakenFacts
<1>4. ASSUME NEW i \in DOMAIN r, NEW c \in TextChannels, NEW f \in Nat, Front(q, newest[c], c, i + 1, f)
      PROVE  Front(r, newest[c], c, i, f)
  BY <1>2, <1>3, <1>4, ReadTypes, FrontTaken
<1>5. \A i \in DOMAIN down' : down'[i].kind = "counts" =>
          \E j \in DOMAIN down :
              /\ down[j] = down'[i]
              /\ \A c \in TextChannels, f \in Nat :
                   Front(down, newest[c], c, j, f) => Front(down', newest'[c], c, i, f)
  <2>1. ASSUME NEW i \in DOMAIN down'
        PROVE  \E j \in DOMAIN down :
                 /\ down[j] = down'[i]
                 /\ \A c \in TextChannels, f \in Nat :
                      Front(down, newest[c], c, j, f) => Front(down', newest'[c], c, i, f)
    <3>1. i + 1 \in DOMAIN down /\ down[i + 1] = down'[i]
      BY <1>1, <1>3
    <3>2. \A c \in TextChannels, f \in Nat :
            Front(down, newest[c], c, i + 1, f) => Front(down', newest'[c], c, i, f)
      BY <1>1, <1>4
    <3> QED
      BY <3>1, <3>2
  <2> QED
    BY <2>1
<1> QED
  BY <1>5, FetchKept

\* A frame came that is not counters.
LEMMA FetchMore ==
    ASSUME ReadInv, lastRead' = lastRead, NEW e \in Frame, down' = Append(down, e),
           e.kind \in {"message", "page"},
           e.kind = "message" => e.of \in TextChannels /\ e.id = newest[e.of] + 1
                                 /\ newest' = [newest EXCEPT ![e.of] = @ + 1],
           e.kind = "page" => newest' = newest,
           Refreshing' /\ ~staleCount' => Refreshing /\ ~staleCount,
           Refreshing' /\ ~staleCount' /\ (\A c \in TextChannels : ~timer[c] /\ ~HasMark(c))
               => \A c \in TextChannels : ~timer'[c] /\ ~HasMark(c)'
    PROVE  FetchRight'
<1>1. PICK q, r : q = down /\ r = down'
  OBVIOUS
<1>2. q \in Seq(Frame) /\ r = Append(q, e)
  BY <1>1 DEF ReadInv, ReadTypeOK
<1>3. /\ Len(q) \in Nat
      /\ \A i \in DOMAIN q : i \in DOMAIN r /\ r[i] = q[i] /\ i \in Nat /\ i > 0 /\ i < Len(q) + 1
      /\ \A i \in DOMAIN r : i \in DOMAIN q \/ i = Len(q) + 1
      /\ r[Len(q) + 1] = e
  BY <1>2, AppendFacts
<1>4. ASSUME NEW i \in DOMAIN q, NEW c \in TextChannels, NEW f \in Nat, Front(q, newest[c], c, i, f)
      PROVE  Front(r, newest'[c], c, i, f)
  <2>1. newest \in [TextChannels -> Nat] /\ newest[c] \in Nat
    BY DEF ReadInv, ReadTypeOK
  <2>2. i \in Nat /\ i <= Len(q)
    BY <1>3
  <2>3. CASE e.kind = "message" /\ e.of = c
    <3>1. newest'[c] = newest[c] + 1 /\ e.id = newest[c] + 1
      BY <2>1, <2>3
    <3>2. Front(r, newest[c] + 1, c, i, f)
      BY <1>2, <1>4, <2>1, <2>2, <2>3, <3>1, FrontSaved
    <3> QED
      BY <3>1, <3>2
  <2>4. CASE ~(e.kind = "message" /\ e.of = c)
    <3>1. newest'[c] = newest[c]
      BY <2>1, <2>4
    <3>2. Front(r, newest[c], c, i, f)
      BY <1>2, <1>4, <2>1, <2>2, <2>4, FrontMore
    <3> QED
      BY <3>1, <3>2
  <2> QED
    BY <2>3, <2>4
<1>5. \A i \in DOMAIN down' : down'[i].kind = "counts" =>
          \E j \in DOMAIN down :
              /\ down[j] = down'[i]
              /\ \A c \in TextChannels, f \in Nat :
                   Front(down, newest[c], c, j, f) => Front(down', newest'[c], c, i, f)
  <2>1. ASSUME NEW i \in DOMAIN down', down'[i].kind = "counts"
        PROVE  /\ i \in DOMAIN down /\ down[i] = down'[i]
               /\ \A c \in TextChannels, f \in Nat :
                    Front(down, newest[c], c, i, f) => Front(down', newest'[c], c, i, f)
    <3>1. i \in DOMAIN down
      BY <2>1, <1>1, <1>3
    <3>2. down[i] = down'[i]
      BY <3>1, <1>1, <1>3
    <3>3. \A c \in TextChannels, f \in Nat :
            Front(down, newest[c], c, i, f) => Front(down', newest'[c], c, i, f)
      BY <3>1, <1>1, <1>4
    <3> QED
      BY <3>1, <3>2, <3>3
  <2> QED
    BY <2>1
<1> QED
  BY <1>5, FetchKept

\* Marking the channel in view up to the last message known.
LEMMA MarkFacts ==
    ASSUME ReadInv, NEW c \in TextChannels, NEW id \in Nat, Promised(c) <= id, id <= newest[c],
           MarkChannelRead(c, id), chosen \in {0, c} \/ ~visible, chosen' = c, visible' = TRUE,
           newest' = newest, lastRead' = lastRead, connected' = connected,
           known' \in [TextChannels -> Nat], known'[c] = id,
           \A d \in TextChannels \ {c} : known'[d] = known[d]
    PROVE  /\ up' \in Seq(Request)
           /\ waiting' \in [TextChannels -> Nat] /\ lastSent' \in [TextChannels -> Nat]
           /\ recent' \in [TextChannels -> BOOLEAN] /\ timer' \in [TextChannels -> BOOLEAN]
           /\ lostMark' \in [TextChannels -> BOOLEAN]
           /\ count' \in [TextChannels -> Nat] /\ staleCount' \in BOOLEAN
           /\ \A d \in TextChannels : ThrottleRight(d)' /\ MarksRight(d)'
           /\ count'[c] = 0 /\ Promised(c)' = id
           /\ \A d \in TextChannels \ {c} :
                /\ count'[d] = count[d] /\ Promised(d)' = Promised(d)
                /\ Claimed(d)' <=> Claimed(d)
           /\ ~staleCount' => ~staleCount /\ ~Refreshing /\ ~missed[c]
           /\ Has(up, "unread")' <=> Has(up, "unread")
           /\ ~connected => up' = up
<1>t. ReadTypeOK
  BY DEF ReadInv
<1>1. /\ count' = [count EXCEPT ![c] = 0] /\ staleCount' = (staleCount \/ Refreshing \/ missed[c])
      /\ ScheduleSend(c, id)
  BY DEF MarkChannelRead
<1>2. /\ up' \in Seq(Request)
      /\ waiting' \in [TextChannels -> Nat] /\ lastSent' \in [TextChannels -> Nat]
      /\ recent' \in [TextChannels -> BOOLEAN] /\ timer' \in [TextChannels -> BOOLEAN]
      /\ lostMark' \in [TextChannels -> BOOLEAN]
      /\ Promised(c)' = id /\ lastSent[c] <= lastSent'[c]
      /\ waiting'[c] # 0 <=> timer'[c]
      /\ timer'[c] => waiting'[c] > lastSent'[c]
      /\ \A d \in TextChannels \ {c} :
           /\ waiting'[d] = waiting[d] /\ timer'[d] = timer[d] /\ lastSent'[d] = lastSent[d]
           /\ lostMark'[d] = lostMark[d] /\ (HasMark(d)' <=> HasMark(d))
      /\ \A d \in TextChannels : MarksRight(d)'
      /\ ~connected => up' = up
      /\ Has(up, "unread")' <=> Has(up, "unread")
  BY <1>1, ScheduleFacts
<1>3. count' \in [TextChannels -> Nat] /\ count'[c] = 0 /\ \A d \in TextChannels \ {c} : count'[d] = count[d]
  BY <1>1, <1>t DEF ReadTypeOK
<1>4. staleCount' \in BOOLEAN
  BY <1>1
<1>5. ~staleCount' => ~staleCount /\ ~Refreshing /\ ~missed[c]
  BY <1>1
<1>6. ASSUME NEW d \in TextChannels \ {c}
      PROVE  ThrottleRight(d)' /\ Promised(d)' = Promised(d) /\ (Claimed(d)' <=> Claimed(d))
  <2>1. ThrottleRight(d)
    BY DEF ReadInv
  <2>2. ~timer[d] /\ waiting[d] = 0
    BY <2>1, ReadAssumption DEF ThrottleRight
  <2>3. ~timer'[d] /\ waiting'[d] = 0 /\ lastSent'[d] = lastSent[d]
    BY <1>2, <2>2
  <2>4. Promised(d)' = lastSent[d] /\ Promised(d) = lastSent[d]
    BY <2>2, <2>3 DEF Promised
  <2>5. /\ lastRead'[d] <= lastSent'[d] /\ Promised(d)' <= known'[d] /\ known'[d] <= newest'[d]
    <3>1. lastRead[d] <= lastSent[d] /\ Promised(d) <= known[d] /\ known[d] <= newest[d]
      BY ReadTypes
    <3> QED
      BY <3>1, <2>3, <2>4
  <2>6. ThrottleRight(d)'
    BY <2>3, <2>5 DEF ThrottleRight
  <2>7. HasMark(d)' <=> HasMark(d)
    BY <1>2
  <2>8. lostMark'[d] = lostMark[d]
    BY <1>2
  <2>9. Claimed(d)' <=> Claimed(d)
    BY <2>2, <2>3, <2>7, <2>8 DEF Claimed
  <2> QED
    BY <2>4, <2>6, <2>9
<1>7. ThrottleRight(c)'
  <2>1. lastRead[c] <= lastSent[c] /\ lastRead[c] \in Nat /\ lastSent[c] \in Nat
    BY ReadTypes
  <2>2. lastSent'[c] \in Nat
    BY <1>2
  <2>3. lastRead'[c] <= lastSent'[c]
    BY <1>2, <2>1, <2>2
  <2>4. Promised(c)' <= known'[c] /\ known'[c] <= newest'[c] /\ known'[c] = Promised(c)'
    BY <1>2
  <2> QED
    BY <1>2, <2>3, <2>4 DEF ThrottleRight
<1> QED
  BY <1>2, <1>3, <1>4, <1>5, <1>6, <1>7

LEMMA MarkBadge ==
    ASSUME NEW c \in TextChannels, HeldRight(c)', count'[c] = 0, Promised(c)' = known'[c],
           chosen' = c, visible' = TRUE, down' \in Seq(Frame), newest'[c] \in Nat, known'[c] \in Nat,
           ~staleCount' => ~missed'[c]
    PROVE  BadgeRight(c)'
<1> SUFFICES ASSUME ~staleCount', ~Opening(c)', NEW f \in Nat, Front(down', newest'[c], c, 0, f)
             PROVE  count'[c] + Promised(c)' = f
  BY DEF BadgeRight
<1>1. listed'[c]
  BY DEF Opening
<1>2. Front(down', newest'[c], c, 0, known'[c])
  BY <1>1 DEF HeldRight
<1>3. f = known'[c]
  BY <1>2, FrontOne
<1> QED
  BY <1>3

-----------------------------------------------------------------------------
(* One lemma for each action *)

LEMMA SameFrames ==
    ASSUME ReadInv, NEW c \in TextChannels, down' = down, newest' = newest, known' = known,
           missed' = missed, listed' = listed
    PROVE  FramesRight(c)' /\ HeldRight(c)'
<1>1. FramesRight(c) /\ HeldRight(c)
  BY DEF ReadInv
<1>2. FramesRight(c)'
  BY <1>1 DEF FramesRight
<1>3. HeldRight(c)'
  BY <1>1 DEF HeldRight
<1> QED
  BY <1>2, <1>3

LEMMA CoolsInv == ASSUME ReadInv, NEW c \in TextChannels, Cools(c) PROVE ReadInv'
<1>1. /\ newest' = newest /\ lastRead' = lastRead /\ missed' = missed /\ connected' = connected
      /\ up' = up /\ down' = down /\ chosen' = chosen /\ visible' = visible /\ listed' = listed
      /\ known' = known /\ count' = count /\ waiting' = waiting /\ lastSent' = lastSent
      /\ timer' = timer /\ lostMark' = lostMark /\ staleCount' = staleCount
      /\ recent' = [recent EXCEPT ![c] = FALSE]
  BY DEF Cools, readServer, readWire, readView
<1>2. ReadTypeOK'
  BY <1>1 DEF ReadInv, ReadTypeOK
<1>3. Refreshing' <=> Refreshing
  BY <1>1 DEF Refreshing, Has
<1>4. \A d \in TextChannels : /\ HasMark(d)' <=> HasMark(d)
                              /\ Promised(d)' = Promised(d)
                              /\ Claimed(d)' <=> Claimed(d)
                              /\ Opening(d)' <=> Opening(d)
  BY <1>1 DEF HasMark, IsMark, Promised, Claimed, Opening
<1>5. FetchRight'
  BY <1>1, <1>3, <1>4, FetchStays
<1>6. ~connected' => up' = <<>> /\ down' = <<>>
  BY <1>1 DEF ReadInv
<1>7. ASSUME NEW d \in TextChannels
      PROVE  ThrottleRight(d)' /\ MarksRight(d)' /\ FramesRight(d)' /\ HeldRight(d)' /\ BadgeRight(d)'
  <2>1. ThrottleRight(d) /\ MarksRight(d)
    BY DEF ReadInv
  <2>2. ThrottleRight(d)'
    BY <2>1, <1>1, <1>4 DEF ThrottleRight
  <2>3. MarksRight(d)'
    BY <2>1, <1>1, <1>4 DEF MarksRight, IsMark
  <2>4. FramesRight(d)' /\ HeldRight(d)'
    BY <1>1, SameFrames
  <2>5. BadgeRight(d)'
    BY <1>1, <1>3, <1>4, BadgeKept
  <2> QED
    BY <2>2, <2>3, <2>4, <2>5
<1> QED
  BY <1>2, <1>5, <1>6, <1>7 DEF ReadInv

\* TimerFires, LeaveChannel and HidePage flush; what is not listed is stale then.
LEMMA FlushInv ==
    ASSUME ReadInv, FlushChannel(chosen), UNCHANGED <<readServer, connected, down, listed, known, count>>,
           \/ chosen' = chosen /\ visible' = visible /\ staleCount' = staleCount
           \/ /\ (chosen' = 0 /\ visible' = visible) \/ (chosen' = chosen /\ visible' = FALSE)
              /\ staleCount' = (staleCount \/ Unlisted)
    PROVE  ReadInv'
<1>1. /\ newest' = newest /\ lastRead' = lastRead /\ missed' = missed /\ connected' = connected
      /\ down' = down /\ listed' = listed /\ known' = known /\ count' = count
  BY DEF readServer
<1>2. /\ up' \in Seq(Request)
      /\ waiting' \in [TextChannels -> Nat] /\ lastSent' \in [TextChannels -> Nat]
      /\ recent' \in [TextChannels -> BOOLEAN] /\ timer' \in [TextChannels -> BOOLEAN]
      /\ lostMark' \in [TextChannels -> BOOLEAN]
      /\ \A d \in TextChannels :
           /\ waiting'[d] = 0 /\ ~timer'[d] /\ lastSent'[d] = Promised(d)
           /\ MarksRight(d)' /\ (connected => (Claimed(d)' => Claimed(d)))
      /\ (\A d \in TextChannels : ~timer[d] /\ ~HasMark(d))
           => \A d \in TextChannels : ~HasMark(d)'
      /\ ~connected => up' = up
      /\ Has(up, "unread")' <=> Has(up, "unread")
  BY <1>1, FlushFacts
<1>3. ReadTypeOK'
  <2>1. ReadTypeOK
    BY DEF ReadInv
  <2>2. chosen' \in TextChannels \union {0} /\ visible' \in BOOLEAN /\ staleCount' \in BOOLEAN
    BY <2>1 DEF ReadTypeOK
  <2> QED
    BY <2>1, <2>2, <1>1, <1>2 DEF ReadTypeOK
<1>4. ~staleCount' => ~staleCount
  OBVIOUS
<1>5. Refreshing' <=> Refreshing
  <2>1. Has(down, "counts")' <=> Has(down, "counts")
    BY <1>1 DEF Has
  <2> QED
    BY <2>1, <1>2 DEF Refreshing
<1>6. FetchRight'
  BY <1>1, <1>2, <1>4, <1>5, FetchStays
<1>7. ~connected' => up' = <<>> /\ down' = <<>>
  BY <1>1, <1>2 DEF ReadInv
<1>8. ASSUME NEW d \in TextChannels
      PROVE  ThrottleRight(d)' /\ MarksRight(d)' /\ FramesRight(d)' /\ HeldRight(d)' /\ BadgeRight(d)'
  <2>1. ThrottleRight(d)
    BY DEF ReadInv
  <2>2. d # 0
    BY ReadAssumption
  <2>3. Promised(d)' = Promised(d)
    BY <1>2 DEF Promised
  <2>4. ThrottleRight(d)'
    <3>1. lastRead'[d] <= lastSent'[d] /\ Promised(d)' <= known'[d] /\ known'[d] <= newest'[d]
      <4>1. /\ lastRead[d] <= Promised(d) /\ Promised(d) <= known[d] /\ known[d] <= newest[d]
        BY ReadTypes
      <4>2. /\ lastRead'[d] = lastRead[d] /\ known'[d] = known[d] /\ newest'[d] = newest[d]
            /\ lastSent'[d] = Promised(d)
        BY <1>1, <1>2
      <4> QED
        BY <4>1, <4>2, <2>3
    <3>2. d = chosen' /\ visible' => known'[d] = Promised(d)'
      BY <2>1, <2>2, <2>3, <1>1 DEF ThrottleRight
    <3> QED
      BY <3>1, <3>2, <1>2 DEF ThrottleRight
  <2>5. FramesRight(d)' /\ HeldRight(d)'
    BY <1>1, SameFrames
  <2>6. ~staleCount' => (Opening(d)' <=> Opening(d))
    <3>1. listed'[d] = listed[d]
      BY <1>1
    <3>2. CASE chosen' = chosen /\ visible' = visible /\ staleCount' = staleCount
      BY <3>1, <3>2 DEF Opening
    <3>3. CASE /\ (chosen' = 0 /\ visible' = visible) \/ (chosen' = chosen /\ visible' = FALSE)
               /\ staleCount' = (staleCount \/ Unlisted)
      <4>1. ~Opening(d)'
        BY <3>3, <2>2 DEF Opening
      <4>2. ~staleCount' => ~Unlisted
        BY <3>3
      <4>3. Opening(d) => Unlisted
        BY <2>2 DEF Opening, Unlisted
      <4> QED
        BY <4>1, <4>2, <4>3
    <3> QED
      BY <3>2, <3>3
  <2>7. connected => (Claimed(d)' => Claimed(d))
    BY <1>2
  <2>8. BadgeRight(d)'
    BY <1>1, <1>4, <1>5, <2>3, <2>6, <2>7, BadgeKept
  <2> QED
    BY <1>2, <2>4, <2>5, <2>8
<1> QED
  BY <1>3, <1>6, <1>7, <1>8 DEF ReadInv

LEMMA TimerFiresInv == ASSUME ReadInv, NEW c \in TextChannels, TimerFires(c) PROVE ReadInv'
<1>1. c = chosen /\ c # 0 /\ waiting[c] # 0
  BY ReadAssumption DEF TimerFires, ReadInv, ThrottleRight
<1>2. FlushChannel(chosen)
  BY <1>1 DEF TimerFires, FlushChannel
<1>3. /\ UNCHANGED <<readServer, connected, down, listed, known, count>>
      /\ chosen' = chosen /\ visible' = visible /\ staleCount' = staleCount
  BY DEF TimerFires, readView
<1> QED
  BY <1>2, <1>3, FlushInv

LEMMA LeaveChannelInv == ASSUME ReadInv, LeaveChannel PROVE ReadInv'
<1>1. /\ FlushChannel(chosen) /\ UNCHANGED <<readServer, connected, down, listed, known, count>>
      /\ chosen' = 0 /\ visible' = visible /\ staleCount' = (staleCount \/ Unlisted)
  BY DEF LeaveChannel
<1> QED
  BY <1>1, FlushInv

LEMMA HidePageInv == ASSUME ReadInv, HidePage PROVE ReadInv'
<1>1. /\ FlushChannel(chosen) /\ UNCHANGED <<readServer, connected, down, listed, known, count>>
      /\ chosen' = chosen /\ visible' = FALSE /\ staleCount' = (staleCount \/ Unlisted)
  BY DEF HidePage
<1> QED
  BY <1>1, FlushInv

LEMMA ThrottleStays ==
    ASSUME ReadInv, up' = up, waiting' = waiting, lastSent' = lastSent, timer' = timer,
           lostMark' = lostMark, lastRead' = lastRead, NEW c \in TextChannels
    PROVE  /\ MarksRight(c)' /\ Promised(c)' = Promised(c)
           /\ HasMark(c)' <=> HasMark(c)
           /\ Claimed(c)' <=> Claimed(c)
           /\ Has(up, "unread")' <=> Has(up, "unread")
<1>1. HasMark(c)' <=> HasMark(c)
  BY DEF HasMark, IsMark
<1>2. MarksRight(c)
  BY DEF ReadInv
<1>3. MarksRight(c)'
  BY <1>1, <1>2 DEF MarksRight, IsMark
<1>4. Claimed(c)' <=> Claimed(c)
  BY <1>1 DEF Claimed
<1>5. Promised(c)' = Promised(c)
  BY DEF Promised
<1>6. Has(up, "unread")' <=> Has(up, "unread")
  BY DEF Has
<1> QED
  BY <1>1, <1>3, <1>4, <1>5, <1>6

LEMMA SaveAndPushInv == ASSUME ReadInv, NEW c \in TextChannels, SaveAndPush(c) PROVE ReadInv'
<1>1. /\ newest' = [newest EXCEPT ![c] = @ + 1]
      /\ missed' = [missed EXCEPT ![c] = @ \/ ~connected]
      /\ lastRead' = lastRead /\ connected' = connected /\ up' = up
      /\ chosen' = chosen /\ visible' = visible /\ listed' = listed
      /\ known' = known /\ count' = count /\ waiting' = waiting /\ lastSent' = lastSent
      /\ recent' = recent /\ timer' = timer /\ lostMark' = lostMark /\ staleCount' = staleCount
      /\ down' = IF connected
                 THEN Append(down, [kind |-> "message", of |-> c, id |-> newest[c] + 1])
                 ELSE down
  BY DEF SaveAndPush, readView, throttle
<1>t. ReadTypeOK
  BY DEF ReadInv
<1>2. /\ newest' \in [TextChannels -> Nat] /\ missed' \in [TextChannels -> BOOLEAN]
      /\ newest[c] \in Nat /\ newest'[c] = newest[c] + 1
      /\ \A d \in TextChannels \ {c} : newest'[d] = newest[d] /\ missed'[d] = missed[d]
      /\ ~missed'[c] => connected /\ ~missed[c]
  <2>1. newest \in [TextChannels -> Nat] /\ missed \in [TextChannels -> BOOLEAN]
    BY <1>t DEF ReadTypeOK
  <2>2. /\ newest' \in [TextChannels -> Nat] /\ newest[c] \in Nat /\ newest'[c] = newest[c] + 1
        /\ \A d \in TextChannels \ {c} : newest'[d] = newest[d]
    BY <1>1, <2>1
  <2>3. /\ missed'[c] = (missed[c] \/ ~connected)
        /\ \A d \in TextChannels \ {c} : missed'[d] = missed[d]
    BY <1>1, <2>1
  <2>4. missed' \in [TextChannels -> BOOLEAN]
    BY <1>1, <2>1
  <2>5. ~missed'[c] => connected /\ ~missed[c]
    BY <2>3
  <2> QED
    BY <2>2, <2>3, <2>4, <2>5
<1>3. PICK e : e = [kind |-> "message", of |-> c, id |-> newest[c] + 1]
  OBVIOUS
<1>4. /\ e \in Frame /\ e.kind = "message" /\ e.of = c /\ e.id = newest[c] + 1
      /\ connected => down' = Append(down, e)
      /\ ~connected => down' = down
  BY <1>1, <1>2, <1>3 DEF Frame
<1>5. PICK q, r : q = down /\ r = down'
  OBVIOUS
<1>6. q \in Seq(Frame) /\ r \in Seq(Frame)
  <2>1. q \in Seq(Frame)
    BY <1>5, <1>t DEF ReadTypeOK
  <2>2. connected => r = Append(q, e)
    BY <1>4, <1>5
  <2>3. ~connected => r = q
    BY <1>4, <1>5
  <2>4. connected => r \in Seq(Frame)
    BY <2>1, <2>2, <1>4, AppendFacts
  <2> QED
    BY <2>1, <2>3, <2>4
<1>7. ReadTypeOK'
  BY <1>1, <1>2, <1>5, <1>6, <1>t DEF ReadTypeOK
<1>8. Refreshing' <=> Refreshing
  <2>1. connected => r = Append(q, e)
    BY <1>4, <1>5
  <2>2. ~connected => r = q
    BY <1>4, <1>5
  <2>3. connected => (Has(r, "counts") <=> Has(q, "counts"))
    BY <2>1, <1>4, <1>6, HasMore
  <2>4. Has(down', "counts") <=> Has(down, "counts")
    BY <2>2, <2>3, <1>5
  <2>5. Has(up', "unread") <=> Has(up, "unread")
    BY <1>1
  <2> QED
    BY <2>4, <2>5 DEF Refreshing
<1>9. \A d \in TextChannels : /\ MarksRight(d)' /\ Promised(d)' = Promised(d)
                              /\ HasMark(d)' <=> HasMark(d)
                              /\ Claimed(d)' <=> Claimed(d)
  BY <1>1, ThrottleStays
<1>10. \A d \in TextChannels : Opening(d)' <=> Opening(d)
  BY <1>1 DEF Opening
<1>11. FetchRight'
  <2>1. CASE connected
    BY <2>1, <1>1, <1>4, <1>8, <1>9, FetchMore
  <2>2. CASE ~connected
    <3>1. \A i \in DOMAIN down' : FALSE
      BY <2>2, <1>4 DEF ReadInv
    <3> QED
      BY <3>1, <1>1, <1>8, <1>9, FetchKept
  <2> QED
    BY <2>1, <2>2
<1>12. ~connected' => up' = <<>> /\ down' = <<>>
  BY <1>1 DEF ReadInv
<1>13. ASSUME NEW d \in TextChannels
       PROVE  /\ Stream(down', newest'[d], d, known[d])
              /\ connected => \A f \in Nat : Front(down, newest[d], d, 0, f) => Front(down', newest'[d], d, 0, f)
  <2>1. /\ Stream(q, newest[d], d, known[d]) /\ newest[d] \in Nat /\ known[d] \in Nat
        /\ known[d] <= newest[d]
    BY <1>5, ReadTypes DEF ReadInv, FramesRight
  <2>2. CASE connected /\ d = c
    <3>1. /\ e \in Frame /\ e.kind = "message" /\ e.of = d /\ e.id = newest[d] + 1 /\ r = Append(q, e)
      BY <2>2, <1>4, <1>5
    <3>2. Stream(r, newest[d] + 1, d, known[d])
      BY <3>1, <2>1, <1>6, StreamSaved
    <3>3. ASSUME NEW f \in Nat, Front(q, newest[d], d, 0, f) PROVE Front(r, newest[d] + 1, d, 0, f)
      <4>1. 0 \in Nat /\ 0 <= Len(q)
        BY <1>6
      <4> QED
        BY <4>1, <3>1, <3>3, <2>1, <1>6, FrontSaved
    <3> QED
      BY <3>2, <3>3, <2>2, <1>2, <1>5
  <2>3. CASE connected /\ d # c
    <3>1. /\ e \in Frame /\ ~(e.kind = "message" /\ e.of = d) /\ e.kind # "page" /\ r = Append(q, e)
      BY <2>3, <1>4, <1>5
    <3>2. Stream(r, newest[d], d, known[d])
      BY <3>1, <2>1, <1>6, StreamMore
    <3>3. ASSUME NEW f \in Nat, Front(q, newest[d], d, 0, f) PROVE Front(r, newest[d], d, 0, f)
      <4>1. 0 \in Nat
        OBVIOUS
      <4> QED
        BY <4>1, <3>1, <3>3, <2>1, <1>6, FrontMore
    <3> QED
      BY <3>2, <3>3, <2>3, <1>2, <1>5
  <2>4. CASE ~connected
    <3>1. down' = <<>>
      BY <2>4, <1>1, <1>12
    <3>2. newest'[d] \in Nat
      BY <1>2
    <3>3. Front(<<>>, newest'[d], d, 0, newest'[d])
      BY <3>2, FrontEmpty
    <3>4. \A i \in DOMAIN <<>> : FALSE
      OBVIOUS
    <3> QED
      BY <3>1, <3>2, <3>3, <3>4, <2>4 DEF Stream
  <2> QED
    BY <2>2, <2>3, <2>4
<1>14. ASSUME NEW d \in TextChannels
       PROVE  ThrottleRight(d)' /\ FramesRight(d)' /\ HeldRight(d)' /\ BadgeRight(d)'
  <2>1. ThrottleRight(d) /\ HeldRight(d) /\ Stream(down, newest[d], d, known[d])
    BY DEF ReadInv, FramesRight
  <2>2. newest'[d] \in Nat /\ newest[d] \in Nat /\ known[d] \in Nat /\ known[d] <= newest[d] /\ newest[d] <= newest'[d]
    BY <1>2, ReadTypes
  <2>3. ThrottleRight(d)'
    <3>1. known'[d] <= newest'[d] /\ Promised(d)' = Promised(d)
      BY <2>2, <1>1, <1>9
    <3> QED
      BY <2>1, <3>1, <1>1 DEF ThrottleRight
  <2>4. FramesRight(d)'
    BY <1>1, <1>13 DEF FramesRight
  <2>5. HeldRight(d)'
    <3> SUFFICES ASSUME ~missed'[d], listed[d] \/ known[d] > 0
                 PROVE  Front(down', newest'[d], d, 0, known[d])
      BY <1>1 DEF HeldRight
    <3>1. CASE connected
      <4>1. ~missed[d]
        BY <1>2
      <4>2. Front(down, newest[d], d, 0, known[d])
        BY <4>1, <2>1 DEF HeldRight
      <4> QED
        BY <4>2, <3>1, <2>2, <1>13
    <3>2. CASE ~connected
      <4>1. d # c /\ ~missed[d]
        BY <3>2, <1>2
      <4>2. Front(down, newest[d], d, 0, known[d]) /\ newest'[d] = newest[d] /\ down' = down
        BY <4>1, <3>2, <2>1, <1>2, <1>4 DEF HeldRight
      <4> QED
        BY <4>2
    <3> QED
      BY <3>1, <3>2
  <2>6. BadgeRight(d)'
    <3>1. CASE connected
      <4>1. \A f \in Nat : Front(down', newest'[d], d, 0, f) => Front(down, newest[d], d, 0, f)
        <5>1. \A f \in Nat : Front(q, newest[d], d, 0, f) => Front(r, newest'[d], d, 0, f)
          BY <3>1, <1>5, <1>13
        <5>2. Stream(q, newest[d], d, known[d])
          BY <2>1, <1>5
        <5>3. \A f \in Nat : Front(r, newest'[d], d, 0, f) => Front(q, newest[d], d, 0, f)
          BY <5>1, <5>2, <2>2, <1>6, FrontBack
        <5> QED
          BY <5>3, <1>5
      <4> QED
        BY <4>1, <1>1, <1>8, <1>9, <1>10, BadgeKept
    <3>2. CASE ~connected
      BY <3>2, <1>1 DEF BadgeRight
    <3> QED
      BY <3>1, <3>2
  <2> QED
    BY <2>3, <2>4, <2>5, <2>6
<1> QED
  BY <1>7, <1>9, <1>11, <1>12, <1>14 DEF ReadInv

\* The first frame is taken, for a channel it says nothing of.
LEMMA TakenOther ==
    ASSUME ReadInv, NEW d \in TextChannels, down # <<>>, down' = Tail(down), newest' = newest,
           known'[d] = known[d], missed'[d] = missed[d], listed'[d] = listed[d],
           Head(down).kind = "counts" \/ Head(down).of # d
    PROVE  /\ FramesRight(d)' /\ HeldRight(d)'
           /\ \A f \in Nat : Front(down', newest'[d], d, 0, f) => Front(down, newest[d], d, 0, f)
<1>1. PICK q, r : q = down /\ r = down'
  OBVIOUS
<1>2. q \in Seq(Frame) /\ q # <<>> /\ r = Tail(q) /\ r \in Seq(Frame)
  BY <1>1 DEF ReadInv, ReadTypeOK
<1>3. Stream(q, newest[d], d, known[d]) /\ HeldRight(d)
  BY <1>1 DEF ReadInv, FramesRight
<1>4. newest[d] \in Nat /\ known[d] \in Nat /\ known[d] <= newest[d]
  BY ReadTypes
<1>5. PICK h : h = Head(q)
  OBVIOUS
<1>6. ~(h.kind = "message" /\ h.of = d)
  BY <1>1, <1>5
<1>7. /\ Stream(r, newest[d], d, known[d])
      /\ \A f \in Nat : Front(q, newest[d], d, 0, f) => Front(r, newest[d], d, 0, f)
  <2>1. Advances(q, r, h, newest[d], d, known[d])
    BY <1>2, <1>3, <1>4, <1>5, StreamTaken
  <2> QED
    BY <2>1, <1>6 DEF Advances
<1>8. \A f \in Nat : Front(r, newest[d], d, 0, f) => Front(q, newest[d], d, 0, f)
  BY <1>2, <1>3, <1>4, <1>7, FrontBack
<1>9. FramesRight(d)'
  BY <1>1, <1>7 DEF FramesRight
<1>10. HeldRight(d)'
  BY <1>1, <1>3, <1>4, <1>7 DEF HeldRight
<1> QED
  BY <1>1, <1>8, <1>9, <1>10

\* A message or a page of c brings the client to its id.
LEMMA TakenOwn ==
    ASSUME ReadInv, NEW c \in TextChannels, down # <<>>, Head(down).kind \in {"message", "page"},
           Head(down).of = c, down' = Tail(down), Learns(c, Head(down).id), newest' = newest
    PROVE  /\ known' \in [TextChannels -> Nat] /\ known'[c] = Head(down).id
           /\ \A d \in TextChannels \ {c} : known'[d] = known[d]
           /\ known[c] <= known'[c] /\ known'[c] <= newest[c] /\ down' \in Seq(Frame)
           /\ FramesRight(c)' /\ HeldRight(c)' /\ Front(down', newest'[c], c, 0, known'[c])
           /\ Head(down).kind = "message" => Front(down, newest[c], c, 0, known'[c] - 1) /\ known'[c] > 0
           /\ Head(down).kind = "page" => Front(down, newest[c], c, 0, known'[c])
           /\ Has(down, "counts")' <=> Has(down, "counts")
<1>1. PICK q, r, h : q = down /\ r = down' /\ h = Head(down)
  OBVIOUS
<1>2. q \in Seq(Frame) /\ q # <<>> /\ r = Tail(q) /\ r \in Seq(Frame) /\ h = Head(q)
  BY <1>1 DEF ReadInv, ReadTypeOK
<1>3. Stream(q, newest[c], c, known[c])
  BY <1>1 DEF ReadInv, FramesRight
<1>4. newest[c] \in Nat /\ known[c] \in Nat /\ known[c] <= newest[c] /\ known \in [TextChannels -> Nat]
  BY ReadTypes DEF ReadInv, ReadTypeOK
<1>5. Advances(q, r, h, newest[c], c, known[c])
  BY <1>2, <1>3, <1>4, StreamTaken
<1>6. h.kind \in {"message", "page"} /\ h.of = c
  BY <1>1
<1>7. /\ h.id \in Nat /\ known[c] <= h.id /\ h.id <= newest[c]
      /\ h.kind = "message" => known[c] < h.id
      /\ Front(r, newest[c], c, 0, h.id) /\ Stream(r, newest[c], c, h.id)
      /\ h.kind = "page" => Front(q, newest[c], c, 0, h.id)
      /\ h.kind = "message" => Front(q, newest[c], c, 0, h.id - 1)
  BY <1>5, <1>6 DEF Advances
<1>8. known' = [known EXCEPT ![c] = IF h.id > known[c] THEN h.id ELSE known[c]]
  BY <1>1 DEF Learns
<1>9. known' \in [TextChannels -> Nat] /\ known'[c] = h.id /\ \A d \in TextChannels \ {c} : known'[d] = known[d]
  BY <1>4, <1>7, <1>8
<1>10. FramesRight(c)' /\ HeldRight(c)' /\ Front(down', newest'[c], c, 0, known'[c])
  BY <1>1, <1>7, <1>9 DEF FramesRight, HeldRight
<1>11. Has(down, "counts")' <=> Has(down, "counts")
  <2>1. Has(q, "counts") <=> Has(r, "counts")
    BY <1>2, <1>6, HasTaken
  <2> QED
    BY <2>1, <1>1
<1>12. h.kind = "message" => h.id > 0
  BY <1>4, <1>7
<1>13. /\ h.kind = "page" => Front(down, newest[c], c, 0, known'[c])
       /\ h.kind = "message" => Front(down, newest[c], c, 0, known'[c] - 1)
  BY <1>1, <1>7, <1>9
<1> QED
  BY <1>1, <1>2, <1>7, <1>9, <1>10, <1>11, <1>12, <1>13

LEMMA TakenMarked ==
    ASSUME ReadInv, NEW c \in TextChannels, down # <<>>, Head(down).kind \in {"message", "page"},
           Head(down).of = c, down' = Tail(down), Learns(c, Head(down).id),
           c = chosen, visible, MarkChannelRead(c, Head(down).id),
           newest' = newest, lastRead' = lastRead, connected' = connected,
           chosen' = chosen, visible' = visible,
           missed' \in [TextChannels -> BOOLEAN], listed' \in [TextChannels -> BOOLEAN],
           missed'[c] => missed[c],
           \A d \in TextChannels \ {c} : missed'[d] = missed[d] /\ listed'[d] = listed[d]
    PROVE  ReadInv'
<1>1. /\ known' \in [TextChannels -> Nat] /\ known'[c] = Head(down).id
      /\ \A d \in TextChannels \ {c} : known'[d] = known[d]
      /\ known[c] <= known'[c] /\ known'[c] <= newest[c] /\ down' \in Seq(Frame)
      /\ FramesRight(c)' /\ HeldRight(c)'
      /\ Has(down, "counts")' <=> Has(down, "counts")
  BY TakenOwn
<1>2. PICK id \in Nat : id = known'[c]
  BY <1>1
<1>3. MarkChannelRead(c, id) /\ Promised(c) <= id /\ id <= newest[c]
  <2>1. Promised(c) <= known[c] /\ Promised(c) \in Nat /\ known[c] \in Nat
    BY ReadTypes
  <2> QED
    BY <2>1, <1>1, <1>2
<1>4. /\ up' \in Seq(Request)
      /\ waiting' \in [TextChannels -> Nat] /\ lastSent' \in [TextChannels -> Nat]
      /\ recent' \in [TextChannels -> BOOLEAN] /\ timer' \in [TextChannels -> BOOLEAN]
      /\ lostMark' \in [TextChannels -> BOOLEAN]
      /\ count' \in [TextChannels -> Nat] /\ staleCount' \in BOOLEAN
      /\ \A d \in TextChannels : ThrottleRight(d)' /\ MarksRight(d)'
      /\ count'[c] = 0 /\ Promised(c)' = id
      /\ \A d \in TextChannels \ {c} :
           /\ count'[d] = count[d] /\ Promised(d)' = Promised(d)
           /\ Claimed(d)' <=> Claimed(d)
      /\ ~staleCount' => ~staleCount /\ ~Refreshing /\ ~missed[c]
      /\ Has(up, "unread")' <=> Has(up, "unread")
      /\ ~connected => up' = up
  BY <1>1, <1>2, <1>3, MarkFacts
<1>5. ReadTypeOK'
  <2>1. ReadTypeOK
    BY DEF ReadInv
  <2> QED
    BY <2>1, <1>1, <1>4 DEF ReadTypeOK
<1>6. Refreshing' <=> Refreshing
  BY <1>1, <1>4 DEF Refreshing
<1>7. FetchRight'
  BY <1>4, <1>6 DEF FetchRight
<1>8. ~connected' => up' = <<>> /\ down' = <<>>
  BY DEF ReadInv
<1>9. BadgeRight(c)'
  <2>1. newest'[c] \in Nat /\ known'[c] \in Nat /\ Promised(c)' = known'[c]
    BY <1>1, <1>2, <1>4, ReadTypes
  <2>2. ~staleCount' => ~missed'[c]
    BY <1>4
  <2>3. chosen' = c /\ visible' = TRUE
    BY DEF ReadInv, ReadTypeOK
  <2> QED
    BY <2>1, <2>2, <2>3, <1>1, <1>4, MarkBadge
<1>10. ASSUME NEW d \in TextChannels \ {c}
       PROVE  FramesRight(d)' /\ HeldRight(d)' /\ BadgeRight(d)'
  <2>1. /\ FramesRight(d)' /\ HeldRight(d)'
        /\ \A f \in Nat : Front(down', newest'[d], d, 0, f) => Front(down, newest[d], d, 0, f)
    BY <1>1, TakenOther
  <2>2. Opening(d)' <=> Opening(d)
    BY DEF Opening
  <2>3. BadgeRight(d)'
    BY <2>1, <2>2, <1>4, <1>6, BadgeKept
  <2> QED
    BY <2>1, <2>3
<1> QED
  BY <1>1, <1>4, <1>5, <1>7, <1>8, <1>9, <1>10 DEF ReadInv

LEMMA TakenUnmarked ==
    ASSUME ReadInv, NEW c \in TextChannels, down # <<>>, Head(down).kind \in {"message", "page"},
           Head(down).of = c, down' = Tail(down), Learns(c, Head(down).id),
           c = chosen /\ visible => known'[c] = Promised(c), BadgeRight(c)',
           newest' = newest, lastRead' = lastRead, connected' = connected,
           chosen' = chosen, visible' = visible, UNCHANGED <<up, throttle, staleCount>>,
           missed' \in [TextChannels -> BOOLEAN], listed' \in [TextChannels -> BOOLEAN],
           count' \in [TextChannels -> Nat],
           \A d \in TextChannels \ {c} :
             missed'[d] = missed[d] /\ listed'[d] = listed[d] /\ count'[d] = count[d]
    PROVE  ReadInv'
<1>1. /\ known' \in [TextChannels -> Nat] /\ known'[c] = Head(down).id
      /\ \A d \in TextChannels \ {c} : known'[d] = known[d]
      /\ known[c] <= known'[c] /\ known'[c] <= newest[c] /\ down' \in Seq(Frame)
      /\ FramesRight(c)' /\ HeldRight(c)'
      /\ Has(down, "counts")' <=> Has(down, "counts")
  BY TakenOwn
<1>2. /\ up' = up /\ waiting' = waiting /\ lastSent' = lastSent /\ recent' = recent /\ timer' = timer
      /\ lostMark' = lostMark /\ staleCount' = staleCount
  BY DEF throttle
<1>3. \A d \in TextChannels : /\ MarksRight(d)' /\ Promised(d)' = Promised(d)
                              /\ HasMark(d)' <=> HasMark(d)
                              /\ Claimed(d)' <=> Claimed(d)
                              /\ Has(up, "unread")' <=> Has(up, "unread")
  BY <1>2, ThrottleStays
<1>4. Refreshing' <=> Refreshing
  BY <1>1, <1>3 DEF Refreshing
<1>5. ReadTypeOK'
  <2>1. ReadTypeOK
    BY DEF ReadInv
  <2> QED
    BY <2>1, <1>1, <1>2 DEF ReadTypeOK
<1>6. FetchRight'
  BY <1>2, <1>3, <1>4, FetchTaken
<1>7. ~connected' => up' = <<>> /\ down' = <<>>
  BY DEF ReadInv
<1>8. ThrottleRight(c)'
  <2>1. ThrottleRight(c)
    BY DEF ReadInv
  <2>2. /\ Promised(c)' = Promised(c) /\ Promised(c)' <= known'[c] /\ known'[c] <= newest'[c]
    <3>1. Promised(c) <= known[c] /\ Promised(c) \in Nat /\ known[c] \in Nat
      BY ReadTypes
    <3>2. Promised(c)' = Promised(c)
      BY <1>3
    <3> QED
      BY <3>1, <3>2, <1>1
  <2>3. /\ waiting'[c] # 0 <=> timer'[c]
        /\ timer'[c] => c = chosen' /\ visible' /\ waiting'[c] > lastSent'[c]
        /\ lastRead'[c] <= lastSent'[c]
    BY <2>1, <1>2 DEF ThrottleRight
  <2> QED
    BY <2>2, <2>3 DEF ThrottleRight
<1>9. ASSUME NEW d \in TextChannels \ {c}
      PROVE  ThrottleRight(d)' /\ FramesRight(d)' /\ HeldRight(d)' /\ BadgeRight(d)'
  <2>1. /\ FramesRight(d)' /\ HeldRight(d)'
        /\ \A f \in Nat : Front(down', newest'[d], d, 0, f) => Front(down, newest[d], d, 0, f)
    BY <1>1, TakenOther
  <2>2. Opening(d)' <=> Opening(d)
    BY DEF Opening
  <2>3. BadgeRight(d)'
    BY <2>1, <2>2, <1>2, <1>3, <1>4, BadgeKept
  <2>4. ThrottleRight(d)
    BY DEF ReadInv
  <2>5. known'[d] = known[d] /\ Promised(d)' = Promised(d)
    BY <1>1, <1>3
  <2>6. ThrottleRight(d)'
    BY <2>4, <2>5, <1>2 DEF ThrottleRight
  <2> QED
    BY <2>1, <2>3, <2>6
<1> QED
  BY <1>1, <1>3, <1>5, <1>6, <1>7, <1>8, <1>9 DEF ReadInv

LEMMA ReceiveUnreadInv == ASSUME ReadInv, NEW c \in TextChannels, ReceiveUnread(c) PROVE ReadInv'
<1>1. /\ down # <<>> /\ Head(down).kind = "message" /\ Head(down).of = c
      /\ down' = Tail(down) /\ Learns(c, Head(down).id)
      /\ ReceiveRead(c) \/ CountsUnread(c)
      /\ newest' = newest /\ lastRead' = lastRead /\ missed' = missed /\ connected' = connected
      /\ chosen' = chosen /\ visible' = visible /\ listed' = listed
  BY DEF ReceiveUnread, MessageOf, readServer, readView
<1>t. ReadTypeOK
  BY DEF ReadInv
<1>2. missed' \in [TextChannels -> BOOLEAN] /\ listed' \in [TextChannels -> BOOLEAN]
  BY <1>1, <1>t DEF ReadTypeOK
<1>3. CASE ReceiveRead(c)
  <2>1. c = chosen /\ visible /\ MarkChannelRead(c, Head(down).id)
    BY <1>3 DEF ReceiveRead
  <2> QED
    BY <2>1, <1>1, <1>2, TakenMarked
<1>4. CASE CountsUnread(c)
  <2>1. /\ c # chosen \/ ~visible
        /\ count' = [count EXCEPT ![c] = @ + 1] /\ UNCHANGED <<up, throttle, staleCount>>
    BY <1>4 DEF CountsUnread
  <2>2. /\ count' \in [TextChannels -> Nat] /\ count'[c] = count[c] + 1 /\ count[c] \in Nat
        /\ \A d \in TextChannels \ {c} : count'[d] = count[d]
    BY <2>1, <1>t DEF ReadTypeOK
  <2>3. /\ known'[c] \in Nat /\ known'[c] > 0 /\ down' \in Seq(Frame)
        /\ Front(down', newest'[c], c, 0, known'[c]) /\ Front(down, newest[c], c, 0, known'[c] - 1)
        /\ Has(down, "counts")' <=> Has(down, "counts")
    <3>1. Head(down).kind \in {"message", "page"}
      BY <1>1
    <3> QED
      BY <3>1, <1>1, TakenOwn
  <2>4. BadgeRight(c)'
    <3> SUFFICES ASSUME connected', ~Refreshing', ~staleCount', NEW f \in Nat,
                        Front(down', newest'[c], c, 0, f), Claimed(c)'
                 PROVE  count'[c] + Promised(c)' = f
      <4>1. ~Opening(c)'
        BY <1>1, <2>1 DEF Opening
      <4> QED
        BY <4>1 DEF BadgeRight
    <3>1. /\ up' = up /\ waiting' = waiting /\ lastSent' = lastSent /\ timer' = timer
          /\ lostMark' = lostMark /\ staleCount' = staleCount
      BY <2>1 DEF throttle
    <3>2. /\ Promised(c)' = Promised(c) /\ Claimed(c)
          /\ Has(up, "unread")' <=> Has(up, "unread")
      BY <3>1, <1>1, ThrottleStays
    <3>3. connected /\ ~Refreshing /\ ~staleCount /\ ~Opening(c)
      BY <3>1, <3>2, <2>1, <2>3, <1>1 DEF Refreshing, Opening
    <3>4. f = known'[c]
      BY <2>3, <1>1, ReadTypes, FrontOne
    <3>5. count[c] + Promised(c) = known'[c] - 1
      <4>1. BadgeRight(c)
        BY DEF ReadInv
      <4>2. known'[c] - 1 \in Nat
        BY <2>3
      <4> QED
        BY <4>1, <4>2, <3>2, <3>3, <2>3 DEF BadgeRight
    <3>6. Promised(c) \in Nat
      BY ReadTypes
    <3> QED
      BY <3>2, <3>4, <3>5, <3>6, <2>2, <2>3
  <2> QED
    BY <2>1, <2>2, <2>4, <1>1, <1>2, TakenUnmarked
<1> QED
  BY <1>1, <1>3, <1>4

\* A message that was dropped goes by: the client knows what it knew.
LEMMA MissesInv == ASSUME ReadInv, NEW c \in TextChannels, Misses(c) PROVE ReadInv'
<1>1. /\ down # <<>> /\ Head(down).kind = "message" /\ Head(down).of = c
      /\ down' = Tail(down) /\ missed' = [missed EXCEPT ![c] = TRUE] /\ staleCount' = TRUE
      /\ newest' = newest /\ lastRead' = lastRead /\ connected' = connected /\ up' = up
      /\ chosen' = chosen /\ visible' = visible /\ listed' = listed
      /\ known' = known /\ count' = count /\ waiting' = waiting /\ lastSent' = lastSent
      /\ recent' = recent /\ timer' = timer /\ lostMark' = lostMark
  BY DEF Misses, MessageOf, readView, throttle
<1>t. ReadTypeOK
  BY DEF ReadInv
<1>2. /\ missed' \in [TextChannels -> BOOLEAN] /\ missed'[c]
      /\ \A d \in TextChannels \ {c} : missed'[d] = missed[d]
  BY <1>1, <1>t DEF ReadTypeOK
<1>3. PICK q, r, h : q = down /\ r = down' /\ h = Head(down)
  OBVIOUS
<1>4. q \in Seq(Frame) /\ q # <<>> /\ r = Tail(q) /\ r \in Seq(Frame) /\ h = Head(q)
  BY <1>1, <1>3, <1>t DEF ReadTypeOK
<1>5. newest[c] \in Nat /\ known[c] \in Nat /\ known[c] <= newest[c]
  BY ReadTypes
<1>6. Stream(q, newest[c], c, known[c])
  BY <1>3 DEF ReadInv, FramesRight
<1>7. /\ h.id \in Nat /\ known[c] < h.id /\ Stream(r, newest[c], c, h.id)
      /\ \A i \in DOMAIN r : r[i] \in Frame
  <2>1. Advances(q, r, h, newest[c], c, known[c])
    BY <1>4, <1>5, <1>6, StreamTaken
  <2>2. h.kind = "message" /\ h.of = c
    BY <1>1, <1>3
  <2> QED
    BY <2>1, <2>2, <1>4 DEF Advances
<1>8. Stream(r, newest[c], c, known[c])
  <2>1. ASSUME NEW i \in DOMAIN r, IsMessage(r, i, c) PROVE r[i].id > known[c]
    <3>1. r[i].id > h.id
      BY <2>1, <1>7 DEF Stream
    <3>2. r[i].id \in Nat
      BY <2>1, <1>7, FrameFacts DEF IsMessage
    <3> QED
      BY <3>1, <3>2, <1>5, <1>7
  <2> QED
    BY <2>1, <1>7 DEF Stream
<1>9. ReadTypeOK'
  BY <1>1, <1>2, <1>3, <1>4, <1>t DEF ReadTypeOK
<1>10. FetchRight'
  BY <1>1 DEF FetchRight
<1>11. ~connected' => up' = <<>> /\ down' = <<>>
  BY <1>1 DEF ReadInv
<1>12. ASSUME NEW d \in TextChannels
       PROVE  ThrottleRight(d)' /\ MarksRight(d)' /\ FramesRight(d)' /\ HeldRight(d)' /\ BadgeRight(d)'
  <2>1. ThrottleRight(d)
    BY DEF ReadInv
  <2>2. MarksRight(d)' /\ Promised(d)' = Promised(d)
    BY <1>1, ThrottleStays
  <2>3. ThrottleRight(d)'
    BY <2>1, <2>2, <1>1 DEF ThrottleRight
  <2>4. FramesRight(d)' /\ HeldRight(d)'
    <3>1. CASE d = c
      <4>1. FramesRight(c)'
        BY <1>1, <1>3, <1>8 DEF FramesRight
      <4>2. HeldRight(c)'
        BY <1>2 DEF HeldRight
      <4> QED
        BY <3>1, <4>1, <4>2
    <3>2. CASE d # c
      BY <3>2, <1>1, <1>2, TakenOther
    <3> QED
      BY <3>1, <3>2
  <2>5. BadgeRight(d)'
    BY <1>1 DEF BadgeRight
  <2> QED
    BY <2>2, <2>3, <2>4, <2>5
<1> QED
  BY <1>9, <1>10, <1>11, <1>12 DEF ReadInv

LEMMA ReceiveHistoryInv == ASSUME ReadInv, NEW c \in TextChannels, ReceiveHistory(c) PROVE ReadInv'
<1>1. /\ down # <<>> /\ Head(down).kind = "page" /\ Head(down).of = c
      /\ down' = Tail(down) /\ Learns(c, Head(down).id)
      /\ listed' = [listed EXCEPT ![c] = TRUE] /\ missed' = [missed EXCEPT ![c] = FALSE]
      /\ newest' = newest /\ lastRead' = lastRead /\ connected' = connected
      /\ chosen' = chosen /\ visible' = visible
  BY DEF ReceiveHistory
<1>t. ReadTypeOK
  BY DEF ReadInv
<1>2. /\ missed' \in [TextChannels -> BOOLEAN] /\ listed' \in [TextChannels -> BOOLEAN]
      /\ ~missed'[c] /\ listed'[c]
      /\ \A d \in TextChannels \ {c} : missed'[d] = missed[d] /\ listed'[d] = listed[d]
  BY <1>1, <1>t DEF ReadTypeOK
<1>3. /\ known'[c] = Head(down).id /\ known'[c] \in Nat /\ down' \in Seq(Frame)
      /\ known[c] <= known'[c]
      /\ Front(down', newest'[c], c, 0, known'[c]) /\ Front(down, newest[c], c, 0, known'[c])
      /\ Has(down, "counts")' <=> Has(down, "counts")
  <2>1. Head(down).kind \in {"message", "page"}
    BY <1>1
  <2> QED
    BY <2>1, <1>1, TakenOwn
<1>4. CASE c = chosen /\ visible /\ known'[c] > 0
  <2>1. MarkChannelRead(c, known'[c])
    BY <1>4 DEF ReceiveHistory
  <2>2. MarkChannelRead(c, Head(down).id)
    BY <2>1, <1>3
  <2> QED
    BY <2>2, <1>1, <1>2, <1>4, TakenMarked
<1>5. CASE ~(c = chosen /\ visible /\ known'[c] > 0)
  <2>1. UNCHANGED <<count, up, throttle, staleCount>>
    BY <1>5 DEF ReceiveHistory
  <2>2. /\ up' = up /\ waiting' = waiting /\ lastSent' = lastSent /\ timer' = timer
        /\ lostMark' = lostMark /\ staleCount' = staleCount /\ count' = count
    BY <2>1 DEF throttle
  <2>3. /\ Promised(c)' = Promised(c)
        /\ Claimed(c)' <=> Claimed(c)
        /\ Has(up, "unread")' <=> Has(up, "unread")
    BY <2>2, <1>1, ThrottleStays
  <2>4. Promised(c) \in Nat /\ Promised(c) <= known[c] /\ known[c] \in Nat
    BY ReadTypes
  <2>5. c = chosen /\ visible => known'[c] = 0 /\ Promised(c) = 0
    BY <2>4, <1>3, <1>5
  <2>6. BadgeRight(c)'
    <3> SUFFICES ASSUME connected', ~Refreshing', ~staleCount', NEW f \in Nat,
                        Front(down', newest'[c], c, 0, f), Claimed(c)'
                 PROVE  count'[c] + Promised(c)' = f
      <4>1. ~Opening(c)'
        BY <1>2 DEF Opening
      <4> QED
        BY <4>1 DEF BadgeRight
    <3>1. connected /\ ~Refreshing /\ ~staleCount /\ Claimed(c)
      BY <2>2, <2>3, <1>1, <1>3 DEF Refreshing
    <3>2. f = known'[c]
      BY <1>1, <1>3, ReadTypes, FrontOne
    <3>3. BadgeRight(c)
      BY DEF ReadInv
    <3>4. CASE Opening(c)
      <4>1. known'[c] = 0 /\ Promised(c) = 0
        BY <3>4, <2>5 DEF Opening
      <4>2. count[c] = 0
        BY <3>1, <3>3, <3>4, <4>1, <1>3 DEF BadgeRight
      <4> QED
        BY <4>1, <4>2, <3>2, <2>2, <2>3
    <3>5. CASE ~Opening(c)
      <4>1. count[c] + Promised(c) = known'[c]
        BY <3>1, <3>3, <3>5, <1>3 DEF BadgeRight
      <4> QED
        BY <4>1, <3>2, <2>2, <2>3
    <3> QED
      BY <3>4, <3>5
  <2>7. c = chosen /\ visible => known'[c] = Promised(c)
    BY <2>5
  <2>8. count' \in [TextChannels -> Nat]
    BY <2>2, <1>t DEF ReadTypeOK
  <2>9. Head(down).kind \in {"message", "page"}
    BY <1>1
  <2>10. \A d \in TextChannels \ {c} : missed'[d] = missed[d] /\ listed'[d] = listed[d] /\ count'[d] = count[d]
    BY <1>2, <2>2
  <2> QED
    BY <2>1, <2>6, <2>7, <2>8, <2>9, <2>10, <1>1, <1>2, TakenUnmarked
<1> QED
  BY <1>4, <1>5

\* The counters come: nothing of what they count has changed since.
LEMMA ReceiveCountsInv == ASSUME ReadInv, ReceiveCounts PROVE ReadInv'
<1>1. /\ down # <<>> /\ Head(down).kind = "counts" /\ down' = Tail(down)
      /\ count' = Head(down).counts
      /\ newest' = newest /\ lastRead' = lastRead /\ missed' = missed /\ connected' = connected
      /\ up' = up /\ chosen' = chosen /\ visible' = visible /\ listed' = listed
      /\ known' = known /\ waiting' = waiting /\ lastSent' = lastSent
      /\ recent' = recent /\ timer' = timer /\ lostMark' = lostMark /\ staleCount' = staleCount
  BY DEF ReceiveCounts, TakeCounts, readServer, readView, throttle
<1>t. ReadTypeOK
  BY DEF ReadInv
<1>2. PICK q, r, h : q = down /\ r = down' /\ h = Head(down)
  OBVIOUS
<1>3. /\ q \in Seq(Frame) /\ q # <<>> /\ r = Tail(q) /\ r \in Seq(Frame) /\ h = Head(q)
      /\ 1 \in DOMAIN q /\ h = q[1] /\ h \in Frame /\ h.kind = "counts"
  <2>1. q \in Seq(Frame) /\ q # <<>> /\ r = Tail(q) /\ h = Head(q) /\ h.kind = "counts"
    BY <1>1, <1>2, <1>t DEF ReadTypeOK
  <2>2. r \in Seq(Frame) /\ 1 \in DOMAIN q /\ Head(q) = q[1] /\ q[1] \in Frame
    BY <2>1, TakenFacts
  <2> QED
    BY <2>1, <2>2
<1>4. h.counts \in [TextChannels -> Nat] /\ count' = h.counts
  BY <1>1, <1>2, <1>3, FrameFacts
<1>5. ReadTypeOK'
  BY <1>1, <1>2, <1>3, <1>4, <1>t DEF ReadTypeOK
<1>6. \A d \in TextChannels : /\ MarksRight(d)' /\ Promised(d)' = Promised(d)
                              /\ HasMark(d)' <=> HasMark(d)
                              /\ Claimed(d)' <=> Claimed(d)
                              /\ Has(up, "unread")' <=> Has(up, "unread")
  BY <1>1, ThrottleStays
<1>7. Has(down, "counts")
  BY <1>2, <1>3, HasTaken
<1>8. FetchRight'
  <2>1. Refreshing
    BY <1>7 DEF Refreshing
  <2> QED
    BY <2>1, <1>1, <1>6, FetchTaken
<1>9. ~connected' => up' = <<>> /\ down' = <<>>
  BY <1>1 DEF ReadInv
<1>10. ASSUME NEW d \in TextChannels
       PROVE  ThrottleRight(d)' /\ FramesRight(d)' /\ HeldRight(d)' /\ BadgeRight(d)'
  <2>1. ThrottleRight(d)
    BY DEF ReadInv
  <2>2. ThrottleRight(d)'
    BY <2>1, <1>1, <1>6 DEF ThrottleRight
  <2>3. /\ FramesRight(d)' /\ HeldRight(d)'
        /\ \A f \in Nat : Front(down', newest'[d], d, 0, f) => Front(down, newest[d], d, 0, f)
    BY <1>1, TakenOther
  <2>4. BadgeRight(d)'
    <3> SUFFICES ASSUME ~staleCount', NEW f \in Nat, Front(down', newest'[d], d, 0, f)
                 PROVE  IF Opening(d)' THEN f = 0 => count'[d] = 0
                                       ELSE Claimed(d)' => count'[d] + Promised(d)' = f
      BY DEF BadgeRight
    <3>1. /\ ~timer[d] /\ ~HasMark(d)
          /\ \A i \in DOMAIN down : down[i].kind = "counts" => Counted(i, d)
      <4>1. Refreshing /\ ~staleCount
        BY <1>1, <1>7 DEF Refreshing
      <4> QED
        BY <4>1 DEF ReadInv, FetchRight
    <3>2. Counted(1, d)
      BY <3>1, <1>2, <1>3
    <3>3. PICK g \in Nat : Front(q, newest[d], d, 1, g) /\ h.counts[d] + lastRead[d] = g
      BY <3>2, <1>2, <1>3 DEF Counted
    <3>4. Front(r, newest[d], d, 0, g)
      <4>1. 0 \in Nat /\ 1 = 0 + 1
        OBVIOUS
      <4>2. newest[d] \in Nat
        BY ReadTypes
      <4>3. Front(q, newest[d], d, 0 + 1, g)
        BY <3>3, <4>1
      <4> QED
        BY ONLY <4>1, <4>2, <4>3, <1>3, g \in Nat, FrontTaken
    <3>5. f = g
      <4>1. newest[d] \in Nat /\ Front(r, newest[d], d, 0, f)
        BY <1>1, <1>2, ReadTypes
      <4> QED
        BY ONLY <4>1, <3>4, <1>3, f \in Nat, g \in Nat, FrontOne
    <3>6. count'[d] + lastRead[d] = f /\ count'[d] \in Nat /\ lastRead[d] \in Nat
      BY <3>3, <3>5, <1>4, ReadTypes
    <3>7. Claimed(d)' => Promised(d)' = lastRead[d]
      <4>1. Claimed(d)' => ~lostMark[d]
        BY <3>1, <1>6 DEF Claimed
      <4>2. ~lostMark[d] => lastRead[d] = lastSent[d]
        BY <3>1 DEF ReadInv, MarksRight
      <4>3. Promised(d)' = lastSent[d]
        BY <3>1, <1>6 DEF Promised
      <4> QED
        BY <4>1, <4>2, <4>3
    <3>8. f = 0 => count'[d] = 0
      BY <3>6
    <3> QED
      BY <3>6, <3>7, <3>8
  <2> QED
    BY <2>2, <2>3, <2>4
<1> QED
  BY <1>5, <1>6, <1>8, <1>9, <1>10 DEF ReadInv

\* What the effect does when a channel comes into view.
LEMMA LookAtInv ==
    ASSUME ReadInv, NEW c \in TextChannels, LookAt(c), chosen \in {0, c}, chosen = 0 \/ ~visible,
           chosen' = c, visible' = TRUE, UNCHANGED <<readServer, connected, down, listed, known>>
    PROVE  ReadInv'
<1>1. /\ newest' = newest /\ lastRead' = lastRead /\ missed' = missed /\ connected' = connected
      /\ down' = down /\ listed' = listed /\ known' = known
  BY DEF readServer
<1>t. ReadTypeOK
  BY DEF ReadInv
<1>2. \A d \in TextChannels : FramesRight(d)' /\ HeldRight(d)'
  BY <1>1, SameFrames
<1>3. \A d \in TextChannels \ {c} : Opening(d)' <=> Opening(d)
  <2>1. ASSUME NEW d \in TextChannels \ {c} PROVE ~Opening(d)' /\ ~Opening(d)
    BY ReadAssumption DEF Opening
  <2> QED
    BY <2>1
<1>4. ~connected' => down' = <<>>
  BY <1>1 DEF ReadInv
<1>5. known[c] \in Nat /\ Promised(c) \in Nat /\ Promised(c) <= known[c] /\ known[c] <= newest[c]
      /\ newest[c] \in Nat
  BY ReadTypes
<1>6. CASE known[c] > 0
  <2>1. PICK id \in Nat : id = known[c]
    BY <1>5
  <2>2. MarkChannelRead(c, id) /\ Promised(c) <= id /\ id <= newest[c] /\ known'[c] = id
    BY <2>1, <1>1, <1>5, <1>6 DEF LookAt
  <2>3. known' \in [TextChannels -> Nat] /\ \A d \in TextChannels \ {c} : known'[d] = known[d]
    BY <1>1, <1>t DEF ReadTypeOK
  <2>4. /\ up' \in Seq(Request)
        /\ waiting' \in [TextChannels -> Nat] /\ lastSent' \in [TextChannels -> Nat]
        /\ recent' \in [TextChannels -> BOOLEAN] /\ timer' \in [TextChannels -> BOOLEAN]
        /\ lostMark' \in [TextChannels -> BOOLEAN]
        /\ count' \in [TextChannels -> Nat] /\ staleCount' \in BOOLEAN
        /\ \A d \in TextChannels : ThrottleRight(d)' /\ MarksRight(d)'
        /\ count'[c] = 0 /\ Promised(c)' = id
        /\ \A d \in TextChannels \ {c} :
             /\ count'[d] = count[d] /\ Promised(d)' = Promised(d)
             /\ Claimed(d)' <=> Claimed(d)
        /\ ~staleCount' => ~staleCount /\ ~Refreshing /\ ~missed[c]
        /\ Has(up, "unread")' <=> Has(up, "unread")
        /\ ~connected => up' = up
    BY <2>2, <2>3, <1>1, MarkFacts
  <2>5. ReadTypeOK'
    BY <2>4, <1>1, <1>t DEF ReadTypeOK
  <2>6. Refreshing' <=> Refreshing
    <3>1. Has(down, "counts")' <=> Has(down, "counts")
      BY <1>1 DEF Has
    <3> QED
      BY <3>1, <2>4 DEF Refreshing
  <2>7. FetchRight'
    BY <2>4, <2>6 DEF FetchRight
  <2>8. ~connected' => up' = <<>>
    BY <2>4, <1>1 DEF ReadInv
  <2>9. BadgeRight(c)'
    <3>1. down' \in Seq(Frame) /\ newest'[c] \in Nat /\ known'[c] \in Nat /\ Promised(c)' = known'[c]
      BY <2>2, <2>4, <2>5, <1>1, <1>5 DEF ReadTypeOK
    <3>2. ~staleCount' => ~missed'[c]
      BY <2>4, <1>1
    <3> QED
      BY <3>1, <3>2, <2>4, <1>2, MarkBadge
  <2>10. \A d \in TextChannels \ {c} : BadgeRight(d)'
    BY <2>4, <2>6, <1>1, <1>3, BadgeKept
  <2> QED
    BY <2>4, <2>5, <2>7, <2>8, <2>9, <2>10, <1>2, <1>4 DEF ReadInv
<1>7. CASE known[c] = 0
  <2>1. /\ count' = [count EXCEPT ![c] = 0] /\ staleCount' = (staleCount \/ missed[c])
        /\ up' = up /\ waiting' = waiting /\ lastSent' = lastSent /\ recent' = recent
        /\ timer' = timer /\ lostMark' = lostMark
    BY <1>7 DEF LookAt, throttle
  <2>2. \A d \in TextChannels : /\ MarksRight(d)' /\ Promised(d)' = Promised(d)
                                /\ HasMark(d)' <=> HasMark(d)
                                /\ Claimed(d)' <=> Claimed(d)
                                /\ Has(up, "unread")' <=> Has(up, "unread")
    BY <2>1, <1>1, ThrottleStays
  <2>3. /\ count' \in [TextChannels -> Nat] /\ count'[c] = 0
        /\ \A d \in TextChannels \ {c} : count'[d] = count[d]
    BY <2>1, <1>t DEF ReadTypeOK
  <2>4. ReadTypeOK'
    <3>1. staleCount' \in BOOLEAN
      BY <2>1
    <3> QED
      BY <3>1, <2>1, <2>3, <1>1, <1>t DEF ReadTypeOK
  <2>5. Refreshing' <=> Refreshing
    <3>1. Has(down, "counts")' <=> Has(down, "counts")
      BY <1>1 DEF Has
    <3> QED
      BY <3>1, <2>2 DEF Refreshing
  <2>6. ~staleCount' => ~staleCount /\ ~missed[c]
    BY <2>1
  <2>7. FetchRight'
    BY <2>1, <2>2, <2>5, <2>6, <1>1, FetchStays
  <2>8. ~connected' => up' = <<>>
    BY <2>1, <1>1 DEF ReadInv
  <2>9. Promised(c)' = 0 /\ known'[c] = 0
    BY <2>2, <1>1, <1>5, <1>7
  <2>10. BadgeRight(c)'
    <3>1. down' \in Seq(Frame) /\ newest'[c] \in Nat /\ known'[c] \in Nat /\ Promised(c)' = known'[c]
      BY <2>4, <2>9, <1>1, <1>5 DEF ReadTypeOK
    <3>2. ~staleCount' => ~missed'[c]
      BY <2>6, <1>1
    <3> QED
      BY <3>1, <3>2, <2>3, <1>2, MarkBadge
  <2>11. \A d \in TextChannels \ {c} : BadgeRight(d)'
    BY <2>2, <2>3, <2>5, <2>6, <1>1, <1>3, BadgeKept
  <2>12. ASSUME NEW d \in TextChannels PROVE ThrottleRight(d)'
    <3>1. ThrottleRight(d) /\ d # 0
      BY ReadAssumption DEF ReadInv
    <3>2. ~timer[d]
      BY <3>1 DEF ThrottleRight
    <3>3. d = chosen' => known'[d] = Promised(d)'
      BY <2>9
    <3> QED
      BY <3>1, <3>2, <3>3, <2>1, <2>2, <1>1 DEF ThrottleRight
  <2> QED
    BY <2>2, <2>4, <2>7, <2>8, <2>10, <2>11, <2>12, <1>2, <1>4 DEF ReadInv
<1> QED
  BY <1>5, <1>6, <1>7

\* A step that only changes what is in view, while nothing is.
LEMMA HiddenInv ==
    ASSUME ReadInv, UNCHANGED <<readServer, connected, down, listed, known, count, up, throttle, staleCount>>,
           chosen' \in TextChannels \union {0}, visible' \in BOOLEAN,
           chosen = 0 \/ ~visible, chosen' = 0 \/ ~visible'
    PROVE  ReadInv'
<1>1. /\ newest' = newest /\ lastRead' = lastRead /\ missed' = missed /\ connected' = connected
      /\ down' = down /\ listed' = listed /\ known' = known /\ count' = count /\ up' = up
      /\ waiting' = waiting /\ lastSent' = lastSent /\ recent' = recent /\ timer' = timer
      /\ lostMark' = lostMark /\ staleCount' = staleCount
  BY DEF readServer, throttle
<1>2. ReadTypeOK'
  BY <1>1 DEF ReadInv, ReadTypeOK
<1>3. Refreshing' <=> Refreshing
  BY <1>1 DEF Refreshing, Has
<1>4. ASSUME NEW d \in TextChannels
      PROVE  /\ ThrottleRight(d)' /\ MarksRight(d)' /\ FramesRight(d)' /\ HeldRight(d)' /\ BadgeRight(d)'
             /\ HasMark(d)' <=> HasMark(d)
  <2>1. ThrottleRight(d) /\ d # 0
    BY ReadAssumption DEF ReadInv
  <2>2. /\ MarksRight(d)' /\ Promised(d)' = Promised(d)
        /\ HasMark(d)' <=> HasMark(d)
        /\ Claimed(d)' <=> Claimed(d)
    BY <1>1, ThrottleStays
  <2>3. ~(d = chosen /\ visible) /\ ~(d = chosen' /\ visible')
    BY <2>1
  <2>4. ThrottleRight(d)'
    BY <2>1, <2>2, <2>3, <1>1 DEF ThrottleRight
  <2>5. FramesRight(d)' /\ HeldRight(d)'
    BY <1>1, SameFrames
  <2>6. Opening(d)' <=> Opening(d)
    BY <2>3 DEF Opening
  <2>7. BadgeRight(d)'
    BY <2>2, <2>6, <1>1, <1>3, BadgeKept
  <2> QED
    BY <2>2, <2>4, <2>5, <2>7
<1>5. FetchRight'
  BY <1>1, <1>3, <1>4, FetchStays
<1>6. ~connected' => up' = <<>> /\ down' = <<>>
  BY <1>1 DEF ReadInv
<1> QED
  BY <1>2, <1>4, <1>5, <1>6 DEF ReadInv

LEMMA OpenChannelInv == ASSUME ReadInv, NEW c \in TextChannels, OpenChannel(c) PROVE ReadInv'
<1>1. /\ chosen = 0 /\ chosen' = c /\ visible' = visible
      /\ UNCHANGED <<readServer, connected, down, listed, known>>
      /\ IF visible THEN LookAt(c) ELSE UNCHANGED <<count, up, throttle, staleCount>>
  BY DEF OpenChannel
<1>2. visible \in BOOLEAN
  BY DEF ReadInv, ReadTypeOK
<1>3. CASE visible
  <2>1. LookAt(c) /\ visible' = TRUE
    BY <1>1, <1>2, <1>3
  <2> QED
    BY <2>1, <1>1, LookAtInv
<1>4. CASE ~visible
  BY <1>1, <1>2, <1>4, HiddenInv
<1> QED
  BY <1>3, <1>4

LEMMA ShowPageInv == ASSUME ReadInv, ShowPage PROVE ReadInv'
<1>1. /\ ~visible /\ visible' = TRUE /\ chosen' = chosen
      /\ UNCHANGED <<readServer, connected, down, listed, known>>
      /\ IF chosen # 0 THEN LookAt(chosen) ELSE UNCHANGED <<count, up, throttle, staleCount>>
  BY DEF ShowPage
<1>2. chosen \in TextChannels \union {0}
  BY DEF ReadInv, ReadTypeOK
<1>3. CASE chosen # 0
  <2>1. PICK c \in TextChannels : c = chosen
    BY <1>2, <1>3
  <2>2. LookAt(c)
    BY <1>1, <1>3, <2>1
  <2> QED
    BY <2>1, <2>2, <1>1, LookAtInv
<1>4. CASE chosen = 0
  BY <1>1, <1>2, <1>4, HiddenInv
<1> QED
  BY <1>3, <1>4

\* The hub takes a request.
LEMMA ServedMarks ==
    ASSUME ReadInv, up # <<>>, up' = Tail(up), lastSent' = lastSent
    PROVE  /\ up' \in Seq(Request) /\ Head(up) \in Request
           /\ \A c \in TextChannels : \A i \in DOMAIN up' : IsMark(i, c)' =>
                /\ up'[i].id <= lastSent'[c]
                /\ up'[i].id = lastSent'[c] \/ \E j \in DOMAIN up' : j > i /\ IsMark(j, c)'
           /\ \A c \in TextChannels : HasMark(c)' => HasMark(c)
           /\ \A c \in TextChannels :
                ~(Head(up).kind = "mark" /\ Head(up).of = c) => (HasMark(c)' <=> HasMark(c))
           /\ \A c \in TextChannels :
                Head(up).kind = "mark" /\ Head(up).of = c =>
                    /\ HasMark(c) /\ Head(up).id <= lastSent[c]
                    /\ HasMark(c)' \/ Head(up).id = lastSent[c]
           /\ Has(up, "unread") <=> (Has(up, "unread")' \/ Head(up).kind = "unread")
<1>1. PICK q, r, h : q = up /\ r = up' /\ h = Head(up)
  OBVIOUS
<1>2. q \in Seq(Request) /\ q # <<>> /\ r = Tail(q) /\ h = Head(q)
  BY <1>1 DEF ReadInv, ReadTypeOK
<1>3. /\ r \in Seq(Request) /\ 1 \in DOMAIN q /\ h = q[1] /\ h \in Request
      /\ \A i \in DOMAIN r : i + 1 \in DOMAIN q /\ r[i] = q[i + 1] /\ i \in Nat /\ i > 0
      /\ \A i \in DOMAIN q : i # 1 => /\ i - 1 \in DOMAIN r /\ r[i - 1] = q[i]
                                      /\ i \in Nat /\ i > 1
  BY <1>2, TakenFacts
<1>4. ASSUME NEW c \in TextChannels
      PROVE  /\ \A i \in DOMAIN r : IsMark(i, c)' <=> (r[i].kind = "mark" /\ r[i].of = c)
             /\ \A i \in DOMAIN q : IsMark(i, c) <=> (q[i].kind = "mark" /\ q[i].of = c)
  BY <1>1 DEF IsMark
<1>5. ASSUME NEW c \in TextChannels
      PROVE  \A i \in DOMAIN q : IsMark(i, c) =>
                 /\ q[i].id <= lastSent[c]
                 /\ q[i].id = lastSent[c] \/ \E j \in DOMAIN q : j > i /\ IsMark(j, c)
  BY <1>1 DEF ReadInv, MarksRight
<1>6. ASSUME NEW c \in TextChannels, NEW i \in DOMAIN r, IsMark(i, c)'
      PROVE  /\ r[i].id <= lastSent[c] /\ HasMark(c)
             /\ r[i].id = lastSent[c] \/ \E j \in DOMAIN r : j > i /\ IsMark(j, c)'
  <2>1. i + 1 \in DOMAIN q /\ r[i] = q[i + 1] /\ i \in Nat /\ i > 0
    BY <1>3
  <2>2. IsMark(i + 1, c)
    BY <2>1, <1>4, <1>6
  <2>3. HasMark(c)
    BY <2>1, <2>2, <1>1 DEF HasMark
  <2>4. CASE q[i + 1].id = lastSent[c]
    BY <2>1, <2>2, <2>3, <2>4, <1>5
  <2>5. CASE q[i + 1].id # lastSent[c]
    <3>1. PICK j \in DOMAIN q : j > i + 1 /\ IsMark(j, c)
      BY <2>1, <2>2, <2>5, <1>5
    <3>2. j \in Nat /\ j # 1
      BY <3>1, <2>1, <1>2
    <3>3. j - 1 \in DOMAIN r /\ r[j - 1] = q[j]
      BY <3>2, <1>3
    <3>4. IsMark(j - 1, c)' /\ j - 1 > i
      BY <3>1, <3>2, <3>3, <2>1, <1>4
    <3> QED
      BY <3>3, <3>4, <2>1, <2>2, <2>3, <1>5
  <2> QED
    BY <2>4, <2>5
<1>7. ASSUME NEW c \in TextChannels, ~(h.kind = "mark" /\ h.of = c), HasMark(c) PROVE HasMark(c)'
  <2>1. PICK j \in DOMAIN q : IsMark(j, c)
    BY <1>1, <1>7 DEF HasMark
  <2>2. j # 1
    BY <2>1, <1>3, <1>4, <1>7
  <2>3. j - 1 \in DOMAIN r /\ r[j - 1] = q[j]
    BY <2>2, <1>3
  <2>4. IsMark(j - 1, c)'
    BY <2>1, <2>3, <1>4
  <2> QED
    BY <2>3, <2>4, <1>1 DEF HasMark
<1>8. ASSUME NEW c \in TextChannels, h.kind = "mark", h.of = c
      PROVE  HasMark(c) /\ h.id <= lastSent[c] /\ (HasMark(c)' \/ h.id = lastSent[c])
  <2>1. IsMark(1, c)
    BY <1>3, <1>4, <1>8
  <2>2. HasMark(c)
    BY <2>1, <1>1, <1>3 DEF HasMark
  <2>3. h.id <= lastSent[c] /\ (h.id = lastSent[c] \/ \E j \in DOMAIN q : j > 1 /\ IsMark(j, c))
    BY <2>1, <1>3, <1>5
  <2>4. ASSUME NEW j \in DOMAIN q, j > 1, IsMark(j, c) PROVE HasMark(c)'
    <3>1. j # 1
      BY <2>4
    <3>2. j - 1 \in DOMAIN r /\ r[j - 1] = q[j]
      BY <3>1, <1>3
    <3>3. IsMark(j - 1, c)'
      BY <2>4, <3>2, <1>4
    <3> QED
      BY <3>2, <3>3, <1>1 DEF HasMark
  <2> QED
    BY <2>2, <2>3, <2>4
<1>9. Has(q, "unread") <=> (Has(r, "unread") \/ h.kind = "unread")
  BY <1>2, HasTaken
<1>10. ASSUME NEW c \in TextChannels, HasMark(c)' PROVE HasMark(c)
  <2>1. PICK i \in DOMAIN r : IsMark(i, c)'
    BY <1>1, <1>10 DEF HasMark
  <2> QED
    BY <2>1, <1>6
<1>11. Has(up, "unread") <=> (Has(up, "unread")' \/ Head(up).kind = "unread")
  BY <1>1, <1>9
<1>12. \A c \in TextChannels : \A i \in DOMAIN up' : IsMark(i, c)' =>
         /\ up'[i].id <= lastSent'[c]
         /\ up'[i].id = lastSent'[c] \/ \E j \in DOMAIN up' : j > i /\ IsMark(j, c)'
  BY <1>1, <1>6
<1> QED
  BY <1>1, <1>3, <1>7, <1>8, <1>10, <1>11, <1>12

\* What Serve leaves alone, and the marks whose channel it does not change.
LEMMA ServedSame ==
    ASSUME ReadInv, Serve
    PROVE  /\ up # <<>> /\ up' = Tail(up) /\ connected /\ connected' = connected
           /\ newest' = newest /\ missed' = missed /\ chosen' = chosen /\ visible' = visible
           /\ listed' = listed /\ known' = known /\ count' = count /\ waiting' = waiting
           /\ lastSent' = lastSent /\ recent' = recent /\ timer' = timer
           /\ staleCount' = (staleCount \/ (Head(up).kind = "unread" /\ down' = down))
           /\ \A c \in TextChannels : /\ Promised(c)' = Promised(c)
                                      /\ Opening(c)' <=> Opening(c)
           /\ ~connected' => up' = <<>> /\ down' = <<>>
<1>1. /\ up # <<>> /\ up' = Tail(up) /\ connected /\ connected' = connected
      /\ newest' = newest /\ missed' = missed /\ chosen' = chosen /\ visible' = visible
      /\ listed' = listed /\ known' = known /\ count' = count /\ waiting' = waiting
      /\ lastSent' = lastSent /\ recent' = recent /\ timer' = timer
      /\ staleCount' = (staleCount \/ (Head(up).kind = "unread" /\ down' = down))
  BY DEF Serve, readView
<1>2. \A c \in TextChannels : /\ Promised(c)' = Promised(c)
                              /\ Opening(c)' <=> Opening(c)
  BY <1>1 DEF Promised, Opening
<1>3. ~connected' => up' = <<>> /\ down' = <<>>
  BY <1>1
<1> QED
  BY <1>1, <1>2, <1>3

\* A mark arrives or is dropped by the limiter.
LEMMA ServeMarkInv ==
    ASSUME ReadInv, Serve, Head(up).kind = "mark", down' = down, NEW to \in Nat,
           \/ /\ to = lastRead[Head(up).of] /\ lastRead' = lastRead
              /\ lostMark' = [lostMark EXCEPT ![Head(up).of] = TRUE]
           \/ /\ to = IF Head(up).id > lastRead[Head(up).of] THEN Head(up).id ELSE lastRead[Head(up).of]
              /\ lastRead' = [lastRead EXCEPT ![Head(up).of] = to]
              /\ lostMark' = [lostMark EXCEPT ![Head(up).of] = FALSE]
    PROVE  ReadInv'
<1>t. ReadTypeOK
  BY DEF ReadInv
<1>1. /\ up # <<>> /\ up' = Tail(up) /\ connected /\ connected' = connected
      /\ newest' = newest /\ missed' = missed /\ chosen' = chosen /\ visible' = visible
      /\ listed' = listed /\ known' = known /\ count' = count /\ waiting' = waiting
      /\ lastSent' = lastSent /\ recent' = recent /\ timer' = timer
      /\ staleCount' = (staleCount \/ (Head(up).kind = "unread" /\ down' = down))
      /\ \A c \in TextChannels : /\ Promised(c)' = Promised(c)
                                 /\ Opening(c)' <=> Opening(c)
      /\ ~connected' => up' = <<>> /\ down' = <<>>
  BY ServedSame
<1>2. /\ up' \in Seq(Request) /\ Head(up) \in Request
      /\ \A c \in TextChannels : \A i \in DOMAIN up' : IsMark(i, c)' =>
           /\ up'[i].id <= lastSent'[c]
           /\ up'[i].id = lastSent'[c] \/ \E j \in DOMAIN up' : j > i /\ IsMark(j, c)'
      /\ \A c \in TextChannels : HasMark(c)' => HasMark(c)
      /\ \A c \in TextChannels :
           ~(Head(up).kind = "mark" /\ Head(up).of = c) => (HasMark(c)' <=> HasMark(c))
      /\ \A c \in TextChannels :
           Head(up).kind = "mark" /\ Head(up).of = c =>
               /\ HasMark(c) /\ Head(up).id <= lastSent[c]
               /\ HasMark(c)' \/ Head(up).id = lastSent[c]
      /\ Has(up, "unread") <=> (Has(up, "unread")' \/ Head(up).kind = "unread")
  BY <1>1, ServedMarks
<1>s. staleCount' = staleCount
  BY <1>1, <1>t DEF ReadTypeOK
<1>3. PICK c, id : c = Head(up).of /\ id = Head(up).id
  OBVIOUS
<1>4. c \in TextChannels /\ id \in Nat
  BY <1>2, <1>3, RequestFacts
<1>5. HasMark(c) /\ id <= lastSent[c] /\ (HasMark(c)' \/ id = lastSent[c])
  BY <1>2, <1>3, <1>4
<1>6. lastRead[c] \in Nat /\ lastSent[c] \in Nat /\ lastRead[c] <= lastSent[c]
  BY <1>4, ReadTypes
<1>7. \/ lastRead' = lastRead /\ lostMark' = [lostMark EXCEPT ![c] = TRUE]
      \/ /\ lastRead' = [lastRead EXCEPT ![c] = to] /\ lostMark' = [lostMark EXCEPT ![c] = FALSE]
         /\ to = IF id > lastRead[c] THEN id ELSE lastRead[c]
  BY <1>3
<1>8. /\ lastRead' \in [TextChannels -> Nat] /\ lostMark' \in [TextChannels -> BOOLEAN]
      /\ \A d \in TextChannels \ {c} : lastRead'[d] = lastRead[d] /\ lostMark'[d] = lostMark[d]
      /\ lastRead'[c] \in Nat /\ lastRead'[c] <= lastSent[c]
      /\ lostMark'[c] \/ (id = lastSent[c] => lastRead'[c] = lastSent[c])
  <2>1. lastRead \in [TextChannels -> Nat] /\ lostMark \in [TextChannels -> BOOLEAN]
    BY <1>t DEF ReadTypeOK
  <2>2. CASE lastRead' = lastRead /\ lostMark' = [lostMark EXCEPT ![c] = TRUE]
    <3>1. /\ lostMark' \in [TextChannels -> BOOLEAN] /\ lostMark'[c]
          /\ \A d \in TextChannels \ {c} : lostMark'[d] = lostMark[d]
      BY <2>1, <2>2, <1>4
    <3>2. /\ lastRead' \in [TextChannels -> Nat] /\ lastRead'[c] \in Nat /\ lastRead'[c] <= lastSent[c]
          /\ \A d \in TextChannels \ {c} : lastRead'[d] = lastRead[d]
      BY <2>1, <2>2, <1>6
    <3> QED
      BY <3>1, <3>2
  <2>3. CASE /\ lastRead' = [lastRead EXCEPT ![c] = to] /\ lostMark' = [lostMark EXCEPT ![c] = FALSE]
             /\ to = IF id > lastRead[c] THEN id ELSE lastRead[c]
    <3>1. /\ lostMark' \in [TextChannels -> BOOLEAN]
          /\ \A d \in TextChannels \ {c} : lostMark'[d] = lostMark[d]
      BY <2>1, <2>3, <1>4
    <3>2. /\ lastRead' \in [TextChannels -> Nat] /\ lastRead'[c] = to
          /\ \A d \in TextChannels \ {c} : lastRead'[d] = lastRead[d]
      BY <2>1, <2>3, <1>4
    <3>3. to <= lastSent[c] /\ (id = lastSent[c] => to = lastSent[c])
      BY <2>3, <1>4, <1>5, <1>6
    <3> QED
      BY <3>1, <3>2, <3>3
  <2> QED
    BY <2>2, <2>3, <1>7
<1>9. ReadTypeOK'
  BY <1>s, <1>1, <1>2, <1>8, <1>t DEF ReadTypeOK
<1>10. Refreshing' <=> Refreshing
  <2>1. Has(down, "counts")' <=> Has(down, "counts")
    BY DEF Has
  <2> QED
    BY <2>1, <1>2 DEF Refreshing
<1>11. FetchRight'
  <2>1. Refreshing => staleCount
    BY <1>4, <1>5 DEF ReadInv, FetchRight
  <2> QED
    BY <2>1, <1>s, <1>1, <1>10 DEF FetchRight
<1>12. ASSUME NEW d \in TextChannels
       PROVE  ThrottleRight(d)' /\ MarksRight(d)' /\ FramesRight(d)' /\ HeldRight(d)' /\ BadgeRight(d)'
  <2>1. ThrottleRight(d) /\ MarksRight(d)
    BY DEF ReadInv
  <2>2. lastRead'[d] <= lastSent'[d]
    BY <2>1, <1>1, <1>8 DEF ThrottleRight
  <2>3. ThrottleRight(d)'
    BY <2>1, <2>2, <1>1 DEF ThrottleRight
  <2>4. ~lostMark'[d] /\ ~HasMark(d)' => lastRead'[d] = lastSent'[d]
    <3>1. CASE d = c
      BY <3>1, <1>1, <1>5, <1>8
    <3>2. CASE d # c
      <4>1. HasMark(d)' <=> HasMark(d)
        BY <3>2, <1>2, <1>3
      <4>2. lastRead'[d] = lastRead[d] /\ lostMark'[d] = lostMark[d]
        BY <3>2, <1>8
      <4> QED
        BY <4>1, <4>2, <2>1, <1>1 DEF MarksRight
    <3> QED
      BY <3>1, <3>2
  <2>5. MarksRight(d)'
    BY <2>4, <1>2 DEF MarksRight
  <2>6. FramesRight(d)' /\ HeldRight(d)'
    BY <1>1, SameFrames
  <2>7. Claimed(d)' => Claimed(d)
    <3>1. CASE d = c
      BY <3>1, <1>5 DEF Claimed
    <3>2. CASE d # c
      <4>1. (HasMark(d)' <=> HasMark(d)) /\ lostMark'[d] = lostMark[d]
        BY <3>2, <1>2, <1>3, <1>8
      <4> QED
        BY <4>1, <1>1 DEF Claimed
    <3> QED
      BY <3>1, <3>2
  <2>8. BadgeRight(d)'
    BY <2>7, <1>s, <1>1, <1>10, BadgeKept
  <2> QED
    BY <2>3, <2>5, <2>6, <2>8
<1> QED
  BY <1>1, <1>9, <1>11, <1>12 DEF ReadInv

\* The hub answers: the answer goes behind all it has sent.
LEMMA ServeAskInv ==
    ASSUME ReadInv, Serve, NEW e \in Frame, down' = Append(down, e), UNCHANGED <<lastRead, lostMark>>,
           \/ /\ Head(up).kind = "unread" /\ e.kind = "counts"
              /\ e.counts = [c \in TextChannels |-> newest[c] - lastRead[c]]
           \/ /\ Head(up).kind = "history" /\ e.kind = "page" /\ e.id = newest[e.of]
    PROVE  ReadInv'
<1>t. ReadTypeOK
  BY DEF ReadInv
<1>1. /\ up # <<>> /\ up' = Tail(up) /\ connected /\ connected' = connected
      /\ newest' = newest /\ missed' = missed /\ chosen' = chosen /\ visible' = visible
      /\ listed' = listed /\ known' = known /\ count' = count /\ waiting' = waiting
      /\ lastSent' = lastSent /\ recent' = recent /\ timer' = timer
      /\ staleCount' = (staleCount \/ (Head(up).kind = "unread" /\ down' = down))
      /\ \A c \in TextChannels : /\ Promised(c)' = Promised(c)
                                 /\ Opening(c)' <=> Opening(c)
      /\ ~connected' => up' = <<>> /\ down' = <<>>
  BY ServedSame
<1>2. /\ up' \in Seq(Request) /\ Head(up) \in Request
      /\ \A c \in TextChannels : \A i \in DOMAIN up' : IsMark(i, c)' =>
           /\ up'[i].id <= lastSent'[c]
           /\ up'[i].id = lastSent'[c] \/ \E j \in DOMAIN up' : j > i /\ IsMark(j, c)'
      /\ \A c \in TextChannels :
           ~(Head(up).kind = "mark" /\ Head(up).of = c) => (HasMark(c)' <=> HasMark(c))
      /\ Has(up, "unread") <=> (Has(up, "unread")' \/ Head(up).kind = "unread")
  BY <1>1, ServedMarks
<1>3. Head(up).kind # "mark" /\ e.kind # "message"
  OBVIOUS
<1>4. \A c \in TextChannels : HasMark(c)' <=> HasMark(c)
  BY <1>2, <1>3
<1>5. \A c \in TextChannels : Claimed(c)' <=> Claimed(c)
  BY <1>1, <1>4 DEF Claimed
<1>6. PICK q, r : q = down /\ r = down'
  OBVIOUS
<1>7. q \in Seq(Frame) /\ r = Append(q, e)
  BY <1>6, <1>t DEF ReadTypeOK
<1>8. /\ r \in Seq(Frame) /\ Len(q) \in Nat
      /\ \A i \in DOMAIN q : i \in DOMAIN r /\ r[i] = q[i] /\ i \in Nat
      /\ \A i \in DOMAIN r : i \in DOMAIN q \/ i = Len(q) + 1
      /\ r[Len(q) + 1] = e
  BY <1>7, AppendFacts
<1>s. staleCount' = staleCount
  <2>1. Len(r) # Len(q)
    BY <1>7, <1>8
  <2>2. down' # down
    BY <2>1, <1>6
  <2> QED
    BY <2>2, <1>1, <1>t DEF ReadTypeOK
<1>9. ReadTypeOK'
  BY <1>s, <1>1, <1>2, <1>6, <1>8, <1>t DEF ReadTypeOK
<1>10. Has(down, "counts")' <=> (Has(down, "counts") \/ e.kind = "counts")
  <2>1. Has(r, "counts") <=> (Has(q, "counts") \/ e.kind = "counts")
    BY <1>7, HasMore
  <2> QED
    BY <2>1, <1>6
<1>11. Refreshing' <=> Refreshing
  BY <1>2, <1>10 DEF Refreshing
<1>12. ASSUME NEW d \in TextChannels
       PROVE  /\ Stream(r, newest[d], d, known[d]) /\ newest[d] \in Nat /\ Stream(q, newest[d], d, known[d])
              /\ \A i, f \in Nat : Front(q, newest[d], d, i, f) => Front(r, newest[d], d, i, f)
              /\ \A f \in Nat : Front(q, newest[d], d, 0, f) => Front(r, newest[d], d, Len(q) + 1, newest[d])
  <2>1. newest[d] \in Nat /\ known[d] \in Nat /\ Stream(q, newest[d], d, known[d])
    BY <1>6, ReadTypes DEF ReadInv, FramesRight
  <2>2. ~(e.kind = "message" /\ e.of = d) /\ (e.kind = "page" /\ e.of = d => e.id = newest[d])
    OBVIOUS
  <2>3. Stream(r, newest[d], d, known[d])
    BY <2>1, <2>2, <1>7, StreamMore
  <2>4. /\ \A i, f \in Nat : Front(q, newest[d], d, i, f) => Front(r, newest[d], d, i, f)
        /\ \A f \in Nat : Front(q, newest[d], d, 0, f) => Front(r, newest[d], d, Len(q) + 1, newest[d])
    BY <2>1, <2>2, <1>7, FrontMore
  <2> QED
    BY <2>1, <2>3, <2>4
<1>13. FetchRight'
  <2> SUFFICES ASSUME Refreshing', ~staleCount'
               PROVE  /\ \A c \in TextChannels : ~timer'[c] /\ ~HasMark(c)'
                      /\ \A i \in DOMAIN down' : down'[i].kind = "counts" =>
                           \A c \in TextChannels : Counted(i, c)'
    BY DEF FetchRight
  <2>1. /\ \A c \in TextChannels : ~timer[c] /\ ~HasMark(c)
        /\ \A i \in DOMAIN down : down[i].kind = "counts" => \A c \in TextChannels : Counted(i, c)
    BY <1>s, <1>1, <1>11 DEF ReadInv, FetchRight
  <2>2. ASSUME NEW i \in DOMAIN r, r[i].kind = "counts", NEW d \in TextChannels
        PROVE  \E f \in Nat : Front(r, newest[d], d, i, f) /\ r[i].counts[d] + lastRead[d] = f
    <3>1. CASE i \in DOMAIN q
      <4>1. r[i] = q[i] /\ i \in Nat
        BY <3>1, <1>8
      <4>2. Counted(i, d)
        BY <3>1, <4>1, <2>1, <2>2, <1>6
      <4>3. PICK f \in Nat : Front(q, newest[d], d, i, f) /\ q[i].counts[d] + lastRead[d] = f
        BY <4>2, <1>6 DEF Counted
      <4> QED
        BY <4>1, <4>3, <1>12
    <3>2. CASE i = Len(q) + 1
      <4>1. e.counts[d] = newest[d] - lastRead[d] /\ r[i] = e
        BY <3>2, <2>2, <1>8
      <4>2. newest[d] \in Nat /\ lastRead[d] \in Nat
        BY ReadTypes
      <4>3. r[i].counts[d] + lastRead[d] = newest[d]
        BY <4>1, <4>2
      <4>4. PICK f \in Nat : Front(q, newest[d], d, 0, f)
        BY <1>12 DEF Stream
      <4>5. Front(r, newest[d], d, i, newest[d])
        BY <4>4, <3>2, <1>12
      <4> QED
        BY <4>2, <4>3, <4>5
    <3> QED
      BY <3>1, <3>2, <2>2, <1>8
  <2>3. ASSUME NEW i \in DOMAIN down', down'[i].kind = "counts", NEW d \in TextChannels
        PROVE  Counted(i, d)'
    <3>1. PICK f \in Nat : Front(r, newest[d], d, i, f) /\ r[i].counts[d] + lastRead[d] = f
      BY <2>2, <2>3, <1>6
    <3>2. Front(down', newest'[d], d, i, f) /\ down'[i].counts[d] + lastRead'[d] = f
      BY <3>1, <1>1, <1>6
    <3> QED
      BY <3>2 DEF Counted
  <2> QED
    BY <2>1, <2>3, <1>1, <1>4
<1>14. ASSUME NEW d \in TextChannels
       PROVE  ThrottleRight(d)' /\ MarksRight(d)' /\ FramesRight(d)' /\ HeldRight(d)' /\ BadgeRight(d)'
  <2>1. ThrottleRight(d) /\ MarksRight(d) /\ HeldRight(d)
    BY DEF ReadInv
  <2>2. ThrottleRight(d)'
    BY <2>1, <1>1 DEF ThrottleRight
  <2>3. MarksRight(d)'
    BY <2>1, <1>1, <1>2, <1>4 DEF MarksRight
  <2>4. FramesRight(d)'
    BY <1>1, <1>6, <1>12 DEF FramesRight
  <2>5. HeldRight(d)'
    <3>1. known[d] \in Nat /\ 0 \in Nat
      BY ReadTypes
    <3>2. Front(q, newest[d], d, 0, known[d]) => Front(r, newest[d], d, 0, known[d])
      BY <3>1, <1>12
    <3> QED
      BY <3>2, <2>1, <1>1, <1>6 DEF HeldRight
  <2>6. BadgeRight(d)'
    <3>1. \A f \in Nat : Front(r, newest[d], d, 0, f) => Front(q, newest[d], d, 0, f)
      <4>1. 0 \in Nat
        OBVIOUS
      <4>2. \A f \in Nat : Front(q, newest[d], d, 0, f) => Front(r, newest[d], d, 0, f)
        BY <4>1, <1>12
      <4> QED
        BY <4>2, <1>8, <1>12, FrontBack
    <3>2. \A f \in Nat : Front(down', newest'[d], d, 0, f) => Front(down, newest[d], d, 0, f)
      BY <3>1, <1>1, <1>6
    <3> QED
      BY <3>2, <1>s, <1>1, <1>5, <1>11, BadgeKept
  <2> QED
    BY <2>2, <2>3, <2>4, <2>5, <2>6
<1> QED
  BY <1>1, <1>9, <1>13, <1>14 DEF ReadInv

\* A request fails: the counters stay as they are.
LEMMA ServeFailsInv ==
    ASSUME ReadInv, Serve, Head(up).kind # "mark", down' = down, UNCHANGED <<lastRead, lostMark>>
    PROVE  ReadInv'
<1>t. ReadTypeOK
  BY DEF ReadInv
<1>1. /\ up # <<>> /\ up' = Tail(up) /\ connected /\ connected' = connected
      /\ newest' = newest /\ missed' = missed /\ chosen' = chosen /\ visible' = visible
      /\ listed' = listed /\ known' = known /\ count' = count /\ waiting' = waiting
      /\ lastSent' = lastSent /\ recent' = recent /\ timer' = timer
      /\ staleCount' = (staleCount \/ (Head(up).kind = "unread" /\ down' = down))
      /\ \A c \in TextChannels : /\ Promised(c)' = Promised(c)
                                 /\ Opening(c)' <=> Opening(c)
      /\ ~connected' => up' = <<>> /\ down' = <<>>
  BY ServedSame
<1>2. /\ up' \in Seq(Request)
      /\ \A c \in TextChannels : \A i \in DOMAIN up' : IsMark(i, c)' =>
           /\ up'[i].id <= lastSent'[c]
           /\ up'[i].id = lastSent'[c] \/ \E j \in DOMAIN up' : j > i /\ IsMark(j, c)'
      /\ \A c \in TextChannels : HasMark(c)' <=> HasMark(c)
      /\ Has(up, "unread") <=> (Has(up, "unread")' \/ Head(up).kind = "unread")
  BY <1>1, ServedMarks
<1>3. /\ staleCount' \in BOOLEAN /\ (~staleCount' => ~staleCount)
      /\ ~staleCount' => Head(up).kind # "unread"
  BY <1>1, <1>t DEF ReadTypeOK
<1>4. ~staleCount' => (Refreshing' <=> Refreshing)
  <2>1. Has(down, "counts")' <=> Has(down, "counts")
    BY DEF Has
  <2> QED
    BY <2>1, <1>2, <1>3 DEF Refreshing
<1>5. ReadTypeOK'
  BY <1>1, <1>2, <1>3, <1>t DEF ReadTypeOK
<1>6. FetchRight'
  BY <1>1, <1>2, <1>3, <1>4, FetchStays
<1>7. ASSUME NEW d \in TextChannels
      PROVE  ThrottleRight(d)' /\ MarksRight(d)' /\ FramesRight(d)' /\ HeldRight(d)' /\ BadgeRight(d)'
  <2>1. ThrottleRight(d) /\ MarksRight(d)
    BY DEF ReadInv
  <2>2. ThrottleRight(d)'
    BY <2>1, <1>1 DEF ThrottleRight
  <2>3. MarksRight(d)'
    BY <2>1, <1>1, <1>2 DEF MarksRight
  <2>4. FramesRight(d)' /\ HeldRight(d)'
    BY <1>1, SameFrames
  <2>5. Claimed(d)' <=> Claimed(d)
    BY <1>1, <1>2 DEF Claimed
  <2>6. BadgeRight(d)'
    BY <2>5, <1>1, <1>3, <1>4, BadgeKept
  <2> QED
    BY <2>2, <2>3, <2>4, <2>6
<1> QED
  BY <1>1, <1>5, <1>6, <1>7 DEF ReadInv

LEMMA ServeInv == ASSUME ReadInv, Serve PROVE ReadInv'
<1>1. Head(up) \in Request
  <2>1. up \in Seq(Request) /\ up # <<>>
    BY DEF Serve, ReadInv, ReadTypeOK
  <2> QED
    BY <2>1
<1>2. PICK ask : ask = Head(up)
  OBVIOUS
<1>3. CASE /\ ask.kind = "mark"
           /\ lastRead' = [lastRead EXCEPT ![ask.of] = IF ask.id > @ THEN ask.id ELSE @]
           /\ lostMark' = [lostMark EXCEPT ![ask.of] = FALSE] /\ down' = down
  <2>1. ask.of \in TextChannels /\ ask.id \in Nat
    BY <1>1, <1>2, <1>3, RequestFacts
  <2>2. lastRead[ask.of] \in Nat
    BY <2>1, ReadTypes
  <2>3. PICK to \in Nat : to = IF ask.id > lastRead[ask.of] THEN ask.id ELSE lastRead[ask.of]
    BY <2>1, <2>2
  <2>4. lastRead' = [lastRead EXCEPT ![ask.of] = to]
    BY <1>3, <2>3
  <2> QED
    BY <2>3, <2>4, <1>2, <1>3, ServeMarkInv
<1>4. CASE /\ ask.kind = "mark" /\ lastRead' = lastRead
           /\ lostMark' = [lostMark EXCEPT ![ask.of] = TRUE] /\ down' = down
  <2>1. ask.of \in TextChannels
    BY <1>1, <1>2, <1>4, RequestFacts
  <2>2. PICK to \in Nat : to = lastRead[ask.of]
    BY <2>1, ReadTypes
  <2> QED
    BY <2>2, <1>2, <1>4, ServeMarkInv
<1>5. CASE /\ ask.kind = "unread"
           /\ down' = Append(down, [kind |-> "counts",
                         counts |-> [c \in TextChannels |-> newest[c] - lastRead[c]]])
           /\ UNCHANGED <<lastRead, lostMark>>
  <2>1. PICK n : n = [c \in TextChannels |-> newest[c] - lastRead[c]]
    OBVIOUS
  <2>2. \A c \in TextChannels : newest[c] - lastRead[c] \in Nat
    <3>1. ASSUME NEW c \in TextChannels PROVE newest[c] - lastRead[c] \in Nat
      <4>1. newest[c] \in Nat /\ lastRead[c] \in Nat /\ lastRead[c] <= newest[c]
        BY ReadTypes
      <4> QED
        BY <4>1
    <3> QED
      BY <3>1
  <2>3. n \in [TextChannels -> Nat]
    BY <2>1, <2>2
  <2>4. PICK e : e = [kind |-> "counts", counts |-> n]
    OBVIOUS
  <2>5. e \in Frame /\ e.kind = "counts" /\ e.counts = n /\ down' = Append(down, e)
    BY <1>5, <2>1, <2>3, <2>4 DEF Frame
  <2> QED
    BY <2>1, <2>5, <1>2, <1>5, ServeAskInv
<1>6. CASE /\ ask.kind = "history"
           /\ down' = Append(down, [kind |-> "page", of |-> ask.of, id |-> newest[ask.of]])
           /\ UNCHANGED <<lastRead, lostMark>>
  <2>1. ask.of \in TextChannels
    BY <1>1, <1>2, <1>6, RequestFacts
  <2>2. newest[ask.of] \in Nat
    BY <2>1, ReadTypes
  <2>3. PICK e : e = [kind |-> "page", of |-> ask.of, id |-> newest[ask.of]]
    OBVIOUS
  <2>4. e \in Frame /\ e.kind = "page" /\ e.id = newest[e.of] /\ down' = Append(down, e)
    BY <1>6, <2>1, <2>2, <2>3 DEF Frame
  <2> QED
    BY <2>4, <1>2, <1>6, ServeAskInv
<1>7. CASE ask.kind # "mark" /\ down' = down /\ UNCHANGED <<lastRead, lostMark>>
  BY <1>2, <1>7, ServeFailsInv
<1> QED
  BY <1>2, <1>3, <1>4, <1>5, <1>6, <1>7 DEF Serve

LEMMA AskHistoryInv == ASSUME ReadInv, AskHistory PROVE ReadInv'
<1>1. /\ newest' = newest /\ lastRead' = lastRead /\ missed' = missed /\ connected' = connected
      /\ down' = down /\ chosen' = chosen /\ visible' = visible /\ listed' = listed
      /\ known' = known /\ count' = count /\ waiting' = waiting /\ lastSent' = lastSent
      /\ recent' = recent /\ timer' = timer /\ lostMark' = lostMark /\ staleCount' = staleCount
      /\ connected /\ chosen # 0 /\ up' = Append(up, FetchHistory(chosen))
  BY DEF AskHistory, Unlisted, readServer, readView, throttle
<1>t. ReadTypeOK
  BY DEF ReadInv
<1>2. PICK q, r, e : q = up /\ r = up' /\ e = FetchHistory(chosen)
  OBVIOUS
<1>3. q \in Seq(Request) /\ e \in Request /\ e.kind = "history" /\ r = Append(q, e)
  <2>1. chosen \in TextChannels
    BY <1>1, <1>t DEF ReadTypeOK
  <2> QED
    BY <2>1, <1>1, <1>2, <1>t, RequestFacts DEF ReadTypeOK
<1>4. /\ r \in Seq(Request) /\ Len(q) \in Nat /\ r[Len(q) + 1] = e
      /\ \A i \in DOMAIN q : i \in DOMAIN r /\ r[i] = q[i] /\ i \in Nat
      /\ \A i \in DOMAIN r : i \in DOMAIN q \/ i = Len(q) + 1
  BY <1>3, AppendFacts
<1>5. ReadTypeOK'
  BY <1>1, <1>2, <1>4, <1>t DEF ReadTypeOK
<1>6. Refreshing' <=> Refreshing
  <2>1. Has(r, "unread") <=> Has(q, "unread")
    BY <1>3, HasMore
  <2>2. Has(down, "counts")' <=> Has(down, "counts")
    BY <1>1 DEF Has
  <2> QED
    BY <2>1, <2>2, <1>2 DEF Refreshing
<1>7. ASSUME NEW d \in TextChannels
      PROVE  /\ \A i \in DOMAIN r : IsMark(i, d)' => i \in DOMAIN q /\ IsMark(i, d) /\ r[i] = q[i]
             /\ \A i \in DOMAIN q : IsMark(i, d) => i \in DOMAIN r /\ IsMark(i, d)' /\ r[i] = q[i]
             /\ HasMark(d)' <=> HasMark(d)
             /\ Promised(d)' = Promised(d)
             /\ Claimed(d)' <=> Claimed(d)
             /\ Opening(d)' <=> Opening(d)
  <2>1. \A i \in DOMAIN r : IsMark(i, d)' => i \in DOMAIN q /\ IsMark(i, d) /\ r[i] = q[i]
    BY <1>2, <1>3, <1>4 DEF IsMark
  <2>2. \A i \in DOMAIN q : IsMark(i, d) => i \in DOMAIN r /\ IsMark(i, d)' /\ r[i] = q[i]
    BY <1>2, <1>4 DEF IsMark
  <2>3. HasMark(d)' <=> HasMark(d)
    BY <2>1, <2>2, <1>2 DEF HasMark
  <2> QED
    BY <2>1, <2>2, <2>3, <1>1 DEF Promised, Claimed, Opening
<1>8. FetchRight'
  BY <1>1, <1>6, <1>7, FetchStays
<1>9. ~connected' => up' = <<>> /\ down' = <<>>
  BY <1>1
<1>10. ASSUME NEW d \in TextChannels
       PROVE  ThrottleRight(d)' /\ MarksRight(d)' /\ FramesRight(d)' /\ HeldRight(d)' /\ BadgeRight(d)'
  <2>1. ThrottleRight(d) /\ MarksRight(d)
    BY DEF ReadInv
  <2>2. ThrottleRight(d)'
    BY <2>1, <1>1, <1>7 DEF ThrottleRight
  <2>3. MarksRight(d)'
    <3>1. ~lostMark'[d] /\ ~HasMark(d)' => lastRead'[d] = lastSent'[d]
      BY <2>1, <1>1, <1>7 DEF MarksRight
    <3>2. ASSUME NEW i \in DOMAIN r, IsMark(i, d)'
          PROVE  r[i].id <= lastSent[d] /\ (r[i].id = lastSent[d] \/ \E j \in DOMAIN r : j > i /\ IsMark(j, d)')
      <4>1. i \in DOMAIN q /\ IsMark(i, d) /\ r[i] = q[i]
        BY <3>2, <1>7
      <4>2. q[i].id <= lastSent[d] /\ (q[i].id = lastSent[d] \/ \E j \in DOMAIN q : j > i /\ IsMark(j, d))
        BY <4>1, <2>1, <1>2 DEF MarksRight
      <4> QED
        BY <4>1, <4>2, <1>7
    <3> QED
      BY <3>1, <3>2, <1>1, <1>2 DEF MarksRight
  <2>4. FramesRight(d)' /\ HeldRight(d)'
    BY <1>1, SameFrames
  <2>5. BadgeRight(d)'
    BY <1>1, <1>6, <1>7, BadgeKept
  <2> QED
    BY <2>2, <2>3, <2>4, <2>5
<1> QED
  BY <1>5, <1>8, <1>9, <1>10 DEF ReadInv

\* What was on its way is lost: lostMark and missed say so.
LEMMA CutOffInv == ASSUME ReadInv, CutOff PROVE ReadInv'
<1>1. /\ connected' = FALSE /\ up' = <<>> /\ down' = <<>>
      /\ newest' = newest /\ lastRead' = lastRead
      /\ chosen' = chosen /\ visible' = visible /\ listed' = listed
      /\ known' = known /\ count' = count /\ waiting' = waiting /\ lastSent' = lastSent
      /\ recent' = recent /\ timer' = timer /\ staleCount' = staleCount
      /\ lostMark' = [c \in TextChannels |->
                        lostMark[c] \/ \E i \in 1..Len(up) : up[i].kind = "mark" /\ up[i].of = c]
      /\ missed' = [c \in TextChannels |->
                      missed[c] \/ \E i \in 1..Len(down) : down[i].kind = "message" /\ down[i].of = c]
  BY DEF CutOff, readView
<1>t. ReadTypeOK
  BY DEF ReadInv
<1>2. DOMAIN up = 1..Len(up) /\ DOMAIN down = 1..Len(down)
  BY <1>t DEF ReadTypeOK
<1>3. /\ lostMark' \in [TextChannels -> BOOLEAN] /\ missed' \in [TextChannels -> BOOLEAN]
      /\ up' \in Seq(Request) /\ down' \in Seq(Frame)
  BY <1>1, <1>t DEF ReadTypeOK
<1>4. ReadTypeOK'
  BY <1>1, <1>3, <1>t DEF ReadTypeOK
<1>5. /\ \A i \in DOMAIN up' : FALSE
      /\ \A i \in DOMAIN down' : FALSE
  BY <1>1
<1>6. ~Refreshing'
  BY <1>1 DEF Refreshing, Has
<1>7. FetchRight'
  BY <1>6 DEF FetchRight
<1>8. ASSUME NEW d \in TextChannels
      PROVE  ThrottleRight(d)' /\ MarksRight(d)' /\ FramesRight(d)' /\ HeldRight(d)' /\ BadgeRight(d)'
  <2>1. ThrottleRight(d) /\ MarksRight(d) /\ Stream(down, newest[d], d, known[d]) /\ HeldRight(d)
    BY DEF ReadInv, FramesRight
  <2>2. Promised(d)' = Promised(d)
    BY <1>1 DEF Promised
  <2>3. ThrottleRight(d)'
    BY <2>1, <2>2, <1>1 DEF ThrottleRight
  <2>4. MarksRight(d)'
    <3>1. ~lostMark'[d] => ~lostMark[d] /\ ~HasMark(d)
      BY <1>1, <1>2 DEF HasMark, IsMark
    <3>2. ~lostMark'[d] => lastRead'[d] = lastSent'[d]
      BY <3>1, <2>1, <1>1 DEF MarksRight
    <3> QED
      BY <3>2, <1>5 DEF MarksRight
  <2>5. newest[d] \in Nat /\ known[d] \in Nat
    BY ReadTypes
  <2>6. Front(<<>>, newest[d], d, 0, newest[d])
    BY <2>5, FrontEmpty
  <2>7. FramesRight(d)'
    BY <2>5, <2>6, <1>1, <1>5 DEF FramesRight, Stream
  <2>8. HeldRight(d)'
    <3> SUFFICES ASSUME ~missed'[d], listed[d] \/ known[d] > 0
                 PROVE  Front(<<>>, newest[d], d, 0, known[d])
      BY <1>1 DEF HeldRight
    <3>1. ~missed[d] /\ \A i \in DOMAIN down : ~IsMessage(down, i, d)
      BY <1>1, <1>2 DEF IsMessage
    <3>2. Front(down, newest[d], d, 0, known[d])
      BY <3>1, <2>1 DEF HeldRight
    <3>3. known[d] <= newest[d] /\ ~(known[d] < newest[d])
      BY <3>1, <3>2, <2>5 DEF Front
    <3>4. known[d] = newest[d]
      BY <3>3, <2>5
    <3> QED
      BY <3>4, <2>6
  <2>9. BadgeRight(d)'
    BY <1>1 DEF BadgeRight
  <2> QED
    BY <2>3, <2>4, <2>7, <2>8, <2>9
<1> QED
  BY <1>1, <1>4, <1>7, <1>8 DEF ReadInv

LEMMA ReconnectedInv == ASSUME ReadInv, Reconnected PROVE ReadInv'
<1>1. /\ ~connected /\ connected' = TRUE /\ up' = <<FetchCounts>>
      /\ staleCount' = (\E c \in TextChannels : timer[c])
      /\ newest' = newest /\ lastRead' = lastRead /\ missed' = missed /\ down' = down
      /\ chosen' = chosen /\ visible' = visible /\ listed' = listed
      /\ known' = known /\ count' = count /\ waiting' = waiting /\ lastSent' = lastSent
      /\ recent' = recent /\ timer' = timer /\ lostMark' = lostMark
  BY DEF Reconnected, readServer, readView, throttle
<1>t. ReadTypeOK
  BY DEF ReadInv
<1>2. up = <<>> /\ down = <<>>
  BY <1>1 DEF ReadInv
<1>3. /\ up' \in Seq(Request) /\ up'[1] = FetchCounts
      /\ 1 \in DOMAIN up' /\ 1 \in 1..Len(up')
      /\ \A i \in DOMAIN up' : i = 1
  <2>1. PICK e : e = FetchCounts
    OBVIOUS
  <2>2. e \in Request
    BY <2>1, RequestFacts
  <2>3. <<e>> \in Seq(Request) /\ <<e>>[1] = e /\ Len(<<e>>) = 1 /\ DOMAIN <<e>> = 1..1
    BY ONLY <2>2
  <2> QED
    BY <2>1, <2>3, <1>1
<1>4. ReadTypeOK'
  <2>1. staleCount' \in BOOLEAN
    BY <1>1
  <2> QED
    BY <2>1, <1>1, <1>3, <1>t DEF ReadTypeOK
<1>5. Refreshing'
  BY <1>3, RequestFacts DEF Refreshing, Has
<1>6. \A d \in TextChannels, i \in DOMAIN up' : ~IsMark(i, d)'
  BY <1>3, RequestFacts DEF IsMark
<1>7. \A d \in TextChannels : ~HasMark(d)' /\ ~HasMark(d)
  <2>1. \A i \in DOMAIN up : FALSE
    BY <1>2
  <2> QED
    BY <2>1, <1>6 DEF HasMark
<1>8. FetchRight'
  <2>1. \A i \in DOMAIN down' : FALSE
    BY <1>1, <1>2
  <2> QED
    BY <2>1, <1>1, <1>7 DEF FetchRight
<1>9. ASSUME NEW d \in TextChannels
      PROVE  ThrottleRight(d)' /\ MarksRight(d)' /\ FramesRight(d)' /\ HeldRight(d)' /\ BadgeRight(d)'
  <2>1. ThrottleRight(d) /\ MarksRight(d)
    BY DEF ReadInv
  <2>2. Promised(d)' = Promised(d)
    BY <1>1 DEF Promised
  <2>3. ThrottleRight(d)'
    BY <2>1, <2>2, <1>1 DEF ThrottleRight
  <2>4. MarksRight(d)'
    BY <2>1, <1>1, <1>6, <1>7 DEF MarksRight
  <2>5. FramesRight(d)' /\ HeldRight(d)'
    BY <1>1, SameFrames
  <2>6. BadgeRight(d)'
    BY <1>5 DEF BadgeRight
  <2> QED
    BY <2>3, <2>4, <2>5, <2>6
<1> QED
  BY <1>1, <1>4, <1>8, <1>9 DEF ReadInv

LEMMA ReadInitInv == ReadInit => ReadInv
<1> SUFFICES ASSUME ReadInit PROVE ReadInv
  OBVIOUS
<1>1. /\ newest \in [TextChannels -> 0..1] /\ lastRead = Zero /\ missed = None
      /\ connected = TRUE /\ up = <<FetchCounts>> /\ down = <<>>
      /\ chosen = 0 /\ visible = TRUE /\ listed = None
      /\ known = Zero /\ count = Zero
      /\ waiting = Zero /\ lastSent = Zero /\ recent = None /\ timer = None
      /\ lostMark = None /\ staleCount = FALSE
  BY DEF ReadInit
<1>2. /\ Zero \in [TextChannels -> Nat] /\ None \in [TextChannels -> BOOLEAN]
      /\ \A c \in TextChannels : Zero[c] = 0 /\ None[c] = FALSE
  BY DEF Zero, None
<1>3. newest \in [TextChannels -> Nat]
  BY <1>1
<1>4. /\ up \in Seq(Request) /\ up[1] = FetchCounts /\ 1 \in 1..Len(up)
      /\ \A i \in DOMAIN up : i = 1
  <2>1. PICK e : e = FetchCounts
    OBVIOUS
  <2>2. e \in Request
    BY <2>1, RequestFacts
  <2>3. <<e>> \in Seq(Request) /\ <<e>>[1] = e /\ Len(<<e>>) = 1 /\ DOMAIN <<e>> = 1..1
    BY ONLY <2>2
  <2> QED
    BY <2>1, <2>3, <1>1
<1>5. down \in Seq(Frame) /\ \A i \in DOMAIN down : FALSE
  BY <1>1
<1>6. ReadTypeOK
  BY <1>1, <1>2, <1>3, <1>4, <1>5 DEF ReadTypeOK
<1>7. Refreshing
  BY <1>4, RequestFacts DEF Refreshing, Has
<1>8. \A c \in TextChannels, i \in DOMAIN up : ~IsMark(i, c)
  BY <1>4, RequestFacts DEF IsMark
<1>9. \A c \in TextChannels : ~HasMark(c) /\ ~timer[c]
  BY <1>1, <1>2, <1>8 DEF HasMark
<1>10. FetchRight
  BY <1>5, <1>9 DEF FetchRight
<1>11. ASSUME NEW c \in TextChannels
       PROVE  ThrottleRight(c) /\ MarksRight(c) /\ FramesRight(c) /\ HeldRight(c) /\ BadgeRight(c)
  <2>1. /\ newest[c] \in Nat /\ lastRead[c] = 0 /\ known[c] = 0 /\ waiting[c] = 0 /\ lastSent[c] = 0
        /\ ~timer[c] /\ ~listed[c]
    BY <1>1, <1>2, <1>3
  <2>2. Promised(c) = 0
    BY <2>1 DEF Promised
  <2>3. ThrottleRight(c)
    BY <2>1, <2>2 DEF ThrottleRight
  <2>4. MarksRight(c)
    BY <2>1, <1>8 DEF MarksRight
  <2>5. Front(<<>>, newest[c], c, 0, newest[c])
    BY <2>1, FrontEmpty
  <2>6. FramesRight(c)
    BY <2>1, <2>5, <1>1, <1>5 DEF FramesRight, Stream
  <2>7. HeldRight(c)
    BY <2>1 DEF HeldRight
  <2>8. BadgeRight(c)
    BY <1>7 DEF BadgeRight
  <2> QED
    BY <2>3, <2>4, <2>6, <2>7, <2>8
<1> QED
  BY <1>1, <1>6, <1>10, <1>11 DEF ReadInv

LEMMA ReadNextInv == ReadInv /\ [ReadNext]_readVars => ReadInv'
<1> SUFFICES ASSUME ReadInv, [ReadNext]_readVars PROVE ReadInv'
  OBVIOUS
<1>1. CASE UNCHANGED readVars
  <2>1. /\ UNCHANGED <<newest, lastRead, missed, connected, up, down, chosen, visible, listed>>
        /\ UNCHANGED <<known, count, waiting, lastSent, recent, timer, lostMark, staleCount>>
    BY <1>1 DEF readVars, readServer, readWire, readView, throttle
  <2>2. ReadTypeOK'
    BY <2>1 DEF ReadInv, ReadTypeOK
  <2>3. Refreshing' <=> Refreshing
    BY <2>1 DEF Refreshing, Has
  <2>4. ASSUME NEW d \in TextChannels
        PROVE  /\ MarksRight(d)' /\ Promised(d)' = Promised(d)
               /\ HasMark(d)' <=> HasMark(d)
               /\ Claimed(d)' <=> Claimed(d)
               /\ Opening(d)' <=> Opening(d)
    <3>1. /\ MarksRight(d)' /\ Promised(d)' = Promised(d)
          /\ HasMark(d)' <=> HasMark(d)
          /\ Claimed(d)' <=> Claimed(d)
      BY <2>1, ThrottleStays
    <3> QED
      BY <3>1, <2>1 DEF Opening
  <2>5. FetchRight'
    BY <2>1, <2>3, <2>4, FetchStays
  <2>6. ~connected' => up' = <<>> /\ down' = <<>>
    BY <2>1 DEF ReadInv
  <2>7. ASSUME NEW d \in TextChannels
        PROVE  ThrottleRight(d)' /\ FramesRight(d)' /\ HeldRight(d)' /\ BadgeRight(d)'
    <3>1. ThrottleRight(d)
      BY DEF ReadInv
    <3>2. ThrottleRight(d)'
      BY <3>1, <2>1, <2>4 DEF ThrottleRight
    <3>3. FramesRight(d)' /\ HeldRight(d)'
      BY <2>1, SameFrames
    <3>4. BadgeRight(d)'
      BY <2>1, <2>3, <2>4, BadgeKept
    <3> QED
      BY <3>2, <3>3, <3>4
  <2> QED
    BY <2>2, <2>4, <2>5, <2>6, <2>7 DEF ReadInv
<1>2. ASSUME NEW c \in TextChannels,
             \/ Cools(c) \/ TimerFires(c) \/ SaveAndPush(c)
             \/ ReceiveUnread(c) \/ Misses(c) \/ ReceiveHistory(c) \/ OpenChannel(c)
      PROVE  ReadInv'
  BY <1>2, CoolsInv, TimerFiresInv, SaveAndPushInv, ReceiveUnreadInv, MissesInv, ReceiveHistoryInv,
     OpenChannelInv
<1>3. CASE \/ ReceiveCounts \/ Serve \/ AskHistory
           \/ LeaveChannel \/ HidePage \/ ShowPage
           \/ CutOff \/ Reconnected
  BY <1>3, ReceiveCountsInv, ServeInv, AskHistoryInv, LeaveChannelInv, HidePageInv, ShowPageInv,
     CutOffInv, ReconnectedInv
<1> QED
  BY <1>1, <1>2, <1>3 DEF ReadNext

(* Of every channel the marks, the messages and the pages on their way, the *)
(* throttle and the badge fit what the server has saved and marked.         *)
THEOREM ReadInvHolds == ReadSpec => []ReadInv
<1>1. ReadInit => ReadInv
  BY ReadInitInv
<1>2. ReadInv /\ [ReadNext]_readVars => ReadInv'
  BY ReadNextInv
<1> QED
  BY <1>1, <1>2, PTL DEF ReadSpec

LEMMA ReadInvSettles == ReadInv => ReadStateSettles
<1> SUFFICES ASSUME ReadInv PROVE ReadStateSettles
  OBVIOUS
<1>1. ASSUME NEW c \in TextChannels, c = chosen, visible, up = <<>>, ~timer[c], ~lostMark[c]
      PROVE  lastRead[c] >= known[c]
  <2>1. ThrottleRight(c) /\ MarksRight(c)
    BY DEF ReadInv
  <2>2. known[c] = lastSent[c]
    BY <2>1, <1>1 DEF ThrottleRight, Promised
  <2>3. ~HasMark(c)
    BY <1>1 DEF HasMark
  <2>4. lastRead[c] = lastSent[c]
    BY <2>1, <2>3, <1>1 DEF MarksRight
  <2> QED
    BY <2>2, <2>4, ReadTypes
<1>2. ASSUME connected, up = <<>>, down = <<>>, ~staleCount, ~Unlisted, NEW c \in TextChannels,
             ~timer[c], ~lostMark[c]
      PROVE  count[c] = newest[c] - lastRead[c]
  <2>1. MarksRight(c) /\ BadgeRight(c)
    BY DEF ReadInv
  <2>2. ~Refreshing
    BY <1>2 DEF Refreshing, Has
  <2>3. ~HasMark(c)
    BY <1>2 DEF HasMark
  <2>4. Promised(c) = lastRead[c]
    BY <2>1, <2>3, <1>2 DEF MarksRight, Promised
  <2>5. newest[c] \in Nat /\ lastRead[c] \in Nat /\ count[c] \in Nat
    BY ReadTypes
  <2>6. Front(down, newest[c], c, 0, newest[c])
    BY <2>5, <1>2, FrontEmpty
  <2>7. ~Opening(c)
    BY <1>2, ReadAssumption DEF Opening, Unlisted
  <2>8. count[c] + Promised(c) = newest[c]
    BY <2>1, <2>2, <2>5, <2>6, <2>7, <1>2 DEF BadgeRight, Claimed
  <2> QED
    BY <2>4, <2>5, <2>8
<1>3. SeenIsRead
  BY <1>1 DEF SeenIsRead
<1>4. BadgesAgree
  BY <1>2 DEF BadgesAgree
<1> QED
  BY <1>3, <1>4 DEF ReadStateSettles

(* What is seen is read on the server, and what is unread there is the     *)
(* badge, for any channels, any traffic and any number of lost connections *)
(* (markChannelRead and the counters of useUnread.ts).                     *)
THEOREM TheReadStateSettles == ReadSpec => []ReadStateSettles
<1>1. ReadInv => ReadStateSettles
  BY ReadInvSettles
<1> QED
  BY <1>1, ReadInvHolds, PTL
=============================================================================
