----------------------------- MODULE SfuPeerProofs -----------------------------
(***************************************************************************)
(* For any users, peers, sources and queue capacity: no change of a peer's *)
(* subscriptions is forgotten, no negotiation gets stuck, and no track     *)
(* feeds a peer that is not subscribed.  The argument is PeerInv.  A step  *)
(* of one peer's goroutine changes its own negotiation, as the lemmas on   *)
(* SendOffer, Schedule, Answered, Marked and Cleared describe it, and only *)
(* appends to the queues of others (Extended).                             *)
(***************************************************************************)
EXTENDS SfuPeer, SequenceTheorems, FiniteSetTheorems, TLAPS

-----------------------------------------------------------------------------
(* Negotiation.                                                            *)

Sound(n) == n.active => n.signaling = "offered"

(* A negotiation that is active in m was started by the step from n to m,  *)
(* with an offer the client can get; or was active before.                 *)
Fresh(n, m) ==
    /\ m.no = n.no \/ m.no > n.no
    /\ m.active => m.no > n.no /\ ~m.detached

Kept(n, m) ==
    /\ m.no = n.no \/ m.no > n.no
    /\ m.active => \/ n.active /\ m.no = n.no
                   \/ m.no > n.no /\ ~m.detached

(* sendOffer makes an offer of all of s, defers it, or fails.              *)
LEMMA SendOfferResult ==
  ASSUME NEW n \in Negotiations, NEW s \in SUBSET Tracks, NEW m \in SendOffer(n, s)
  PROVE  /\ m \in Negotiations
         /\ Owed(m, s) /\ Sound(m) /\ Fresh(n, m)
         /\ m.detached = n.detached
<1>1. CASE n.detached /\ m = Deferred(n)
  BY <1>1 DEF Deferred, Negotiations, Owed, Sound, Fresh
<1>2. CASE ~n.detached /\ m = Offered(n, s)
  <2> DEFINE next == n.no + 1
  <2>0. n.no \in Nat /\ next \in Nat /\ next > n.no
    BY DEF Negotiations
  <2> HIDE DEF next
  <2>1. m = [n EXCEPT !.active = TRUE, !.error = FALSE, !.signaling = "offered",
                      !.no = next, !.described = s]
    BY <1>2 DEF Offered, next
  <2>2. /\ m.active /\ ~m.error /\ m.signaling = "offered" /\ m.described = s
        /\ m.no = next
        /\ m.pending = n.pending /\ m.detached = n.detached
    BY <2>1 DEF Negotiations
  <2>3. m \in Negotiations
    BY <2>0, <2>1 DEF Negotiations
  <2> QED
    BY <1>2, <2>0, <2>2, <2>3 DEF Owed, Sound, Fresh
<1>3. CASE ~n.detached /\ m = Failed(n)
  BY <1>3 DEF Failed, Negotiations, Owed, Sound, Fresh
<1> QED
  BY <1>1, <1>2, <1>3 DEF SendOffer

(* scheduleNegotiate leaves no change forgotten: it is owed or offered.    *)
LEMMA ScheduleResult ==
  ASSUME NEW n \in Negotiations, Sound(n), NEW s \in SUBSET Tracks, NEW m \in Schedule(n, s)
  PROVE  /\ m \in Negotiations
         /\ Owed(m, s) /\ Sound(m) /\ Kept(n, m)
         /\ m.detached = n.detached
<1>1. CASE n.active
  <2>1. m = [n EXCEPT !.pending = TRUE]
    BY <1>1 DEF Schedule
  <2> QED
    BY <1>1, <2>1 DEF Negotiations, Owed, Sound, Kept
<1>2. CASE ~n.active
  <2>1. m \in SendOffer(n, s)
    BY <1>2 DEF Schedule
  <2> QED
    BY <2>1, SendOfferResult DEF Fresh, Kept
<1> QED
  BY <1>1, <1>2

(* The same for several subscriptions in a row.                            *)
LEMMA ScheduleEachResult ==
  ASSUME NEW n \in Negotiations, Sound(n),
         NEW s \in SUBSET Tracks, Owed(n, s),
         NEW new \in SUBSET Tracks, NEW m \in ScheduleEach(n, s, new)
  PROVE  /\ m \in Negotiations
         /\ Owed(m, s \cup new) /\ Sound(m) /\ Kept(n, m)
         /\ m.detached = n.detached
<1>1. CASE new = {}
  <2>1. m = n /\ s \cup new = s
    BY <1>1 DEF ScheduleEach
  <2> QED
    BY <2>1 DEF Kept
<1>2. CASE new # {}
  <2> DEFINE then(t) == {IF new = {t} THEN {k} ELSE Schedule(k, s \cup new) :
                            k \in Schedule(n, s \cup {t})}
  <2>a. m \in UNION {UNION then(t) : t \in new}
    BY <1>2 DEF ScheduleEach
  <2>0. PICK t \in new : m \in UNION then(t)
    <3> HIDE DEF then
    <3> QED
      BY <2>a
  <2>1. PICK k \in Schedule(n, s \cup {t}) :
           m \in IF new = {t} THEN {k} ELSE Schedule(k, s \cup new)
    BY <2>0
  <2>2. /\ k \in Negotiations
        /\ Owed(k, s \cup {t}) /\ Sound(k) /\ Kept(n, k)
        /\ k.detached = n.detached
    BY <2>1, ScheduleResult
  <2>3. CASE new = {t}
    <3>1. m = k
      BY <2>1, <2>3
    <3> QED
      BY <2>2, <2>3, <3>1
  <2>4. CASE new # {t}
    <3>1. m \in Schedule(k, s \cup new)
      BY <2>1, <2>4
    <3>2. /\ m \in Negotiations
          /\ Owed(m, s \cup new) /\ Sound(m) /\ Kept(k, m)
          /\ m.detached = k.detached
      BY <2>2, <3>1, ScheduleResult
    <3> QED
      BY <2>2, <3>2 DEF Kept, Negotiations
  <2> QED
    BY <2>3, <2>4
<1> QED
  BY <1>1, <1>2

(* handleAnswer ends the negotiation, or starts the one that was pending.  *)
LEMMA AnsweredResult ==
  ASSUME NEW n \in Negotiations, NEW s \in SUBSET Tracks, Owed(n, s),
         NEW no, NEW m \in Answered(n, no, s)
  PROVE  /\ m \in Negotiations
         /\ Owed(m, s) /\ Sound(m) /\ Fresh(n, m)
         /\ m.detached = n.detached
<1> DEFINE stable == [n EXCEPT !.active = FALSE, !.signaling = "stable"]
           ready == [stable EXCEPT !.pending = FALSE]
<1>1. CASE m = Failed(n)
  BY <1>1 DEF Failed, Negotiations, Owed, Sound, Fresh
<1>2. CASE ~n.pending /\ m = stable
  BY <1>2 DEF Negotiations, Owed, Sound, Fresh
<1>3. CASE n.pending /\ m \in SendOffer(ready, s)
  <2>1. ready \in Negotiations /\ ready.no = n.no /\ ready.detached = n.detached
    BY DEF Negotiations
  <2> HIDE DEF ready
  <2> QED
    BY <1>3, <2>1, SendOfferResult DEF Fresh
<1> QED
  BY <1>1, <1>2, <1>3 DEF Answered

(* markDetached gives up a negotiation in flight, and keeps it owed.       *)
LEMMA MarkedResult ==
  ASSUME NEW n \in Negotiations, NEW s \in SUBSET Tracks, Owed(n, s)
  PROVE  /\ Marked(n) \in Negotiations
         /\ Owed(Marked(n), s) /\ Sound(Marked(n)) /\ Fresh(n, Marked(n))
         /\ Marked(n).detached
<1>1. CASE n.active
  BY <1>1 DEF Marked, Deferred, Negotiations, Owed, Sound, Fresh
<1>2. CASE ~n.active
  BY <1>2 DEF Marked, Negotiations, Owed, Sound, Fresh
<1> QED
  BY <1>1, <1>2

(* clearDetached offers what is owed.                                      *)
LEMMA ClearedResult ==
  ASSUME NEW n \in Negotiations, Sound(n), NEW s \in SUBSET Tracks, Owed(n, s),
         NEW m \in Cleared(n, s)
  PROVE  /\ m \in Negotiations
         /\ Owed(m, s) /\ Sound(m) /\ Kept(n, m)
<1> DEFINE ready == [n EXCEPT !.detached = FALSE, !.pending = FALSE]
<1>1. CASE n.pending
  <2>1. ready \in Negotiations /\ ready.no = n.no
    BY DEF Negotiations
  <2>2. m \in SendOffer(ready, s)
    BY <1>1 DEF Cleared
  <2> HIDE DEF ready
  <2> QED
    BY <2>1, <2>2, SendOfferResult DEF Fresh, Kept
<1>2. CASE ~n.pending
  <2>1. m = [n EXCEPT !.detached = FALSE]
    BY <1>2 DEF Cleared
  <2> QED
    BY <1>2, <2>1 DEF Negotiations, Owed, Sound, Kept
<1> QED
  BY <1>1, <1>2

-----------------------------------------------------------------------------
(* Queues.                                                                 *)

(* enqueue keeps to the capacity, and loses nothing that fits.             *)
LEMMA FitResult ==
  ASSUME NEW q \in Seq(Commands), Len(q) <= QueueCap, NEW more \in Seq(Commands)
  PROVE  /\ Fit(q, more) \in Seq(Commands)
         /\ Len(Fit(q, more)) <= QueueCap
         /\ Len(q) + Len(more) <= QueueCap => Fit(q, more) = q \o more
<1>1. /\ q \o more \in Seq(Commands)
      /\ Len(q \o more) = Len(q) + Len(more)
      /\ Len(q) \in Nat /\ Len(more) \in Nat /\ QueueCap \in Nat
  BY ConcatProperties, LenProperties, PeerAssumption
<1>2. CASE Len(q) + Len(more) <= QueueCap
  BY <1>1, <1>2 DEF Fit
<1>3. CASE ~(Len(q) + Len(more) <= QueueCap)
  <2>1. \A i \in 1..QueueCap : (q \o more)[i] \in Commands
    BY <1>1, <1>3, ElementOfSeq
  <2>2. /\ SubSeq(q \o more, 1, QueueCap) \in Seq(Commands)
        /\ Len(SubSeq(q \o more, 1, QueueCap)) = QueueCap
    <3> DEFINE all == q \o more
    <3>1. QueueCap \in Nat \ {0} /\ 1 \in Int /\ QueueCap \in Int
      BY PeerAssumption
    <3>2. \A i \in 1..QueueCap : all[i] \in Commands
      BY <2>1
    <3> HIDE DEF all
    <3>3. /\ SubSeq(all, 1, QueueCap) \in Seq(Commands)
          /\ Len(SubSeq(all, 1, QueueCap)) = IF 1 <= QueueCap THEN QueueCap - 1 + 1 ELSE 0
      BY <3>1, <3>2, SubSeqProperties
    <3>4. Len(SubSeq(all, 1, QueueCap)) = QueueCap
      BY <3>1, <3>3
    <3> QED
      BY <3>3, <3>4 DEF all
  <2> QED
    BY <1>1, <1>3, <2>2 DEF Fit
<1> QED
  BY <1>2, <1>3

(* Of several peers at once; a peer that lost none has them all in order.  *)
LEMMA PostResult ==
  ASSUME stopped \in SUBSET Peers, dropped \in SUBSET Peers,
         NEW rest \in [Peers -> Seq(Commands)], \A r \in Peers : Len(rest[r]) <= QueueCap,
         NEW more \in [Peers -> Seq(Commands)],
         Post(rest, more)
  PROVE  /\ queue' \in [Peers -> Seq(Commands)]
         /\ \A r \in Peers : Len(queue'[r]) <= QueueCap
         /\ dropped' \in SUBSET Peers /\ dropped \subseteq dropped'
         /\ \A r \in Peers \ (stopped \cup dropped') : queue'[r] = rest[r] \o more[r]
<1>1. \A r \in Peers : /\ Fit(rest[r], more[r]) \in Seq(Commands)
                       /\ Len(Fit(rest[r], more[r])) <= QueueCap
                       /\ Len(rest[r]) + Len(more[r]) <= QueueCap =>
                            Fit(rest[r], more[r]) = rest[r] \o more[r]
  BY FitResult
<1>2. \A r \in Peers : queue'[r] = IF r \in stopped THEN rest[r] ELSE Fit(rest[r], more[r])
  BY DEF Post
<1>3. queue' = [r \in Peers |-> IF r \in stopped THEN rest[r] ELSE Fit(rest[r], more[r])]
  BY DEF Post
<1>4. queue' \in [Peers -> Seq(Commands)]
  BY <1>1, <1>3
<1>5. \A r \in Peers : Len(queue'[r]) <= QueueCap
  BY <1>1, <1>2
<1>6. dropped' \in SUBSET Peers /\ dropped \subseteq dropped'
  BY DEF Post
<1>7. ASSUME NEW r \in Peers \ (stopped \cup dropped')
      PROVE  queue'[r] = rest[r] \o more[r]
  <2>1. ~(Len(rest[r]) + Len(more[r]) > QueueCap)
    BY DEF Post
  <2>2. Len(rest[r]) \in Nat /\ Len(more[r]) \in Nat /\ QueueCap \in Nat
    BY LenProperties, PeerAssumption
  <2> QED
    BY <1>1, <1>2, <2>1, <2>2
<1> QED
  BY <1>4, <1>5, <1>6, <1>7

(* Taking the running command off the queue.                               *)
LEMMA PoppedResult ==
  ASSUME PeerTypeOK, NEW p \in Peers, queue[p] # <<>>
  PROVE  /\ Popped(p) \in [Peers -> Seq(Commands)]
         /\ \A r \in Peers : Len(Popped(p)[r]) <= QueueCap
         /\ \A r \in Peers : Popped(p)[r] = IF r = p THEN Tail(queue[p]) ELSE queue[r]
<1>1. queue[p] \in Seq(Commands) /\ Len(queue[p]) <= QueueCap
  BY DEF PeerTypeOK
<1>2. Tail(queue[p]) \in Seq(Commands) /\ Len(Tail(queue[p])) = Len(queue[p]) - 1
  BY <1>1, HeadTailProperties
<1>3. Len(queue[p]) \in Nat /\ QueueCap \in Nat
  BY <1>1, LenProperties, PeerAssumption
<1>4. Len(Tail(queue[p])) <= QueueCap
  BY <1>1, <1>2, <1>3
<1>5. \A r \in Peers : Popped(p)[r] = IF r = p THEN Tail(queue[p]) ELSE queue[r]
  BY DEF PeerTypeOK, Popped
<1>6. Popped(p) \in [Peers -> Seq(Commands)]
  BY <1>2 DEF PeerTypeOK, Popped
<1>7. \A r \in Peers : Len(Popped(p)[r]) <= QueueCap
  BY <1>4, <1>5 DEF PeerTypeOK
<1> QED
  BY <1>5, <1>6, <1>7

(* A command that posts nothing only leaves the queue.                     *)
LEMMA DoneResult ==
  ASSUME PeerTypeOK, NEW p \in Peers, queue[p] # <<>>, Done(p)
  PROVE  /\ queue' \in [Peers -> Seq(Commands)]
         /\ \A r \in Peers : Len(queue'[r]) <= QueueCap
         /\ dropped' \in SUBSET Peers /\ dropped \subseteq dropped'
         /\ \A r \in Peers \ (stopped \cup dropped') :
               queue'[r] = IF r = p THEN Tail(queue[p]) ELSE queue[r]
<1>1. /\ Popped(p) \in [Peers -> Seq(Commands)]
      /\ \A r \in Peers : Len(Popped(p)[r]) <= QueueCap
      /\ \A r \in Peers : Popped(p)[r] = IF r = p THEN Tail(queue[p]) ELSE queue[r]
  BY PoppedResult
<1>2. Nothing \in [Peers -> Seq(Commands)] /\ \A r \in Peers : Nothing[r] = <<>>
  BY EmptySeq DEF Nothing
<1>3. /\ queue' \in [Peers -> Seq(Commands)]
      /\ \A r \in Peers : Len(queue'[r]) <= QueueCap
      /\ dropped' \in SUBSET Peers /\ dropped \subseteq dropped'
      /\ \A r \in Peers \ (stopped \cup dropped') : queue'[r] = Popped(p)[r] \o Nothing[r]
  BY <1>1, <1>2, PostResult DEF Done, PeerTypeOK
<1>4. \A r \in Peers : Popped(p)[r] \o Nothing[r] = Popped(p)[r]
  BY <1>1, <1>2, ConcatEmptySeq
<1> QED
  BY <1>1, <1>3, <1>4

(* One command, to one peer.                                               *)
LEMMA EnqueueResult ==
  ASSUME PeerTypeOK, NEW p \in Peers, NEW cmd \in Commands, Enqueue(p, cmd)
  PROVE  /\ queue' \in [Peers -> Seq(Commands)]
         /\ \A r \in Peers : Len(queue'[r]) <= QueueCap
         /\ dropped' \in SUBSET Peers /\ dropped \subseteq dropped'
         /\ \A r \in Peers \ (stopped \cup dropped') :
               queue'[r] = IF r = p THEN Append(queue[p], cmd) ELSE queue[r]
<1> DEFINE more == [Nothing EXCEPT ![p] = <<cmd>>]
<1>1. /\ more \in [Peers -> Seq(Commands)]
      /\ \A r \in Peers : more[r] = IF r = p THEN <<cmd>> ELSE <<>>
  <2>1. <<cmd>> \in Seq(Commands) /\ <<>> \in Seq(Commands)
    BY EmptySeq, AppendProperties
  <2> QED
    BY <2>1 DEF Nothing
<1> HIDE DEF more
<1>2. /\ queue' \in [Peers -> Seq(Commands)]
      /\ \A r \in Peers : Len(queue'[r]) <= QueueCap
      /\ dropped' \in SUBSET Peers /\ dropped \subseteq dropped'
      /\ \A r \in Peers \ (stopped \cup dropped') : queue'[r] = queue[r] \o more[r]
  <2>1. Post(queue, more)
    BY DEF Enqueue, more
  <2> QED
    BY <1>1, <2>1, PostResult DEF PeerTypeOK
<1>3. \A r \in Peers : queue[r] \o more[r] = IF r = p THEN Append(queue[p], cmd) ELSE queue[r]
  <2>1. \A r \in Peers : queue[r] \in Seq(Commands)
    BY DEF PeerTypeOK
  <2>2. \A r \in Peers : queue[r] \o <<>> = queue[r]
    BY <2>1, ConcatEmptySeq
  <2>3. queue[p] \o <<cmd>> = Append(queue[p], cmd)
    BY <2>1, AppendIsConcat
  <2> QED
    BY <1>1, <2>2, <2>3
<1> QED
  BY <1>2, <1>3

-----------------------------------------------------------------------------
(* What a step keeps.                                                      *)

(* r is q with other commands than "clear" behind it.                      *)
Grown(q, r) ==
    /\ \A i \in DOMAIN q : i \in DOMAIN r /\ r[i] = q[i]
    /\ \A i \in DOMAIN r : i \notin DOMAIN q => r[i].op # "clear"

Undisturbed(p) ==
    /\ stage'[p] = stage[p] /\ link'[p] = link[p] /\ client'[p] = client[p]
    /\ neg'[p] = neg[p] /\ wire'[p] = wire[p]
    /\ Grown(queue[p], queue'[p])

(* What is queued behind is no trouble if it is not "clear".               *)
LEMMA ConcatGrows ==
  ASSUME NEW q \in Seq(Commands), NEW x \in Seq(Commands),
         \A i \in DOMAIN x : x[i].op # "clear"
  PROVE  Grown(q, q \o x)
<1>1. /\ q \o x \in Seq(Commands)
      /\ Len(q \o x) = Len(q) + Len(x)
      /\ \A i \in 1..Len(q) + Len(x) :
            (q \o x)[i] = IF i <= Len(q) THEN q[i] ELSE x[i - Len(q)]
  BY ConcatProperties
<1>2. /\ Len(q) \in Nat /\ Len(x) \in Nat
      /\ DOMAIN q = 1..Len(q) /\ DOMAIN x = 1..Len(x)
      /\ DOMAIN (q \o x) = 1..Len(q \o x)
  BY <1>1, LenProperties
<1> QED
  BY <1>1, <1>2 DEF Grown

(* A peer whose queue only grows stays as it is.                           *)
LEMMA Bystander ==
  ASSUME NEW p \in Peers, NotStuck(p), LossMarked(p), Undisturbed(p)
  PROVE  NotStuck(p)' /\ LossMarked(p)'
<1>1. InFlight(p) => InFlight(p)'
  BY DEF Undisturbed, Grown, InFlight
<1>2. NotStuck(p)'
  BY <1>1 DEF NotStuck, Answers, Undisturbed
<1>3. WillBeMarked(p) => WillBeMarked(p)'
  BY DEF Undisturbed, Grown, WillBeMarked
<1>4. NoClearQueued(p) => NoClearQueued(p)'
  BY DEF Undisturbed, Grown, NoClearQueued
<1>5. LossMarked(p)'
  BY <1>3, <1>4 DEF LossMarked, Undisturbed
<1> QED
  BY <1>2, <1>5

(* A step of p alone keeps PeerInv if p keeps its share of it.             *)
LEMMA OnlyOne ==
  ASSUME PeerInv, PeerTypeOK', NEW p \in Peers,
         stopped \subseteq stopped', dropped \subseteq dropped',
         \A r \in Peers \ {p} : neg'[r] = neg[r] /\ subs'[r] = subs[r],
         \A r \in Peers \ (stopped' \cup dropped') : r # p => Undisturbed(r),
         p \notin stopped' => Owed(neg'[p], subs'[p]) /\ Sound(neg'[p]),
         p \notin stopped' \cup dropped' => NotStuck(p)' /\ LossMarked(p)',
         NoFeedWithoutSubscription'
  PROVE  PeerInv'
<1>1. ASSUME NEW r \in Peers \ stopped'
      PROVE  Owed(neg'[r], subs'[r]) /\ Sound(neg'[r])
  <2>1. r # p => Owed(neg[r], subs[r]) /\ Sound(neg[r])
    BY DEF PeerInv, NothingForgotten, Outstanding, Sound
  <2> QED
    BY <2>1
<1>2. NothingForgotten' /\ \A r \in Peers \ stopped' : Outstanding(r)'
  BY <1>1 DEF NothingForgotten, Outstanding, Owed, Sound
<1>3. ASSUME NEW r \in Peers \ (stopped' \cup dropped')
      PROVE  NotStuck(r)' /\ LossMarked(r)'
  <2>1. r # p => NotStuck(r) /\ LossMarked(r)
    BY DEF PeerInv
  <2> QED
    BY <2>1, Bystander
<1> QED
  BY <1>2, <1>3 DEF PeerInv

(* Subscriptions and listeners are left alone by most steps.               *)
LEMMA SameFeed ==
  ASSUME NoFeedWithoutSubscription, UNCHANGED <<subs, listeners, stopped>>
  PROVE  NoFeedWithoutSubscription'
BY DEF NoFeedWithoutSubscription

(* What becomes of a message or a flag when negotiation goes on.           *)
LEMMA NegotiatedResult ==
  ASSUME PeerTypeOK, NEW p \in Peers, NEW m \in Negotiations,
         NEW also \in SUBSET Messages, Negotiated(p, m, also)
  PROVE  /\ neg' \in [Peers -> Negotiations]
         /\ neg'[p] = m
         /\ \A r \in Peers \ {p} : neg'[r] = neg[r]
         /\ wire' \in [Peers -> SUBSET Messages]
         /\ \A r \in Peers \ {p} : wire'[r] = wire[r]
         /\ wire[p] \subseteq wire'[p]
         /\ \A x \in wire'[p] \ wire[p] : x.kind = "welcome" => x \in also
         /\ link[p] = "up" /\ m.no # neg[p].no => [kind |-> "offer", no |-> m.no] \in wire'[p]
<1> DEFINE offer == {x \in {[kind |-> "offer", no |-> m.no]} : m.no # neg[p].no}
<1>1. offer \in SUBSET Messages /\ \A x \in offer : x.kind = "offer"
  BY DEF Messages, Negotiations
<1>2. link[p] = "up" /\ m.no # neg[p].no => [kind |-> "offer", no |-> m.no] \in offer
  OBVIOUS
<1>3. /\ neg' = [neg EXCEPT ![p] = m]
      /\ wire' = IF link[p] = "up" THEN [wire EXCEPT ![p] = @ \cup offer \cup also] ELSE wire
  BY DEF Negotiated
<1> HIDE DEF offer
<1> QED
  BY <1>1, <1>2, <1>3 DEF PeerTypeOK

-----------------------------------------------------------------------------
(* The goroutine's step.                                                   *)

(* How the step may change the negotiation, by the command it runs.        *)
Renewed(op, n, m) ==
    \/ op \notin {"mark", "clear", "answer"} /\ Kept(n, m) /\ m.detached = n.detached
    \/ op = "answer" /\ Fresh(n, m) /\ m.detached = n.detached
    \/ op = "mark" /\ Fresh(n, m) /\ m.detached
    \/ op = "clear" /\ Kept(n, m)

(* What the step of p leaves of its environment.                           *)
OwnStep(p) ==
    /\ stage'[p] = stage[p] /\ link'[p] = link[p] /\ client'[p] = client[p]
    /\ Renewed(Head(queue[p]).op, neg[p], neg'[p])
    /\ wire[p] \subseteq wire'[p]
    /\ \A x \in wire'[p] \ wire[p] : x.kind = "welcome" => neg[p].signaling = "stable"
    /\ link[p] = "up" /\ neg'[p].no # neg[p].no =>
         [kind |-> "offer", no |-> neg'[p].no] \in wire'[p]

(* Element i+1 of a queue is element i once the first is taken.            *)
LEMMA Taken ==
  ASSUME NEW q \in Seq(Commands), q # <<>>
  PROVE  /\ Head(q) = q[1] /\ 1 \in DOMAIN q
         /\ DOMAIN q \subseteq Nat /\ DOMAIN Tail(q) \subseteq Nat
         /\ \A i \in DOMAIN q : i # 1 => i - 1 \in DOMAIN Tail(q) /\ Tail(q)[i - 1] = q[i]
         /\ \A i \in DOMAIN Tail(q) : i + 1 \in DOMAIN q /\ Tail(q)[i] = q[i + 1]
<1>1. /\ Tail(q) \in Seq(Commands) /\ Len(Tail(q)) = Len(q) - 1
      /\ \A i \in 1..Len(Tail(q)) : Tail(q)[i] = q[i + 1]
  BY HeadTailProperties
<1>2. Len(q) \in Nat \ {0} /\ DOMAIN q = 1..Len(q) /\ DOMAIN Tail(q) = 1..Len(Tail(q))
  BY <1>1, LenProperties, EmptySeq
<1> QED
  BY <1>1, <1>2

(* A detached session stays marked, or to be marked.                       *)
LEMMA OwnLossMarked ==
  ASSUME NEW p \in Peers, queue[p] \in Seq(Commands), queue[p] # <<>>,
         queue'[p] = Tail(queue[p]),
         LossMarked(p), OwnStep(p)
  PROVE  LossMarked(p)'
<1> DEFINE op == Head(queue[p]).op
<1>0. /\ Head(queue[p]) = queue[p][1] /\ 1 \in DOMAIN queue[p]
      /\ DOMAIN queue[p] \subseteq Nat /\ DOMAIN queue'[p] \subseteq Nat
      /\ \A i \in DOMAIN queue[p] :
            i # 1 => i - 1 \in DOMAIN queue'[p] /\ queue'[p][i - 1] = queue[p][i]
      /\ \A i \in DOMAIN queue'[p] :
            i + 1 \in DOMAIN queue[p] /\ queue'[p][i] = queue[p][i + 1]
  BY Taken
<1> SUFFICES ASSUME stage[p] # "left", link[p] = "down"
             PROVE  WillBeMarked(p)' \/ (neg'[p].detached /\ NoClearQueued(p)')
  BY DEF LossMarked, OwnStep
<1>1. CASE WillBeMarked(p)
  <2>1. PICK i \in DOMAIN queue[p] :
           /\ queue[p][i].op = "mark"
           /\ \A j \in DOMAIN queue[p] : j > i => queue[p][j].op # "clear"
    BY <1>1 DEF WillBeMarked
  <2>2. CASE i = 1
    <3>1. neg'[p].detached
      BY <1>0, <2>1, <2>2 DEF OwnStep, Renewed
    <3>2. NoClearQueued(p)'
      BY <1>0, <2>1, <2>2 DEF NoClearQueued
    <3> QED
      BY <3>1, <3>2
  <2>3. CASE i # 1
    <3>1. i - 1 \in DOMAIN queue'[p] /\ queue'[p][i - 1].op = "mark"
      BY <1>0, <2>1, <2>3
    <3>2. \A j \in DOMAIN queue'[p] : j > i - 1 => queue'[p][j].op # "clear"
      BY <1>0, <2>1
    <3> QED
      BY <3>1, <3>2 DEF WillBeMarked
  <2> QED
    BY <2>2, <2>3
<1>2. CASE neg[p].detached /\ NoClearQueued(p)
  <2>1. op # "clear"
    BY <1>0, <1>2 DEF NoClearQueued
  <2>2. neg'[p].detached
    BY <1>2, <2>1 DEF OwnStep, Renewed
  <2>3. NoClearQueued(p)'
    BY <1>0, <1>2 DEF NoClearQueued
  <2> QED
    BY <2>2, <2>3
<1> QED
  BY <1>1, <1>2 DEF LossMarked

(* A negotiation that is active afterwards is in flight: its offer was     *)
(* sent, or will be given up by the mark.                                  *)
LEMMA OwnNotStuck ==
  ASSUME NEW p \in Peers, queue[p] \in Seq(Commands), queue[p] # <<>>,
         neg[p] \in Negotiations, link[p] \in {"up", "lost", "down"},
         neg'[p] \in Negotiations,
         queue'[p] = Tail(queue[p]),
         NotStuck(p), Outstanding(p), OwnStep(p), LossMarked(p)'
  PROVE  NotStuck(p)'
<1> DEFINE op == Head(queue[p]).op
<1>0. /\ Head(queue[p]) = queue[p][1]
      /\ \A i \in DOMAIN queue[p] :
            i # 1 => i - 1 \in DOMAIN queue'[p] /\ queue'[p][i - 1] = queue[p][i]
  BY Taken
<1> SUFFICES ASSUME stage[p] # "left", Answers(p)', neg'[p].active
             PROVE  InFlight(p)'
  BY DEF NotStuck, OwnStep
<1>1. CASE neg'[p].no > neg[p].no /\ ~neg'[p].detached
  <2>1. neg'[p].no # neg[p].no
    BY <1>1 DEF Negotiations
  <2>2. CASE link[p] = "up"
    BY <2>1, <2>2 DEF OwnStep, InFlight
  <2>3. CASE link[p] = "lost"
    BY <2>3 DEF OwnStep, InFlight
  <2>4. CASE link[p] = "down"
    <3>1. WillBeMarked(p)'
      BY <1>1, <2>4 DEF OwnStep, LossMarked
    <3> QED
      BY <3>1 DEF WillBeMarked, InFlight
  <2> QED
    BY <2>2, <2>3, <2>4
<1>2. CASE neg[p].active /\ neg'[p].no = neg[p].no /\ op \notin {"mark", "answer"}
  <2>1. neg[p].signaling # "stable"
    BY <1>2 DEF Outstanding
  <2>2. Answers(p)
    BY <2>1 DEF Answers, OwnStep
  <2>3. InFlight(p)
    BY <1>2, <2>2 DEF NotStuck
  <2>4. ASSUME NEW i \in DOMAIN queue[p],
               queue[p][i].op = "mark" \/ queue[p][i] = [op |-> "answer", no |-> neg[p].no]
        PROVE  InFlight(p)'
    <3>1. queue[p][i].op \in {"mark", "answer"}
      BY <2>4
    <3>2. i # 1
      BY <1>0, <1>2, <3>1
    <3>3. i - 1 \in DOMAIN queue'[p] /\ queue'[p][i - 1] = queue[p][i]
      BY <1>0, <3>2
    <3> QED
      BY <1>2, <2>4, <3>3 DEF InFlight
  <2>5. CASE \E x \in wire[p] : x.kind \in {"offer", "answer"} /\ x.no = neg[p].no
    BY <1>2, <2>5 DEF OwnStep, InFlight
  <2>6. CASE link[p] = "lost"
    BY <2>6 DEF OwnStep, InFlight
  <2> QED
    BY <2>3, <2>4, <2>5, <2>6 DEF InFlight
<1> QED
  <2>1. Renewed(op, neg[p], neg'[p])
    BY DEF OwnStep
  <2>2. op \in {"mark", "answer"} => neg'[p].no > neg[p].no /\ ~neg'[p].detached
    BY <2>1 DEF Renewed, Fresh
  <2>3. op \notin {"mark", "answer"} =>
           \/ neg[p].active /\ neg'[p].no = neg[p].no
           \/ neg'[p].no > neg[p].no /\ ~neg'[p].detached
    BY <2>1 DEF Renewed, Kept
  <2> QED
    BY <1>1, <1>2, <2>2, <2>3

(* A command that only takes itself off the queue keeps PeerInv if the     *)
(* negotiation it leaves is sound and owes what no offer has described.    *)
LEMMA RunKeeps ==
  ASSUME PeerInv, NEW p \in Peers, p \notin stopped, queue[p] # <<>>, Done(p),
         OwnStep(p), UNCHANGED <<envVars, published, stopped>>,
         neg' \in [Peers -> Negotiations], wire' \in [Peers -> SUBSET Messages],
         subs' \in [Peers -> SUBSET Tracks], listeners' \in [Tracks -> SUBSET Users],
         \A r \in Peers \ {p} : neg'[r] = neg[r] /\ wire'[r] = wire[r] /\ subs'[r] = subs[r],
         Owed(neg'[p], subs'[p]), Sound(neg'[p]),
         NoFeedWithoutSubscription'
  PROVE  PeerInv'
<1>0. PeerTypeOK
  BY DEF PeerInv
<1>1. /\ queue' \in [Peers -> Seq(Commands)]
      /\ \A r \in Peers : Len(queue'[r]) <= QueueCap
      /\ dropped' \in SUBSET Peers /\ dropped \subseteq dropped'
      /\ \A r \in Peers \ (stopped \cup dropped') :
            queue'[r] = IF r = p THEN Tail(queue[p]) ELSE queue[r]
  BY <1>0, DoneResult
<1>2. PeerTypeOK'
  BY <1>0, <1>1 DEF PeerTypeOK, envVars
<1>3. \A r \in Peers \ (stopped' \cup dropped') : r # p => Undisturbed(r)
  BY <1>1 DEF Undisturbed, Grown, envVars
<1>4. ASSUME p \notin stopped' \cup dropped'
      PROVE  NotStuck(p)' /\ LossMarked(p)'
  <2>1. NotStuck(p) /\ LossMarked(p) /\ Outstanding(p)
    BY <1>1, <1>4 DEF PeerInv
  <2>2. queue'[p] = Tail(queue[p])
    BY <1>1, <1>4
  <2>3. /\ queue[p] \in Seq(Commands) /\ neg[p] \in Negotiations
        /\ neg'[p] \in Negotiations /\ link[p] \in {"up", "lost", "down"}
    BY <1>0 DEF PeerTypeOK
  <2>4. LossMarked(p)'
    BY <2>1, <2>2, <2>3, OwnLossMarked
  <2> QED
    BY <2>1, <2>2, <2>3, <2>4, OwnNotStuck
<1> QED
  BY <1>1, <1>2, <1>3, <1>4, OnlyOne

(* So does a command that goes on to negotiate.                            *)
LEMMA NegotiatedKeeps ==
  ASSUME PeerInv, NEW p \in Peers, p \notin stopped, queue[p] # <<>>, Done(p),
         UNCHANGED <<envVars, published, stopped>>,
         NEW m \in Negotiations, NEW also \in SUBSET Messages, Negotiated(p, m, also),
         also # {} => neg[p].signaling = "stable",
         Renewed(Head(queue[p]).op, neg[p], m),
         subs' \in [Peers -> SUBSET Tracks], listeners' \in [Tracks -> SUBSET Users],
         \A r \in Peers \ {p} : subs'[r] = subs[r],
         Owed(m, subs'[p]), Sound(m),
         NoFeedWithoutSubscription'
  PROVE  PeerInv'
<1>1. /\ neg' \in [Peers -> Negotiations]
      /\ neg'[p] = m
      /\ \A r \in Peers \ {p} : neg'[r] = neg[r]
      /\ wire' \in [Peers -> SUBSET Messages]
      /\ \A r \in Peers \ {p} : wire'[r] = wire[r]
      /\ wire[p] \subseteq wire'[p]
      /\ \A x \in wire'[p] \ wire[p] : x.kind = "welcome" => x \in also
      /\ link[p] = "up" /\ m.no # neg[p].no => [kind |-> "offer", no |-> m.no] \in wire'[p]
  BY NegotiatedResult DEF PeerInv
<1>2. OwnStep(p)
  BY <1>1 DEF OwnStep, envVars
<1> QED
  BY <1>1, <1>2, RunKeeps

(* doSubscribe adds the peer to the tracks it adds to its subscriptions.   *)
LEMMA DoSubscribeResult ==
  ASSUME PeerInv, NEW p \in Peers, p \notin stopped, NEW tracks \in SUBSET Tracks, NEW also,
         DoSubscribe(p, tracks, also), UNCHANGED stopped
  PROVE  /\ subs' \in [Peers -> SUBSET Tracks] /\ listeners' \in [Tracks -> SUBSET Users]
         /\ \A r \in Peers \ {p} : subs'[r] = subs[r]
         /\ NoFeedWithoutSubscription'
         /\ \E m \in Negotiations :
               /\ Negotiated(p, m, also)
               /\ Owed(m, subs'[p]) /\ Sound(m) /\ Kept(neg[p], m)
               /\ m.detached = neg[p].detached
<1> DEFINE new == {t \in tracks : Subscribed(p, SubKey(t)) = {}}
<1>0. /\ new \in SUBSET Tracks /\ subs[p] \in SUBSET Tracks
      /\ neg[p] \in Negotiations /\ UserOf[p] \in Users
      /\ listeners \in [Tracks -> SUBSET Users] /\ subs \in [Peers -> SUBSET Tracks]
  BY PeerAssumption DEF PeerInv, PeerTypeOK
<1>1. /\ \E m \in ScheduleEach(neg[p], subs[p], new) : Negotiated(p, m, also)
      /\ subs' = [subs EXCEPT ![p] = @ \cup new]
      /\ listeners' = [t \in Tracks |->
                         IF t \in new THEN listeners[t] \cup {UserOf[p]} ELSE listeners[t]]
  BY DEF DoSubscribe
<1> HIDE DEF new
<1>2. /\ subs' \in [Peers -> SUBSET Tracks] /\ listeners' \in [Tracks -> SUBSET Users]
      /\ subs'[p] = subs[p] \cup new
      /\ \A r \in Peers \ {p} : subs'[r] = subs[r]
      /\ \A t \in Tracks : listeners'[t] \subseteq
             IF t \in new THEN listeners[t] \cup {UserOf[p]} ELSE listeners[t]
  BY <1>0, <1>1
<1>3. NoFeedWithoutSubscription'
  <2> SUFFICES ASSUME NEW t \in Tracks, NEW u \in listeners'[t]
               PROVE  \E r \in Peers \ stopped : UserOf[r] = u /\ t \in subs'[r]
    BY DEF NoFeedWithoutSubscription
  <2>1. CASE u \in listeners[t]
    <3>1. PICK r \in Peers \ stopped : UserOf[r] = u /\ t \in subs[r]
      BY <2>1 DEF PeerInv, NoFeedWithoutSubscription
    <3>2. t \in subs'[r]
      BY <1>2, <3>1
    <3> QED
      BY <3>1, <3>2
  <2>2. CASE u \notin listeners[t]
    BY <1>2, <2>2
  <2> QED
    BY <2>1, <2>2
<1>4. Owed(neg[p], subs[p]) /\ Sound(neg[p])
  BY DEF PeerInv, NothingForgotten, Outstanding, Sound
<1>5. PICK m \in ScheduleEach(neg[p], subs[p], new) : Negotiated(p, m, also)
  BY <1>1
<1>6. /\ m \in Negotiations
      /\ Owed(m, subs[p] \cup new) /\ Sound(m) /\ Kept(neg[p], m)
      /\ m.detached = neg[p].detached
  BY <1>0, <1>4, ScheduleEachResult
<1> QED
  BY <1>2, <1>3, <1>5, <1>6

(* doUnsubscribe takes the peer off the tracks it takes off its own.       *)
LEMMA DoUnsubscribeResult ==
  ASSUME PeerInv, NEW p \in Peers, p \notin stopped, NEW key,
         DoUnsubscribe(p, key), UNCHANGED stopped
  PROVE  /\ subs' \in [Peers -> SUBSET Tracks] /\ listeners' \in [Tracks -> SUBSET Users]
         /\ \A r \in Peers \ {p} : subs'[r] = subs[r]
         /\ NoFeedWithoutSubscription'
         /\ \/ subs'[p] = subs[p] /\ UNCHANGED <<neg, wire>>
            \/ \E m \in Negotiations :
                  /\ Negotiated(p, m, {})
                  /\ Owed(m, subs'[p]) /\ Sound(m) /\ Kept(neg[p], m)
                  /\ m.detached = neg[p].detached
<1> DEFINE old == Subscribed(p, key)
<1>0. /\ subs[p] \ old \in SUBSET Tracks
      /\ neg[p] \in Negotiations
      /\ listeners \in [Tracks -> SUBSET Users] /\ subs \in [Peers -> SUBSET Tracks]
  BY DEF PeerInv, PeerTypeOK
<1>1. /\ \/ old = {} /\ UNCHANGED <<neg, wire>>
         \/ old # {} /\ \E m \in Schedule(neg[p], subs[p] \ old) : Negotiated(p, m, {})
      /\ subs' = [subs EXCEPT ![p] = @ \ old]
      /\ listeners' = [t \in Tracks |->
                         IF t \in old THEN listeners[t] \ {UserOf[p]} ELSE listeners[t]]
  BY DEF DoUnsubscribe
<1> HIDE DEF old
<1>2. /\ subs' \in [Peers -> SUBSET Tracks] /\ listeners' \in [Tracks -> SUBSET Users]
      /\ subs'[p] = subs[p] \ old
      /\ \A r \in Peers \ {p} : subs'[r] = subs[r]
      /\ \A t \in Tracks : listeners'[t] =
             IF t \in old THEN listeners[t] \ {UserOf[p]} ELSE listeners[t]
  BY <1>0, <1>1
<1>3. NoFeedWithoutSubscription'
  <2> SUFFICES ASSUME NEW t \in Tracks, NEW u \in listeners'[t]
               PROVE  \E r \in Peers \ stopped : UserOf[r] = u /\ t \in subs'[r]
    BY DEF NoFeedWithoutSubscription
  <2>1. u \in listeners[t] /\ (t \in old => u # UserOf[p])
    BY <1>2
  <2>2. PICK r \in Peers \ stopped : UserOf[r] = u /\ t \in subs[r]
    BY <2>1 DEF PeerInv, NoFeedWithoutSubscription
  <2>3. t \in subs'[r]
    BY <1>2, <2>1, <2>2
  <2> QED
    BY <2>2, <2>3
<1>4. Sound(neg[p])
  BY DEF PeerInv, Outstanding, Sound
<1>5. CASE old = {} /\ UNCHANGED <<neg, wire>>
  BY <1>2, <1>3, <1>5
<1>6. CASE \E m \in Schedule(neg[p], subs[p] \ old) : Negotiated(p, m, {})
  <2>1. PICK m \in Schedule(neg[p], subs[p] \ old) : Negotiated(p, m, {})
    BY <1>6
  <2>2. /\ m \in Negotiations
        /\ Owed(m, subs[p] \ old) /\ Sound(m) /\ Kept(neg[p], m)
        /\ m.detached = neg[p].detached
    BY <1>0, <1>4, ScheduleResult
  <2> QED
    BY <1>2, <1>3, <2>1, <2>2
<1> QED
  BY <1>1, <1>5, <1>6

-----------------------------------------------------------------------------
(* One lemma for each command.                                             *)

(* handleOffer answers and subscribes, or fails and changes nothing.       *)
LEMMA RunHelloKeeps ==
  ASSUME PeerInv, NEW p \in Peers, RunHello(p)
  PROVE  PeerInv'
<1> DEFINE tracks == UNION {{q} \X (published[q] \cap Audio) : q \in Others(p)}
           also == {[kind |-> "welcome", no |-> 0]}
<1>0. /\ p \notin stopped /\ queue[p] # <<>> /\ Head(queue[p]).op = "hello"
      /\ Done(p) /\ UNCHANGED <<envVars, published, stopped>>
      /\ \/ neg[p].signaling = "stable" /\ DoSubscribe(p, tracks, also)
         \/ UNCHANGED <<neg, wire, subs, listeners>>
  BY DEF RunHello, Runs
<1>1. CASE neg[p].signaling = "stable" /\ DoSubscribe(p, tracks, also)
  <2>1. tracks \in SUBSET Tracks
    BY DEF PeerInv, PeerTypeOK, Tracks, Sources, Others
  <2>2. also \in SUBSET Messages
    BY DEF Messages
  <2> HIDE DEF tracks, also
  <2>3. /\ subs' \in [Peers -> SUBSET Tracks] /\ listeners' \in [Tracks -> SUBSET Users]
        /\ \A r \in Peers \ {p} : subs'[r] = subs[r]
        /\ NoFeedWithoutSubscription'
        /\ \E m \in Negotiations :
              /\ Negotiated(p, m, also)
              /\ Owed(m, subs'[p]) /\ Sound(m) /\ Kept(neg[p], m)
              /\ m.detached = neg[p].detached
    BY <1>0, <1>1, <2>1, DoSubscribeResult
  <2> QED
    BY <1>0, <1>1, <2>2, <2>3, NegotiatedKeeps DEF Renewed
<1>2. CASE UNCHANGED <<neg, wire, subs, listeners>>
  <2>1. OwnStep(p)
    BY <1>0, <1>2 DEF OwnStep, Renewed, Kept, envVars
  <2>2. Owed(neg'[p], subs'[p]) /\ Sound(neg'[p]) /\ NoFeedWithoutSubscription'
    BY <1>0, <1>2, SameFeed DEF PeerInv, NothingForgotten, Outstanding, Sound
  <2> QED
    BY <1>0, <1>2, <2>1, <2>2, RunKeeps DEF PeerInv, PeerTypeOK
<1> QED
  BY <1>0, <1>1, <1>2

(* handleAnswer, markDetached and clearDetached leave subscriptions alone. *)
LEMMA RunFlagsKeeps ==
  ASSUME PeerInv, NEW p \in Peers, RunAnswer(p) \/ RunMark(p) \/ RunClear(p)
  PROVE  PeerInv'
<1>0. /\ p \notin stopped /\ queue[p] # <<>>
      /\ Done(p) /\ UNCHANGED <<envVars, subs, listeners, published, stopped>>
      /\ neg[p] \in Negotiations /\ subs[p] \in SUBSET Tracks
      /\ subs \in [Peers -> SUBSET Tracks] /\ listeners \in [Tracks -> SUBSET Users]
      /\ Owed(neg[p], subs[p]) /\ Sound(neg[p])
  BY DEF RunAnswer, RunMark, RunClear, Runs, PeerInv, PeerTypeOK, NothingForgotten,
         Outstanding, Sound
<1>1. NoFeedWithoutSubscription'
  BY <1>0, SameFeed DEF PeerInv
<1>2. \E m \in Negotiations :
         /\ Negotiated(p, m, {})
         /\ Owed(m, subs[p]) /\ Sound(m) /\ Renewed(Head(queue[p]).op, neg[p], m)
  <2>1. CASE RunAnswer(p)
    <3>1. PICK m \in Answered(neg[p], Head(queue[p]).no, subs[p]) : Negotiated(p, m, {})
      BY <2>1 DEF RunAnswer
    <3> QED
      BY <1>0, <2>1, <3>1, AnsweredResult DEF RunAnswer, Runs, Renewed
  <2>2. CASE RunMark(p)
    BY <1>0, <2>2, MarkedResult DEF RunMark, Runs, Renewed
  <2>3. CASE RunClear(p)
    <3>1. PICK m \in Cleared(neg[p], subs[p]) : Negotiated(p, m, {})
      BY <2>3 DEF RunClear
    <3> QED
      BY <1>0, <2>3, <3>1, ClearedResult DEF RunClear, Runs, Renewed
  <2> QED
    BY <2>1, <2>2, <2>3
<1> QED
  BY <1>0, <1>1, <1>2, NegotiatedKeeps

(* A subscription posted by a publisher, or asked for.                     *)
LEMMA RunSubKeeps ==
  ASSUME PeerInv, NEW p \in Peers, RunSub(p) \/ RunWant(p)
  PROVE  PeerInv'
<1>0. /\ p \notin stopped /\ queue[p] # <<>> /\ Head(queue[p]).op \in {"sub", "want"}
      /\ Done(p) /\ UNCHANGED <<envVars, published, stopped>>
  BY DEF RunSub, RunWant, Runs
<1>1. PICK tracks \in SUBSET Tracks : DoSubscribe(p, tracks, {})
  <2>1. Head(queue[p]) \in Commands
    BY <1>0, HeadTailProperties DEF PeerInv, PeerTypeOK
  <2>2. Head(queue[p]).track \in Tracks
    BY <1>0, <2>1 DEF Commands
  <2> QED
    BY <2>2 DEF RunSub, RunWant
<1>2. /\ subs' \in [Peers -> SUBSET Tracks] /\ listeners' \in [Tracks -> SUBSET Users]
      /\ \A r \in Peers \ {p} : subs'[r] = subs[r]
      /\ NoFeedWithoutSubscription'
      /\ \E m \in Negotiations :
            /\ Negotiated(p, m, {})
            /\ Owed(m, subs'[p]) /\ Sound(m) /\ Kept(neg[p], m)
            /\ m.detached = neg[p].detached
  BY <1>0, <1>1, DoSubscribeResult
<1> QED
  BY <1>0, <1>2, NegotiatedKeeps DEF Renewed

(* A subscription given up.                                                *)
LEMMA RunUnsubKeeps ==
  ASSUME PeerInv, NEW p \in Peers, RunUnsub(p)
  PROVE  PeerInv'
<1> DEFINE key == <<Head(queue[p]).user, Head(queue[p]).source>>
<1>0. /\ p \notin stopped /\ queue[p] # <<>> /\ Head(queue[p]).op = "unsub"
      /\ Done(p) /\ UNCHANGED <<envVars, published, stopped>>
      /\ DoUnsubscribe(p, key)
  BY DEF RunUnsub, Runs
<1> HIDE DEF key
<1>1. /\ subs' \in [Peers -> SUBSET Tracks] /\ listeners' \in [Tracks -> SUBSET Users]
      /\ \A r \in Peers \ {p} : subs'[r] = subs[r]
      /\ NoFeedWithoutSubscription'
      /\ \/ subs'[p] = subs[p] /\ UNCHANGED <<neg, wire>>
         \/ \E m \in Negotiations :
               /\ Negotiated(p, m, {})
               /\ Owed(m, subs'[p]) /\ Sound(m) /\ Kept(neg[p], m)
               /\ m.detached = neg[p].detached
  BY <1>0, DoUnsubscribeResult
<1>2. CASE subs'[p] = subs[p] /\ UNCHANGED <<neg, wire>>
  <2>1. OwnStep(p)
    BY <1>0, <1>2 DEF OwnStep, Renewed, Kept, envVars
  <2>2. Owed(neg'[p], subs'[p]) /\ Sound(neg'[p])
    BY <1>0, <1>2 DEF PeerInv, NothingForgotten, Outstanding, Sound
  <2> QED
    BY <1>0, <1>1, <1>2, <2>1, <2>2, RunKeeps DEF PeerInv, PeerTypeOK
<1>3. CASE \E m \in Negotiations :
              /\ Negotiated(p, m, {})
              /\ Owed(m, subs'[p]) /\ Sound(m) /\ Kept(neg[p], m)
              /\ m.detached = neg[p].detached
  BY <1>0, <1>1, <1>3, NegotiatedKeeps DEF Renewed
<1> QED
  BY <1>1, <1>2, <1>3

(* A new track is posted to the others, behind what they have queued.      *)
LEMMA RunTrackKeeps ==
  ASSUME PeerInv, NEW p \in Peers, RunTrack(p)
  PROVE  PeerInv'
<1> DEFINE s == Head(queue[p]).source
           more == [r \in Peers |->
                      IF s \in Audio /\ r \in Others(p)
                      THEN <<[op |-> "sub", track |-> <<p, s>>]>> ELSE <<>>]
<1>0. /\ PeerTypeOK /\ p \notin stopped /\ queue[p] # <<>> /\ Head(queue[p]).op = "track"
      /\ published' = [published EXCEPT ![p] = @ \cup {s}]
      /\ Post(Popped(p), more)
      /\ UNCHANGED <<envVars, wire, neg, subs, listeners, stopped>>
  BY DEF RunTrack, Runs, PeerInv
<1>1. s \in Sources
  <2>1. Head(queue[p]) \in Commands
    BY <1>0, HeadTailProperties DEF PeerTypeOK
  <2> QED
    BY <1>0, <2>1 DEF Commands
<1> HIDE DEF s
<1>2. /\ more \in [Peers -> Seq(Commands)]
      /\ more[p] = <<>>
      /\ \A r \in Peers : \A i \in DOMAIN more[r] : more[r][i].op # "clear"
  <2> DEFINE cmd == [op |-> "sub", track |-> <<p, s>>]
  <2>1. cmd \in Commands /\ cmd.op # "clear"
    BY <1>1 DEF Commands, Tracks
  <2> HIDE DEF cmd
  <2>2. <<cmd>> \in Seq(Commands) /\ <<>> \in Seq(Commands)
    BY <2>1, EmptySeq, AppendProperties
  <2>3. more = [r \in Peers |-> IF s \in Audio /\ r \in Others(p) THEN <<cmd>> ELSE <<>>]
    BY DEF cmd
  <2> HIDE DEF more
  <2>4. p \notin Others(p)
    BY DEF Others
  <2> QED
    BY <2>1, <2>2, <2>3, <2>4
<1> HIDE DEF more
<1>3. /\ Popped(p) \in [Peers -> Seq(Commands)]
      /\ \A r \in Peers : Len(Popped(p)[r]) <= QueueCap
      /\ \A r \in Peers : Popped(p)[r] = IF r = p THEN Tail(queue[p]) ELSE queue[r]
  BY <1>0, PoppedResult
<1>4. /\ queue' \in [Peers -> Seq(Commands)]
      /\ \A r \in Peers : Len(queue'[r]) <= QueueCap
      /\ dropped' \in SUBSET Peers /\ dropped \subseteq dropped'
      /\ \A r \in Peers \ (stopped \cup dropped') : queue'[r] = Popped(p)[r] \o more[r]
  BY <1>0, <1>2, <1>3, PostResult DEF PeerTypeOK
<1>5. PeerTypeOK'
  BY <1>0, <1>1, <1>4 DEF PeerTypeOK, envVars
<1>6. ASSUME NEW r \in Peers \ (stopped \cup dropped'), r # p
      PROVE  Undisturbed(r)
  <2>1. queue'[r] = queue[r] \o more[r] /\ queue[r] \in Seq(Commands)
    BY <1>0, <1>3, <1>4, <1>6 DEF PeerTypeOK
  <2>2. Grown(queue[r], queue'[r])
    BY <1>2, <2>1, ConcatGrows
  <2> QED
    BY <1>0, <2>2 DEF Undisturbed, envVars
<1>7. ASSUME p \notin stopped' \cup dropped'
      PROVE  NotStuck(p)' /\ LossMarked(p)'
  <2>1. queue[p] \in Seq(Commands) /\ Tail(queue[p]) \in Seq(Commands)
    BY <1>0, HeadTailProperties DEF PeerTypeOK
  <2>2. queue'[p] = Tail(queue[p])
    <3>1. queue'[p] = Tail(queue[p]) \o <<>>
      BY <1>0, <1>2, <1>3, <1>4, <1>7
    <3> DEFINE rest == Tail(queue[p])
    <3>2. rest \o <<>> = rest
      <4> HIDE DEF rest
      <4>1. ASSUME rest \in Seq(Commands) PROVE rest \o <<>> = rest
        BY <4>1, ConcatEmptySeq
      <4> QED
        BY <2>1, <4>1 DEF rest
    <3> QED
      BY <3>1, <3>2
  <2>3. NotStuck(p) /\ LossMarked(p) /\ Outstanding(p) /\ OwnStep(p)
    BY <1>0, <1>4, <1>7 DEF PeerInv, OwnStep, Renewed, Kept, envVars
  <2>4. neg[p] \in Negotiations /\ neg'[p] \in Negotiations /\ link[p] \in {"up", "lost", "down"}
    BY <1>0 DEF PeerTypeOK
  <2>5. LossMarked(p)'
    BY <1>0, <2>1, <2>2, <2>3, OwnLossMarked
  <2> QED
    BY <1>0, <2>1, <2>2, <2>3, <2>4, <2>5, OwnNotStuck
<1>8. Owed(neg'[p], subs'[p]) /\ Sound(neg'[p])
  BY <1>0 DEF PeerInv, NothingForgotten, Outstanding, Sound
<1>9. NoFeedWithoutSubscription'
  BY <1>0, SameFeed DEF PeerInv
<1> QED
  BY <1>0, <1>4, <1>5, <1>6, <1>7, <1>8, <1>9, OnlyOne

(* doClose ends p; the subscribers of its tracks are told.                 *)
LEMMA RunCloseKeeps ==
  ASSUME PeerInv, NEW p \in Peers, RunClose(p)
  PROVE  PeerInv'
<1> DEFINE rest == [queue EXCEPT ![p] = <<>>]
<1>0. /\ PeerTypeOK
      /\ p \notin stopped
      /\ stopped' = stopped \cup {p}
      /\ subs' = [subs EXCEPT ![p] = {}]
      /\ listeners' = [t \in Tracks |->
                         IF t \in subs[p] THEN listeners[t] \ {UserOf[p]} ELSE listeners[t]]
      /\ TellAll(p)
      /\ UNCHANGED <<envVars, wire, neg, published>>
  BY DEF RunClose, Runs, PeerInv
<1>1. PICK order \in [Peers -> UNION {Orders(S) : S \in SUBSET published[p]}] :
         /\ \A r \in Peers : order[r] \in Orders(Heard(p, r))
         /\ Post(rest, Unsubs(p, order))
  BY <1>0 DEF TellAll
<1>2. ASSUME NEW r \in Peers
      PROVE  /\ Unsubs(p, order)[r] \in Seq(Commands)
             /\ \A i \in DOMAIN Unsubs(p, order)[r] : Unsubs(p, order)[r][i].op # "clear"
  <2>1. Heard(p, r) \subseteq Sources
    BY <1>0 DEF Heard, PeerTypeOK
  <2>2. Cardinality(Heard(p, r)) \in Nat
    BY <2>1, FS_Subset, FS_CardinalityType, PeerAssumption DEF Sources
  <2>3. order[r] \in [1..Cardinality(Heard(p, r)) -> Sources]
    BY <1>1, <2>1 DEF Orders
  <2> DEFINE n == Cardinality(Heard(p, r))
             told == [i \in 1..n |-> [op |-> "unsub", user |-> UserOf[p], source |-> order[r][i]]]
  <2>4. Unsubs(p, order)[r] = told
    BY <2>3 DEF Unsubs
  <2>5. UserOf[p] \in Users
    BY PeerAssumption
  <2>6. told \in [1..n -> Commands]
    BY <2>3, <2>5 DEF Commands
  <2>7. \A i \in 1..n : told[i].op # "clear"
    OBVIOUS
  <2> HIDE DEF told
  <2>8. told \in Seq(Commands) /\ DOMAIN told = 1..n
    BY <2>2, <2>6, SeqDef
  <2> QED
    BY <2>4, <2>7, <2>8
<1>3. Unsubs(p, order) \in [Peers -> Seq(Commands)]
  BY <1>2 DEF Unsubs
<1>4. /\ rest \in [Peers -> Seq(Commands)]
      /\ \A r \in Peers : Len(rest[r]) <= QueueCap
      /\ \A r \in Peers : r # p => rest[r] = queue[r]
  BY <1>0, EmptySeq, PeerAssumption DEF PeerTypeOK
<1> HIDE DEF rest
<1>5. /\ queue' \in [Peers -> Seq(Commands)]
      /\ \A r \in Peers : Len(queue'[r]) <= QueueCap
      /\ dropped' \in SUBSET Peers /\ dropped \subseteq dropped'
      /\ \A r \in Peers \ (stopped \cup dropped') : queue'[r] = rest[r] \o Unsubs(p, order)[r]
  BY <1>0, <1>1, <1>3, <1>4, PostResult DEF PeerTypeOK
<1>6. PeerTypeOK'
  <2>1. subs' \in [Peers -> SUBSET Tracks] /\ listeners' \in [Tracks -> SUBSET Users]
    BY <1>0 DEF PeerTypeOK
  <2> QED
    BY <1>0, <1>5, <2>1 DEF PeerTypeOK, envVars
<1>7. ASSUME NEW r \in Peers \ (stopped \cup dropped'), r # p
      PROVE  Undisturbed(r)
  <2>1. queue'[r] = queue[r] \o Unsubs(p, order)[r] /\ queue[r] \in Seq(Commands)
    BY <1>0, <1>4, <1>5, <1>7 DEF PeerTypeOK
  <2>2. Grown(queue[r], queue'[r])
    BY <1>2, <2>1, ConcatGrows
  <2> QED
    BY <1>0, <2>2 DEF Undisturbed, envVars
<1>8. NoFeedWithoutSubscription'
  <2> SUFFICES ASSUME NEW t \in Tracks, NEW u \in listeners'[t]
               PROVE  \E r \in Peers \ stopped' : UserOf[r] = u /\ t \in subs'[r]
    BY DEF NoFeedWithoutSubscription
  <2>1. u \in listeners[t] /\ (t \in subs[p] => u # UserOf[p])
    BY <1>0
  <2>2. PICK r \in Peers \ stopped : UserOf[r] = u /\ t \in subs[r]
    BY <2>1 DEF PeerInv, NoFeedWithoutSubscription
  <2>3. r # p /\ t \in subs'[r]
    BY <1>0, <2>1, <2>2 DEF PeerTypeOK
  <2> QED
    BY <1>0, <2>2, <2>3
<1>9. \A r \in Peers \ {p} : neg'[r] = neg[r] /\ subs'[r] = subs[r]
  BY <1>0 DEF PeerTypeOK
<1> QED
  BY <1>0, <1>5, <1>6, <1>7, <1>8, <1>9, OnlyOne

-----------------------------------------------------------------------------
(* Router calls, the network and the client.                               *)

(* A step that is none of a goroutine's keeps PeerInv if the one peer it   *)
(* is about keeps its share.                                               *)
LEMMA EnvironmentKeeps ==
  ASSUME PeerInv, PeerTypeOK', NEW p \in Peers, UNCHANGED peerVars,
         dropped \subseteq dropped',
         \A r \in Peers \ {p} :
            /\ stage'[r] = stage[r] /\ link'[r] = link[r] /\ client'[r] = client[r]
            /\ wire'[r] = wire[r],
         \A r \in Peers \ (stopped \cup dropped') : r # p => queue'[r] = queue[r],
         p \notin stopped \cup dropped' => NotStuck(p)' /\ LossMarked(p)'
  PROVE  PeerInv'
<1>1. UNCHANGED <<neg, subs, listeners, stopped>>
  BY DEF peerVars
<1>2. \A r \in Peers \ (stopped' \cup dropped') : r # p => Undisturbed(r)
  BY <1>1 DEF Undisturbed, Grown
<1>3. p \notin stopped' => Owed(neg'[p], subs'[p]) /\ Sound(neg'[p])
  BY <1>1 DEF PeerInv, NothingForgotten, Outstanding, Sound
<1>4. NoFeedWithoutSubscription'
  BY <1>1, SameFeed DEF PeerInv
<1> QED
  BY <1>1, <1>2, <1>3, <1>4, OnlyOne

(* What is queued last.                                                    *)
LEMMA AppendGrows ==
  ASSUME NEW q \in Seq(Commands), NEW cmd \in Commands
  PROVE  /\ cmd.op # "clear" => Grown(q, Append(q, cmd))
         /\ \A i \in DOMAIN q : i \in DOMAIN Append(q, cmd) /\ Append(q, cmd)[i] = q[i]
         /\ \E i \in DOMAIN Append(q, cmd) :
               /\ Append(q, cmd)[i] = cmd
               /\ \A j \in DOMAIN Append(q, cmd) : ~(j > i)
<1> DEFINE r == Append(q, cmd)
<1>1. /\ r \in Seq(Commands) /\ Len(r) = Len(q) + 1
      /\ \A i \in 1..Len(q) : r[i] = q[i]
      /\ r[Len(q) + 1] = cmd
  BY AppendProperties
<1>2. Len(q) \in Nat /\ DOMAIN q = 1..Len(q) /\ DOMAIN r = 1..Len(r)
  BY <1>1, LenProperties
<1> HIDE DEF r
<1>3. cmd.op # "clear" => Grown(q, r)
  BY <1>1, <1>2 DEF Grown
<1>4. \A i \in DOMAIN q : i \in DOMAIN r /\ r[i] = q[i]
  BY <1>1, <1>2
<1>5. \E i \in DOMAIN r : r[i] = cmd /\ \A j \in DOMAIN r : ~(j > i)
  BY <1>1, <1>2
<1> QED
  BY <1>3, <1>4, <1>5 DEF r

(* A command posted to p by a call that touches nothing else of it.        *)
LEMMA PostedKeeps ==
  ASSUME PeerInv, NEW p \in Peers, NEW cmd \in Commands, cmd.op # "clear", Enqueue(p, cmd),
         UNCHANGED <<stage, link, client, losses, wire, peerVars>>,
         streams' \in [Peers -> SUBSET Sources], requests' \in [Peers -> Nat]
  PROVE  PeerInv'
<1>0. PeerTypeOK
  BY DEF PeerInv
<1>1. /\ queue' \in [Peers -> Seq(Commands)]
      /\ \A r \in Peers : Len(queue'[r]) <= QueueCap
      /\ dropped' \in SUBSET Peers /\ dropped \subseteq dropped'
      /\ \A r \in Peers \ (stopped \cup dropped') :
            queue'[r] = IF r = p THEN Append(queue[p], cmd) ELSE queue[r]
  BY <1>0, EnqueueResult
<1>2. PeerTypeOK'
  BY <1>0, <1>1 DEF PeerTypeOK, peerVars
<1>3. ASSUME p \notin stopped \cup dropped'
      PROVE  NotStuck(p)' /\ LossMarked(p)'
  <2>1. Grown(queue[p], queue'[p])
    <3>1. queue'[p] = Append(queue[p], cmd) /\ queue[p] \in Seq(Commands)
      BY <1>0, <1>1, <1>3 DEF PeerTypeOK
    <3> QED
      BY <3>1, AppendGrows
  <2>2. NotStuck(p) /\ LossMarked(p)
    BY <1>1, <1>3 DEF PeerInv
  <2>3. Undisturbed(p)
    BY <2>1 DEF Undisturbed, peerVars
  <2> QED
    BY <2>2, <2>3, Bystander
<1> QED
  BY <1>1, <1>2, <1>3, EnvironmentKeeps

(* OnTrack only posts ...                                                  *)
LEMMA OnTrackKeeps ==
  ASSUME PeerInv, NEW p \in Peers, NEW s \in Sources, OnTrack(p, s)
  PROVE  PeerInv'
<1> DEFINE cmd == [op |-> "track", source |-> s]
<1>1. cmd \in Commands /\ cmd.op # "clear"
  BY DEF Commands
<1>2. Enqueue(p, cmd) /\ UNCHANGED <<stage, link, client, losses, wire, peerVars>>
  BY DEF OnTrack
<1>3. streams' \in [Peers -> SUBSET Sources] /\ requests' \in [Peers -> Nat]
  BY DEF OnTrack, PeerInv, PeerTypeOK
<1> HIDE DEF cmd
<1> QED
  BY <1>1, <1>2, <1>3, PostedKeeps

(* ... and so does SubscribeVideo.                                         *)
LEMMA SubscribeVideoKeeps ==
  ASSUME PeerInv, NEW p \in Peers, NEW u \in Users, NEW s \in Video, SubscribeVideo(p, u, s)
  PROVE  PeerInv'
<1>1. \E cmd \in Commands : cmd.op # "clear" /\ Enqueue(p, cmd)
  <2>1. CASE Enqueue(p, [op |-> "unsub", user |-> u, source |-> s])
    <3>1. /\ [op |-> "unsub", user |-> u, source |-> s] \in Commands
          /\ [op |-> "unsub", user |-> u, source |-> s].op # "clear"
      BY DEF Commands, Sources
    <3> QED
      BY <2>1, <3>1
  <2>2. ASSUME NEW q \in Others(p), Enqueue(p, [op |-> "want", track |-> <<q, s>>])
        PROVE  \E cmd \in Commands : cmd.op # "clear" /\ Enqueue(p, cmd)
    <3>1. /\ [op |-> "want", track |-> <<q, s>>] \in Commands
          /\ [op |-> "want", track |-> <<q, s>>].op # "clear"
      BY DEF Commands, Sources, Tracks, Others
    <3> QED
      BY <2>2, <3>1
  <2> QED
    BY <2>1, <2>2 DEF SubscribeVideo
<1>2. UNCHANGED <<stage, link, client, losses, wire, peerVars>>
  BY DEF SubscribeVideo
<1>3. streams' \in [Peers -> SUBSET Sources] /\ requests' \in [Peers -> Nat]
  BY DEF SubscribeVideo, PeerInv, PeerTypeOK
<1> QED
  BY <1>1, <1>2, <1>3, PostedKeeps

(* A peer that has left is owed nothing; one that joins is as it was.      *)
LEMMA JoinLeaveKeeps ==
  ASSUME PeerInv, NEW p \in Peers, Join(p) \/ Leave(p)
  PROVE  PeerInv'
<1>0. PeerTypeOK
  BY DEF PeerInv
<1>1. CASE Join(p)
  <2>1. PeerTypeOK'
    BY <1>0, <1>1 DEF Join, PeerTypeOK, peerVars
  <2>2. ASSUME p \notin stopped \cup dropped'
        PROVE  NotStuck(p)' /\ LossMarked(p)'
    <3>1. NotStuck(p) /\ LossMarked(p) /\ stage[p] = "out"
      BY <1>1, <2>2 DEF Join, PeerInv
    <3>2. UNCHANGED <<link, client, wire, queue, neg>>
      BY <1>1 DEF Join, peerVars
    <3>3. (Answers(p)' => Answers(p)) /\ (InFlight(p) => InFlight(p)')
      BY <3>2 DEF Answers, InFlight
    <3>4. (WillBeMarked(p) => WillBeMarked(p)') /\ (NoClearQueued(p) => NoClearQueued(p)')
      BY <3>2 DEF WillBeMarked, NoClearQueued
    <3> QED
      BY <3>1, <3>2, <3>3, <3>4 DEF NotStuck, LossMarked
  <2>3. /\ UNCHANGED <<peerVars, queue, dropped>>
        /\ \A r \in Peers \ {p} :
              /\ stage'[r] = stage[r] /\ link'[r] = link[r] /\ client'[r] = client[r]
              /\ wire'[r] = wire[r]
    BY <1>0, <1>1 DEF Join, PeerTypeOK
  <2> QED
    BY <2>1, <2>2, <2>3, EnvironmentKeeps
<1>2. CASE Leave(p)
  <2> DEFINE cmd == [op |-> "close"]
  <2>1. cmd \in Commands
    BY DEF Commands
  <2>2. Enqueue(p, cmd) /\ UNCHANGED peerVars
    BY <1>2 DEF Leave
  <2> HIDE DEF cmd
  <2>3. /\ queue' \in [Peers -> Seq(Commands)]
        /\ \A r \in Peers : Len(queue'[r]) <= QueueCap
        /\ dropped' \in SUBSET Peers /\ dropped \subseteq dropped'
        /\ \A r \in Peers \ (stopped \cup dropped') :
              queue'[r] = IF r = p THEN Append(queue[p], cmd) ELSE queue[r]
    BY <1>0, <2>1, <2>2, EnqueueResult
  <2>4. PeerTypeOK'
    BY <1>0, <1>2, <2>3 DEF Leave, PeerTypeOK, peerVars
  <2>5. NotStuck(p)' /\ LossMarked(p)'
    BY <1>0, <1>2 DEF Leave, NotStuck, LossMarked, PeerTypeOK
  <2>6. \A r \in Peers \ {p} :
           /\ stage'[r] = stage[r] /\ link'[r] = link[r] /\ client'[r] = client[r]
           /\ wire'[r] = wire[r]
    BY <1>0, <1>2 DEF Leave, PeerTypeOK
  <2> QED
    BY <2>2, <2>3, <2>4, <2>5, <2>6, EnvironmentKeeps
<1> QED
  BY <1>1, <1>2

(* A lost WebSocket is marked when it is noticed, and cleared by a resume. *)
LEMMA LinkKeeps ==
  ASSUME PeerInv, NEW p \in Peers, Lose(p) \/ Detach(p) \/ Resume(p)
  PROVE  PeerInv'
<1>0. PeerTypeOK
  BY DEF PeerInv
<1>1. CASE Lose(p)
  <2>1. PeerTypeOK'
    BY <1>0, <1>1 DEF Lose, PeerTypeOK, peerVars
  <2>2. link'[p] = "lost"
    BY <1>0, <1>1 DEF Lose, PeerTypeOK
  <2>3. NotStuck(p)' /\ LossMarked(p)'
    BY <2>2 DEF NotStuck, LossMarked, InFlight
  <2>4. /\ UNCHANGED <<peerVars, queue, dropped>>
        /\ \A r \in Peers \ {p} :
              /\ stage'[r] = stage[r] /\ link'[r] = link[r] /\ client'[r] = client[r]
              /\ wire'[r] = wire[r]
    BY <1>0, <1>1 DEF Lose, PeerTypeOK
  <2> QED
    BY <2>1, <2>3, <2>4, EnvironmentKeeps
<1>2. CASE Detach(p) \/ Resume(p)
  <2>1. PICK cmd \in Commands :
           /\ Enqueue(p, cmd)
           /\ \/ Detach(p) /\ cmd.op = "mark"
              \/ Resume(p) /\ cmd.op = "clear"
    BY <1>2 DEF Detach, Resume, Commands
  <2>2. /\ queue' \in [Peers -> Seq(Commands)]
        /\ \A r \in Peers : Len(queue'[r]) <= QueueCap
        /\ dropped' \in SUBSET Peers /\ dropped \subseteq dropped'
        /\ \A r \in Peers \ (stopped \cup dropped') :
              queue'[r] = IF r = p THEN Append(queue[p], cmd) ELSE queue[r]
    BY <1>0, <2>1, EnqueueResult
  <2>3. /\ UNCHANGED <<stage, client, wire, peerVars>>
        /\ link' \in [Peers -> {"up", "lost", "down"}]
        /\ \A r \in Peers \ {p} : link'[r] = link[r]
        /\ Detach(p) => link'[p] = "down"
        /\ Resume(p) => link[p] = "down" /\ link'[p] = "up"
    BY <1>0, <1>2 DEF Detach, Resume, PeerTypeOK
  <2>4. PeerTypeOK'
    BY <1>0, <1>2, <2>2, <2>3 DEF Detach, Resume, PeerTypeOK, peerVars
  <2>5. ASSUME p \notin stopped \cup dropped'
        PROVE  NotStuck(p)' /\ LossMarked(p)'
    <3>1. /\ \A i \in DOMAIN queue[p] : i \in DOMAIN queue'[p] /\ queue'[p][i] = queue[p][i]
          /\ \E i \in DOMAIN queue'[p] :
                queue'[p][i] = cmd /\ \A j \in DOMAIN queue'[p] : ~(j > i)
      <4>1. queue'[p] = Append(queue[p], cmd) /\ queue[p] \in Seq(Commands)
        BY <1>0, <2>2, <2>5 DEF PeerTypeOK
      <4> QED
        BY <4>1, AppendGrows
    <3>2. CASE Detach(p) /\ cmd.op = "mark"
      <4>1. WillBeMarked(p)'
        BY <3>1, <3>2 DEF WillBeMarked
      <4>2. InFlight(p)'
        BY <3>1, <3>2 DEF InFlight
      <4> QED
        BY <4>1, <4>2 DEF NotStuck, LossMarked
    <3>3. CASE Resume(p)
      <4>1. LossMarked(p)'
        BY <2>3, <3>3 DEF LossMarked
      <4>2. NotStuck(p)
        BY <2>2, <2>5 DEF PeerInv
      <4>3. InFlight(p) => InFlight(p)'
        BY <2>3, <3>1, <3>3 DEF InFlight, peerVars
      <4>4. NotStuck(p)'
        BY <2>3, <4>2, <4>3 DEF NotStuck, Answers, peerVars
      <4> QED
        BY <4>1, <4>4
    <3> QED
      BY <2>1, <3>2, <3>3
  <2> QED
    BY <2>2, <2>3, <2>4, <2>5, EnvironmentKeeps
<1> QED
  BY <1>1, <1>2

(* Messages and the client's side.                                         *)
LEMMA ClientKeeps ==
  ASSUME PeerInv, NEW p \in Peers,
         SendHello(p) \/ Settle(p) \/ \E m \in wire[p] : AnswerOffer(p, m)
  PROVE  PeerInv'
<1>0. PeerTypeOK
  BY DEF PeerInv
<1>1. /\ UNCHANGED <<stage, link, streams, requests, losses, queue, peerVars, dropped>>
      /\ client' \in [Peers -> {"new", "offered", "settled"}]
      /\ \A r \in Peers \ {p} : client'[r] = client[r]
  BY <1>0 DEF SendHello, Settle, AnswerOffer, PeerTypeOK, envVars
<1>2. /\ wire' \in [Peers -> SUBSET Messages]
      /\ \A r \in Peers \ {p} : wire'[r] = wire[r]
  <2>1. CASE SendHello(p)
    BY <1>0, <2>1 DEF SendHello, PeerTypeOK, Messages
  <2>2. CASE Settle(p)
    BY <1>0, <2>2 DEF Settle, PeerTypeOK
  <2>3. CASE \E m \in wire[p] : AnswerOffer(p, m)
    <3>1. PICK m \in wire[p] : AnswerOffer(p, m)
      BY <2>3
    <3>2. m \in Messages
      BY <1>0 DEF PeerTypeOK
    <3>3. [kind |-> "answer", no |-> m.no] \in Messages
      BY <3>2 DEF Messages
    <3> QED
      BY <1>0, <3>1, <3>3 DEF AnswerOffer, PeerTypeOK
  <2> QED
    BY <2>1, <2>2, <2>3
<1>3. PeerTypeOK'
  BY <1>0, <1>1, <1>2 DEF PeerTypeOK, peerVars
<1>4. ASSUME p \notin stopped \cup dropped'
      PROVE  NotStuck(p)' /\ LossMarked(p)'
  <2>1. NotStuck(p) /\ LossMarked(p)
    BY <1>1, <1>4 DEF PeerInv
  <2>2. LossMarked(p)'
    BY <1>1, <2>1 DEF LossMarked, WillBeMarked, NoClearQueued, peerVars
  <2>3. Answers(p)' => Answers(p)
    <3>1. CASE SendHello(p)
      BY <1>0, <3>1 DEF SendHello, Answers, PeerTypeOK
    <3>2. CASE Settle(p)
      BY <3>2 DEF Settle, Answers
    <3>3. CASE \E m \in wire[p] : AnswerOffer(p, m)
      BY <1>0, <3>3 DEF AnswerOffer, Answers, PeerTypeOK, envVars
    <3> QED
      BY <3>1, <3>2, <3>3
  <2>4. Answers(p)' /\ InFlight(p) => InFlight(p)'
    <3> SUFFICES ASSUME Answers(p)', InFlight(p)
                 PROVE  InFlight(p)'
      OBVIOUS
    <3>1. ASSUME NEW x \in wire[p], x.kind \in {"offer", "answer"}, x.no = neg[p].no
          PROVE  \E y \in wire'[p] : y.kind \in {"offer", "answer"} /\ y.no = neg[p].no
      <4>1. CASE SendHello(p)
        BY <1>0, <3>1, <4>1 DEF SendHello, PeerTypeOK
      <4>2. CASE Settle(p)
        BY <1>0, <3>1, <4>2 DEF Settle, PeerTypeOK
      <4>3. CASE \E m \in wire[p] : AnswerOffer(p, m)
        <5>1. PICK m \in wire[p] : AnswerOffer(p, m)
          BY <4>3
        <5> DEFINE reply == [kind |-> "answer", no |-> m.no]
        <5>2. CASE wire' = [wire EXCEPT ![p] = (@ \ {m}) \cup {reply}]
          <6>1. wire'[p] = (wire[p] \ {m}) \cup {reply}
            BY <1>0, <5>2 DEF PeerTypeOK
          <6>2. reply.kind = "answer" /\ reply.no = m.no
            OBVIOUS
          <6> HIDE DEF reply
          <6> QED
            BY <3>1, <6>1, <6>2
        <5>3. CASE client[p] # "settled" /\ wire' = [wire EXCEPT ![p] = @ \ {m}]
          <6>1. ~Answers(p)'
            BY <1>0, <5>1, <5>3 DEF AnswerOffer, Answers, PeerTypeOK, envVars
          <6> QED
            BY <6>1
        <5> QED
          BY <5>1, <5>2, <5>3 DEF AnswerOffer
      <4> QED
        BY <4>1, <4>2, <4>3
    <3> QED
      BY <1>1, <3>1 DEF InFlight, peerVars
  <2> QED
    BY <1>1, <2>1, <2>2, <2>3, <2>4 DEF NotStuck, peerVars
<1>5. \A r \in Peers \ {p} :
         /\ stage'[r] = stage[r] /\ link'[r] = link[r] /\ client'[r] = client[r]
         /\ wire'[r] = wire[r]
  BY <1>1, <1>2
<1> QED
  BY <1>1, <1>3, <1>4, <1>5, EnvironmentKeeps

(* A message that reaches the router becomes a command.                    *)
LEMMA ArriveKeeps ==
  ASSUME PeerInv, NEW p \in Peers, NEW m \in wire[p], Arrive(p, m)
  PROVE  PeerInv'
<1>0. PeerTypeOK /\ m \in Messages
  BY DEF PeerInv, PeerTypeOK
<1>1. PICK cmd \in Commands :
         /\ Enqueue(p, cmd) /\ cmd.op # "clear"
         /\ \/ m.kind = "hello"
            \/ m.kind = "answer" /\ cmd = [op |-> "answer", no |-> m.no]
  <2>1. CASE m.kind = "hello" /\ Enqueue(p, [op |-> "hello"])
    BY <2>1 DEF Commands
  <2>2. CASE m.kind = "answer" /\ Enqueue(p, [op |-> "answer", no |-> m.no])
    <3> DEFINE answer == [op |-> "answer", no |-> m.no]
    <3>1. m.no \in Nat
      BY <1>0 DEF Messages
    <3>2. answer \in Commands /\ answer.op # "clear"
      BY <3>1 DEF Commands
    <3> QED
      BY <2>2, <3>2
  <2> QED
    BY <2>1, <2>2 DEF Arrive
<1>2. /\ queue' \in [Peers -> Seq(Commands)]
      /\ \A r \in Peers : Len(queue'[r]) <= QueueCap
      /\ dropped' \in SUBSET Peers /\ dropped \subseteq dropped'
      /\ \A r \in Peers \ (stopped \cup dropped') :
            queue'[r] = IF r = p THEN Append(queue[p], cmd) ELSE queue[r]
  BY <1>0, <1>1, EnqueueResult
<1>3. /\ wire' \in [Peers -> SUBSET Messages]
      /\ wire'[p] = wire[p] \ {m}
      /\ \A r \in Peers \ {p} : wire'[r] = wire[r]
      /\ UNCHANGED <<envVars, peerVars>>
  BY <1>0 DEF Arrive, PeerTypeOK
<1>4. PeerTypeOK'
  BY <1>0, <1>2, <1>3 DEF PeerTypeOK, envVars, peerVars
<1>5. ASSUME p \notin stopped \cup dropped'
      PROVE  NotStuck(p)' /\ LossMarked(p)'
  <2>1. NotStuck(p) /\ LossMarked(p)
    BY <1>2, <1>5 DEF PeerInv
  <2>2. queue'[p] = Append(queue[p], cmd) /\ queue[p] \in Seq(Commands)
    BY <1>0, <1>2, <1>5 DEF PeerTypeOK
  <2>3. /\ Grown(queue[p], queue'[p])
        /\ \E i \in DOMAIN queue'[p] : queue'[p][i] = cmd
    BY <1>1, <2>2, AppendGrows
  <2>4. LossMarked(p)'
    <3>1. WillBeMarked(p) => WillBeMarked(p)'
      BY <2>3 DEF Grown, WillBeMarked
    <3>2. NoClearQueued(p) => NoClearQueued(p)'
      BY <2>3 DEF Grown, NoClearQueued
    <3> QED
      BY <1>3, <2>1, <3>1, <3>2 DEF LossMarked, envVars, peerVars
  <2>5. InFlight(p) => InFlight(p)'
    <3>1. ASSUME NEW x \in wire[p], x.kind \in {"offer", "answer"}, x.no = neg[p].no
          PROVE  InFlight(p)'
      <4>1. CASE x = m
        <5>1. cmd = [op |-> "answer", no |-> neg[p].no]
          BY <1>1, <3>1, <4>1
        <5> QED
          BY <1>3, <2>3, <5>1 DEF InFlight, peerVars
      <4>2. CASE x # m
        BY <1>3, <3>1, <4>2 DEF InFlight, peerVars
      <4> QED
        BY <4>1, <4>2
    <3>2. ASSUME NEW i \in DOMAIN queue[p],
                 queue[p][i].op = "mark" \/ queue[p][i] = [op |-> "answer", no |-> neg[p].no]
          PROVE  InFlight(p)'
      BY <1>3, <2>3, <3>2 DEF Grown, InFlight, peerVars
    <3>3. CASE link[p] = "lost"
      BY <1>3, <3>3 DEF InFlight, envVars
    <3> QED
      BY <3>1, <3>2, <3>3 DEF InFlight
  <2>6. Answers(p)' => Answers(p)
    BY <1>3 DEF Answers, envVars
  <2> QED
    BY <1>3, <2>1, <2>4, <2>5, <2>6 DEF NotStuck, envVars, peerVars
<1>6. \A r \in Peers \ {p} :
         /\ stage'[r] = stage[r] /\ link'[r] = link[r] /\ client'[r] = client[r]
         /\ wire'[r] = wire[r]
  BY <1>3 DEF envVars
<1> QED
  BY <1>2, <1>3, <1>4, <1>5, <1>6, EnvironmentKeeps

-----------------------------------------------------------------------------
(* The theorems.                                                           *)

(* Nobody is in the room at first.                                         *)
LEMMA InitPeerInv == PeerInit => PeerInv
<1> SUFFICES ASSUME PeerInit PROVE PeerInv
  OBVIOUS
<1>1. PeerTypeOK
  <2>1. <<>> \in Seq(Commands) /\ Len(<<>>) = 0 /\ 0 <= QueueCap
    BY EmptySeq, PeerAssumption
  <2>2. queue \in [Peers -> Seq(Commands)] /\ \A p \in Peers : Len(queue[p]) <= QueueCap
    BY <2>1 DEF PeerInit
  <2>3. neg \in [Peers -> Negotiations]
    BY DEF PeerInit, Negotiations
  <2> QED
    BY <2>2, <2>3 DEF PeerInit, PeerTypeOK
<1>2. NothingForgotten /\ \A p \in Peers : Outstanding(p) /\ NotStuck(p) /\ LossMarked(p)
  BY DEF PeerInit, NothingForgotten, Owed, Outstanding, NotStuck, LossMarked
<1>3. NoFeedWithoutSubscription
  BY DEF PeerInit, NoFeedWithoutSubscription
<1> QED
  BY <1>1, <1>2, <1>3 DEF PeerInv

(* Every step keeps the invariant.                                         *)
LEMMA NextPeerInv == PeerInv /\ [PeerNext]_vars => PeerInv'
<1> SUFFICES ASSUME PeerInv, [PeerNext]_vars
             PROVE  PeerInv'
  OBVIOUS
<1>1. ASSUME NEW p \in Peers, Run(p)
      PROVE  PeerInv'
  BY <1>1, RunHelloKeeps, RunFlagsKeeps, RunSubKeeps, RunUnsubKeeps, RunTrackKeeps,
     RunCloseKeeps DEF Run
<1>2. ASSUME NEW p \in Peers, Deliver(p)
      PROVE  PeerInv'
  BY <1>2, ClientKeeps, ArriveKeeps DEF Deliver
<1>3. ASSUME NEW p \in Peers,
             SendHello(p) \/ Join(p) \/ Leave(p) \/ Lose(p) \/ Detach(p) \/ Resume(p)
      PROVE  PeerInv'
  BY <1>3, ClientKeeps, JoinLeaveKeeps, LinkKeeps
<1>4. ASSUME NEW p \in Peers, NEW s \in Sources, OnTrack(p, s)
      PROVE  PeerInv'
  BY <1>4, OnTrackKeeps
<1>5. ASSUME NEW p \in Peers, NEW u \in Users, NEW s \in Video, SubscribeVideo(p, u, s)
      PROVE  PeerInv'
  BY <1>5, SubscribeVideoKeeps
<1>6. CASE UNCHANGED vars
  <2>1. UNCHANGED <<stage, link, client, wire, queue, neg, subs, streams, published,
                    listeners, stopped, dropped, requests, losses>>
    BY <1>6 DEF vars, envVars, peerVars
  <2>2. PeerTypeOK'
    BY <2>1 DEF PeerInv, PeerTypeOK
  <2>3. \A p \in Peers : Undisturbed(p)
    BY <2>1 DEF Undisturbed, Grown
  <2>4. \A p \in Peers \ (stopped' \cup dropped') : NotStuck(p)' /\ LossMarked(p)'
    BY <2>1, <2>3, Bystander DEF PeerInv
  <2>5. NothingForgotten' /\ \A p \in Peers \ stopped' : Outstanding(p)'
    BY <2>1 DEF PeerInv, NothingForgotten, Owed, Outstanding
  <2>6. NoFeedWithoutSubscription'
    BY <2>1, SameFeed DEF PeerInv
  <2> QED
    BY <2>2, <2>4, <2>5, <2>6 DEF PeerInv
<1> QED
  BY <1>1, <1>2, <1>3, <1>4, <1>5, <1>6 DEF PeerNext

(* The invariant of the peers, their negotiations and subscriptions.       *)
THEOREM PeerInvHolds == PeerSpec => []PeerInv
  BY InitPeerInv, NextPeerInv, PTL DEF PeerSpec

(* Types, and queues within their capacity.                                *)
THEOREM PeersTyped == PeerSpec => []PeerTypeOK
<1>1. PeerInv => PeerTypeOK
  BY DEF PeerInv
<1> QED
  BY <1>1, PeerInvHolds, PTL

(* Whatever the flags negotiating, renegotiatePending and detached go      *)
(* through, a change of subscriptions is offered or owed.                  *)
THEOREM NothingIsForgotten == PeerSpec => []NothingForgotten
<1>1. PeerInv => NothingForgotten
  BY DEF PeerInv
<1> QED
  BY <1>1, PeerInvHolds, PTL

(* No loss, detach or resume leaves negotiating set with nothing to clear  *)
(* it.                                                                     *)
THEOREM NegotiationGoesOn == PeerSpec => []NeverStuck
<1>1. PeerInv => NeverStuck
  BY DEF PeerInv, NeverStuck, NotStuck, Answers
<1> QED
  BY <1>1, PeerInvHolds, PTL

(* A negotiation loses neither a change (scheduleNegotiate, clearDetached) *)
(* nor its own end (handleAnswer, markDetached).                           *)
THEOREM NegotiationIsSound == PeerSpec => []NegotiationSound
BY NothingIsForgotten, NegotiationGoesOn, PTL DEF NegotiationSound

(* Subscriptions and the tracks' subscribers agree, in every interleaving  *)
(* of the peers' goroutines.                                               *)
THEOREM FeedsAreSubscribed == PeerSpec => []NoFeedWithoutSubscription
<1>1. PeerInv => NoFeedWithoutSubscription
  BY DEF PeerInv
<1> QED
  BY <1>1, PeerInvHolds, PTL
=============================================================================
