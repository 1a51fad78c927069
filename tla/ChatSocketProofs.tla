-------------------------- MODULE ChatSocketProofs --------------------------
(***************************************************************************)
(* Both ends of a connection, for any instance.  First the client's:       *)
(* answers find their command, for any commands, topics and losses.  The   *)
(* argument is SocketInv: as long as nothing strayed, the connection       *)
(* carries one thing, the pending command or its answer, so an answer      *)
(* without a request id can only be that command's; and an answer with an  *)
(* id is compared whatever happened before.                                *)
(*                                                                         *)
(* Then the server's: no critical event is lost in silence and nobody      *)
(* sends on a closed queue, for any users, connections, goroutines and     *)
(* places in a queue.  The argument is DeliveryInv: who is registered is   *)
(* open, a push under way holds h.mu and is for registered connections,    *)
(* and the numbers still to come to a connection grow.                     *)
(***************************************************************************)
EXTENDS ChatSocket, HubDelivery, SequenceTheorems, TLAPS

(* The initial state satisfies the invariant.                              *)
LEMMA InitSocketInv == Init => SocketInv
<1> SUFFICES ASSUME Init PROVE SocketInv
  OBVIOUS
<1> USE SocketAssumption DEF Init
<1>1. TypeOK
  <2>1. outcome \in [Cmds -> Outcome]
    BY DEF Outcome
  <2>2. down \in Seq(Event) /\ queue \in Seq(Cmds) /\ inbox \in Seq(Cmds)
    OBVIOUS
  <2>3. losses \in 0..MaxLosses /\ expiries \in 0..MaxExpiries
    OBVIOUS
  <2>4. timer \in BOOLEAN /\ closedByUser \in BOOLEAN /\ strayed \in BOOLEAN /\ valid \in BOOLEAN
    BY Zenon
  <2>5. pending \in Cmds \cup {None} /\ armed \subseteq Cmds /\ running \subseteq Cmds
    OBVIOUS
  <2>6. ready = "connecting" /\ promise = "connecting"
    OBVIOUS
  <2> QED
    BY <2>1, <2>2, <2>3, <2>4, <2>5, <2>6, Zenon DEF TypeOK
<1>2. TaggedAnswersMatch /\ TimersOwned
  BY DEF TaggedAnswersMatch, TimersOwned
<1>3. EventsInv /\ IdleInv /\ InOrderInv
  BY DEF EventsInv, IdleInv, InOrderInv
<1> QED
  BY <1>1, <1>2, <1>3 DEF SocketInv

(* flushQueue sends at most the head of the queue, and only on an open     *)
(* socket with nothing pending; the timer is that of what is pending then. *)
LEMMA FlushSendsOne ==
  ASSUME NEW p \in Cmds \cup {None}, NEW q \in Seq(Cmds), NEW t,
         t = IF p = None THEN {} ELSE {p},
         inbox \in Seq(Cmds), FlushQueue(p, q, t)
  PROVE  /\ pending' \in Cmds \cup {None} /\ queue' \in Seq(Cmds)
         /\ inbox' \in Seq(Cmds) /\ TimersOwned' /\ armed' \subseteq Cmds
         /\ \/ pending' = p /\ inbox' = inbox
            \/ /\ p = None /\ ready' = "open" /\ pending' \in Cmds
               /\ inbox' = Append(inbox, pending')
<1> USE SocketAssumption DEF FlushQueue, TimersOwned
<1>1. CASE ready' = "open" /\ p = None /\ q # <<>>
  <2>1. Head(q) \in Cmds /\ Tail(q) \in Seq(Cmds)
    BY <1>1
  <2>2. pending' = Head(q) /\ queue' = Tail(q) /\ armed' = {Head(q)} /\ inbox' = Append(inbox, Head(q))
    BY <1>1
  <2>3. Append(inbox, Head(q)) \in Seq(Cmds) /\ Head(q) # None
    BY <2>1
  <2> QED
    BY <1>1, <2>1, <2>2, <2>3
<1>2. CASE ~ (ready' = "open" /\ p = None /\ q # <<>>)
  BY <1>2
<1> QED
  BY <1>1, <1>2

(* What was told to c only changes by an event that answers c, or that c   *)
(* may take for its answer.                                                *)
ToldInOrder ==
    \A c \in Cmds :
        outcome'[c] # outcome[c] /\ outcome'[c].by \notin {None, c, Topic[c]} => strayed

(* A command is issued: if it is sent at once, the connection was empty.   *)
LEMMA IssueKeepsInv ==
  ASSUME SocketInv, NEW c \in Cmds, Issue(c)
  PROVE  SocketInv' /\ ToldInOrder
<1> USE SocketAssumption DEF SocketInv, TypeOK, Issue, socketVars, envVars
<1>1. Append(queue, c) \in Seq(Cmds) /\ armed = IF pending = None THEN {} ELSE {pending}
  BY DEF TimersOwned
<1>2. /\ pending' \in Cmds \cup {None} /\ queue' \in Seq(Cmds)
      /\ inbox' \in Seq(Cmds) /\ TimersOwned' /\ armed' \subseteq Cmds
      /\ \/ pending' = pending /\ inbox' = inbox
         \/ /\ pending = None /\ ready' = "open" /\ pending' \in Cmds
            /\ inbox' = Append(inbox, pending')
  BY <1>1, FlushSendsOne
<1>3. /\ outcome' \in [Cmds -> Outcome]
      /\ \A d \in Cmds : outcome'[d] = outcome[d] \/ outcome'[d].by = None
  BY DEF Settle, Outcome
<1>4. TypeOK'
  BY <1>2, <1>3
<1>5. TaggedAnswersMatch'
  BY <1>3 DEF TaggedAnswersMatch
<1>6. EventsInv' /\ IdleInv'
  BY <1>2 DEF EventsInv, IdleInv
<1>7. InOrderInv'
  <2>1. CASE pending' = pending /\ inbox' = inbox
    BY <2>1 DEF InOrderInv
  <2>2. CASE pending = None /\ pending' \in Cmds /\ inbox' = Append(inbox, pending')
    <3> SUFFICES ASSUME ~ strayed PROVE InOrderInv'
      BY DEF InOrderInv
    <3>1. inbox = <<>> /\ running = {} /\ \A i \in DOMAIN down : down[i].to = None
      BY <2>2 DEF InOrderInv
    <3>2. inbox' = <<pending'>>
      BY <2>2, <3>1
    <3> QED
      BY <3>1, <3>2 DEF InOrderInv
  <2> QED
    BY <1>2, <2>1, <2>2
<1>8. ToldInOrder
  BY <1>3 DEF ToldInOrder
<1> QED
  BY <1>2, <1>4, <1>5, <1>6, <1>7, <1>8

(* A refused command changes nothing else.                                 *)
LEMMA RefusalKeepsInv ==
  ASSUME SocketInv, NEW c \in Cmds, IssueRefused(c)
  PROVE  SocketInv' /\ ToldInOrder
<1> USE SocketAssumption DEF SocketInv, TypeOK, IssueRefused, socketVars, envVars, hubVars
<1>1. /\ outcome' \in [Cmds -> Outcome]
      /\ \A d \in Cmds : outcome'[d] = outcome[d] \/ outcome'[d].by = None
  BY DEF Settle, Outcome, Settled
<1>2. TypeOK' /\ TaggedAnswersMatch' /\ TimersOwned'
  BY <1>1 DEF TaggedAnswersMatch, TimersOwned
<1>3. EventsInv' /\ IdleInv' /\ InOrderInv'
  BY DEF EventsInv, IdleInv, InOrderInv
<1> QED
  BY <1>1, <1>2, <1>3 DEF ToldInOrder

(* The timer that runs out is the pending command's, by TimersOwned.  From *)
(* here on its answer is late: the order no longer tells answers apart.    *)
LEMMA TimeoutKeepsInv ==
  ASSUME SocketInv, NEW c \in Cmds, Timeout(c)
  PROVE  SocketInv' /\ ToldInOrder
<1> USE SocketAssumption DEF SocketInv, TypeOK, Timeout, socketVars, envVars
<1>1. pending = c /\ armed = {c}
  BY DEF TimersOwned
<1>2. /\ outcome' = Settle(c, "timeout", None)
      /\ strayed'
      /\ FlushQueue(None, queue, {})
  <2>1. armed \ {c, pending} = {}
    BY <1>1
  <2> QED
    BY <1>1, <2>1
<1>3. /\ pending' \in Cmds \cup {None} /\ queue' \in Seq(Cmds)
      /\ inbox' \in Seq(Cmds) /\ TimersOwned' /\ armed' \subseteq Cmds
      /\ \/ pending' = None /\ inbox' = inbox
         \/ /\ ready' = "open" /\ pending' \in Cmds
            /\ inbox' = Append(inbox, pending')
  BY <1>2, FlushSendsOne
<1>4. /\ outcome' \in [Cmds -> Outcome]
      /\ \A d \in Cmds : outcome'[d] = outcome[d] \/ outcome'[d].by = None
  BY <1>2 DEF Settle, Outcome, Settled
<1>5. strayed' \in BOOLEAN
  BY <1>1, Zenon
<1>6. TypeOK'
  BY <1>3, <1>4, <1>5
<1>7. TaggedAnswersMatch'
  BY <1>4 DEF TaggedAnswersMatch
<1>8. EventsInv' /\ IdleInv' /\ InOrderInv'
  BY <1>1, <1>2, <1>3 DEF EventsInv, IdleInv, InOrderInv
<1> QED
  BY <1>3, <1>4, <1>6, <1>7, <1>8 DEF ToldInOrder

(* An answer with an id is the pending command's because the ids were      *)
(* compared, one without because the connection carries no other.          *)
LEMMA DeliverKeepsInv ==
  ASSUME SocketInv, Deliver
  PROVE  SocketInv' /\ ToldInOrder
<1> USE SocketAssumption DEF SocketInv, TypeOK, Deliver, socketVars, envVars
<1> DEFINE e == Head(down)
<1>1. /\ e \in Event /\ e = down[1] /\ 1 \in DOMAIN down
      /\ down' \in Seq(Event) /\ down' = Tail(down)
      /\ \A i \in DOMAIN down' : i + 1 \in DOMAIN down /\ down'[i] = down[i + 1]
  OBVIOUS
<1>2. EventsInv'
  BY <1>1 DEF EventsInv
<1>3. CASE ~ TakenForAnswer(e)
  <2>1. UNCHANGED <<commandVars, inbox, strayed>>
    BY <1>3
  <2>2. TypeOK' /\ TaggedAnswersMatch' /\ TimersOwned' /\ IdleInv'
    BY <1>1, <2>1 DEF commandVars, TaggedAnswersMatch, TimersOwned, IdleInv
  <2>3. InOrderInv'
    BY <1>1, <2>1 DEF commandVars, InOrderInv
  <2> QED
    BY <1>2, <2>1, <2>2, <2>3 DEF commandVars, ToldInOrder
<1>4. CASE TakenForAnswer(e)
  <2> DEFINE by == IF e.to = None THEN e.topic ELSE e.to
  <2>1. pending \in Cmds
    BY <1>4 DEF TakenForAnswer
  <2>2. /\ strayed' = (strayed \/ e.to # pending)
        /\ outcome' = Settle(pending, IF e.form = "error" THEN "failed" ELSE "answered", by)
        /\ FlushQueue(None, queue, {})
    <3>1. armed \ {pending} = {}
      BY <2>1 DEF TimersOwned
    <3> QED
      BY <1>4, <3>1 DEF DeliverAnswer
  <2>3. /\ pending' \in Cmds \cup {None} /\ queue' \in Seq(Cmds)
        /\ inbox' \in Seq(Cmds) /\ TimersOwned' /\ armed' \subseteq Cmds
        /\ \/ pending' = None /\ inbox' = inbox
           \/ /\ ready' = "open" /\ pending' \in Cmds
              /\ inbox' = Append(inbox, pending')
    BY <2>2, FlushSendsOne
  <2>4. by \in Cmds \cup Broadcasts /\ (e.to = None => by \in Broadcasts /\ by = Topic[pending])
    BY <1>1, <1>4 DEF Event, EventsInv, TakenForAnswer
  <2>5. e.to # None /\ Tagged(e.to) => e.to = pending
    BY <1>1, <1>4 DEF EventsInv, TakenForAnswer
  <2>6. /\ outcome' \in [Cmds -> Outcome] /\ outcome'[pending].by = by
        /\ \A d \in Cmds : d # pending => outcome'[d] = outcome[d]
    BY <2>1, <2>2, <2>4 DEF Settle, Outcome, Settled
  <2>7. strayed' \in BOOLEAN
    BY <2>2, Zenon
  <2>8. TypeOK'
    BY <1>1, <2>3, <2>6, <2>7
  <2>9. TaggedAnswersMatch'
    BY <2>4, <2>5, <2>6 DEF TaggedAnswersMatch
  <2>10. IdleInv'
    BY <1>1, <2>1, <2>3 DEF IdleInv
  <2>11. ASSUME ~ strayed'
         PROVE  /\ ~ strayed /\ e.to = pending
                /\ inbox = <<>> /\ running = {} /\ \A i \in DOMAIN down' : down'[i].to = None
    <3>1. ~ strayed /\ e.to = pending
      BY <2>2, <2>11
    <3> QED
      BY <1>1, <2>1, <3>1 DEF InOrderInv
  <2>12. InOrderInv'
    <3> SUFFICES ASSUME ~ strayed' PROVE InOrderInv'
      BY DEF InOrderInv
    <3>1. CASE pending' = None /\ inbox' = inbox
      BY <2>11, <3>1 DEF InOrderInv
    <3>2. CASE pending' \in Cmds /\ inbox' = Append(inbox, pending')
      <4>1. inbox' = <<pending'>>
        BY <2>11, <3>2
      <4> QED
        BY <2>11, <4>1 DEF InOrderInv
    <3> QED
      BY <2>3, <3>1, <3>2
  <2>13. ToldInOrder
    <3> SUFFICES ASSUME ~ strayed PROVE by \in {pending, Topic[pending]}
      BY <2>6 DEF ToldInOrder
    <3> QED
      BY <1>1, <2>4 DEF InOrderInv
  <2> QED
    BY <1>2, <2>3, <2>8, <2>9, <2>10, <2>12, <2>13
<1> QED
  BY <1>3, <1>4

(* The connection opens: it carries nothing yet, whatever strayed before.  *)
LEMMA OpenKeepsInv ==
  ASSUME SocketInv, OnOpen
  PROVE  SocketInv' /\ ToldInOrder
<1> USE SocketAssumption DEF SocketInv, TypeOK, OnOpen, envVars
<1>1. armed = (IF pending = None THEN {} ELSE {pending}) /\ pending = None
  BY DEF TimersOwned, IdleInv
<1>2. /\ pending' \in Cmds \cup {None} /\ queue' \in Seq(Cmds)
      /\ inbox' \in Seq(Cmds) /\ TimersOwned' /\ armed' \subseteq Cmds
      /\ \/ pending' = None /\ inbox' = inbox
         \/ pending' \in Cmds /\ inbox' = Append(inbox, pending')
  BY <1>1, FlushSendsOne
<1>3. inbox = <<>> /\ running = {} /\ down = <<>> /\ down' = <<>> /\ running' = {}
  BY DEF IdleInv
<1>4. strayed' \in BOOLEAN
  BY Zenon
<1>5. TypeOK' /\ TaggedAnswersMatch'
  BY <1>2, <1>4 DEF TaggedAnswersMatch
<1>6. EventsInv' /\ IdleInv'
  BY <1>3 DEF EventsInv, IdleInv
<1>7. InOrderInv'
  <2>1. CASE pending' = None /\ inbox' = inbox
    BY <1>3, <2>1 DEF InOrderInv
  <2>2. CASE pending' \in Cmds /\ inbox' = Append(inbox, pending')
    <3>1. inbox' = <<pending'>>
      BY <1>3, <2>2
    <3> QED
      BY <1>3, <3>1 DEF InOrderInv
  <2> QED
    BY <1>2, <2>1, <2>2
<1> QED
  BY <1>2, <1>5, <1>6, <1>7 DEF ToldInOrder

(* The connection begins to close: a prefix of its events still arrives.   *)
LEMMA LossKeepsInv ==
  ASSUME SocketInv, Lose
  PROVE  SocketInv' /\ ToldInOrder
<1> USE SocketAssumption DEF SocketInv, TypeOK, Lose, commandVars
<1>1. /\ down' \in Seq(Event)
      /\ \A i \in DOMAIN down' : i \in DOMAIN down /\ down'[i] = down[i]
  OBVIOUS
<1>2. TypeOK' /\ TaggedAnswersMatch' /\ TimersOwned'
  BY <1>1 DEF TaggedAnswersMatch, TimersOwned
<1>3. EventsInv' /\ IdleInv' /\ InOrderInv'
  BY <1>1 DEF EventsInv, IdleInv, InOrderInv
<1> QED
  BY <1>2, <1>3 DEF ToldInOrder

(* rejectAllPending ends what waits and stops the one timer that runs.     *)
LEMMA RejectionSettlesAll ==
  ASSUME TypeOK, TimersOwned, RejectAll
  PROVE  /\ pending' = None /\ queue' = <<>> /\ armed' = {}
         /\ outcome' \in [Cmds -> Outcome]
         /\ \A c \in Cmds : outcome'[c] = outcome[c] \/ outcome'[c].by = None
<1> USE DEF TypeOK, RejectAll
<1>1. armed \ {pending} = {}
  BY DEF TimersOwned
<1>2. [at |-> "closed", by |-> None] \in Outcome
  BY DEF Outcome, Settled
<1>3. /\ outcome' \in [Cmds -> Outcome]
      /\ \A c \in Cmds : outcome'[c] = outcome[c] \/ outcome'[c] = [at |-> "closed", by |-> None]
  BY <1>2
<1> QED
  BY <1>1, <1>3

(* The three ways a connection ends: nothing is left of it.                *)
LEMMA EndKeepsInv ==
  ASSUME SocketInv, OnClose \/ ConnectFails \/ Close
  PROVE  SocketInv' /\ ToldInOrder
<1> USE SocketAssumption DEF SocketInv, TypeOK, envVars, hubVars
<1>1. /\ RejectAll /\ ready' = "closed" /\ promise' = "none"
      /\ timer' \in BOOLEAN /\ closedByUser' \in BOOLEAN
      /\ UNCHANGED <<strayed, valid, losses, expiries>>
  <2>1. timer' \in BOOLEAN /\ closedByUser' \in BOOLEAN
    BY Zenon DEF OnClose, ConnectFails, Close
  <2> QED
    BY <2>1 DEF OnClose, ConnectFails, Close
<1>2. inbox' = <<>> /\ running' = {} /\ down' = <<>>
  BY DEF OnClose, ConnectFails, Close, HubForgets, IdleInv
<1>3. /\ pending' = None /\ queue' = <<>> /\ armed' = {}
      /\ outcome' \in [Cmds -> Outcome]
      /\ \A c \in Cmds : outcome'[c] = outcome[c] \/ outcome'[c].by = None
  BY <1>1, RejectionSettlesAll
<1>4. TypeOK' /\ TaggedAnswersMatch' /\ TimersOwned'
  BY <1>1, <1>2, <1>3 DEF TaggedAnswersMatch, TimersOwned
<1>5. EventsInv' /\ IdleInv' /\ InOrderInv'
  BY <1>1, <1>2, <1>3 DEF EventsInv, IdleInv, InOrderInv
<1> QED
  BY <1>3, <1>4, <1>5 DEF ToldInOrder

(* A new attempt begins where the last connection ended.                   *)
LEMMA ReconnectKeepsInv ==
  ASSUME SocketInv, Reconnect
  PROVE  SocketInv' /\ ToldInOrder
<1> USE SocketAssumption DEF SocketInv, TypeOK, Reconnect, commandVars, hubVars, envVars
<1>1. /\ ready' \in {"connecting", "closed"} /\ promise' \in {"connecting", "poisoned"}
      /\ pending = None /\ inbox = <<>> /\ running = {} /\ down = <<>>
  BY DEF IdleInv
<1>2. timer' \in BOOLEAN
  BY Zenon
<1>3. TypeOK' /\ TaggedAnswersMatch' /\ TimersOwned'
  BY <1>1, <1>2 DEF TaggedAnswersMatch, TimersOwned
<1>4. EventsInv' /\ IdleInv' /\ InOrderInv'
  BY <1>1 DEF EventsInv, IdleInv, InOrderInv
<1> QED
  BY <1>3, <1>4 DEF ToldInOrder

(* The hub answers c with at most one event, which is c's.                 *)
LEMMA AnswerIsOne ==
  ASSUME TypeOK, EventsInv, NEW c \in Cmds, NEW a \in Answers(c), down' = down \o a
  PROVE  /\ down' \in Seq(Event) /\ EventsInv'
         /\ \/ down' = down
            \/ /\ DOMAIN down' = DOMAIN down \cup {Len(down) + 1}
               /\ Len(down) + 1 \notin DOMAIN down
               /\ \A i \in DOMAIN down : down'[i] = down[i]
               /\ down'[Len(down) + 1].to = c
<1> USE SocketAssumption DEF TypeOK
<1>1. CASE a = <<>>
  BY <1>1 DEF EventsInv
<1>2. ASSUME NEW e \in {AckOf(c), ErrorOf(c)}, a = <<e>>
      PROVE  /\ down' \in Seq(Event) /\ EventsInv'
             /\ DOMAIN down' = DOMAIN down \cup {Len(down) + 1}
             /\ Len(down) + 1 \notin DOMAIN down
             /\ \A i \in DOMAIN down : down'[i] = down[i]
             /\ down'[Len(down) + 1].to = c
  <2>1. /\ e \in Event /\ e.to = c
        /\ e.form = "topic" => ~ Tagged(c)
    BY DEF AckOf, ErrorOf, Event, Tagged
  <2>2. /\ down' \in Seq(Event) /\ Len(down') = Len(down) + 1
        /\ \A i \in DOMAIN down : down'[i] = down[i]
        /\ down'[Len(down) + 1] = e
    BY <1>2, <2>1
  <2>3. DOMAIN down' = DOMAIN down \cup {Len(down) + 1} /\ Len(down) + 1 \notin DOMAIN down
    BY <2>2
  <2>4. EventsInv'
    BY <2>1, <2>2, <2>3 DEF EventsInv
  <2> QED
    BY <2>1, <2>2, <2>3, <2>4
<1> QED
  BY <1>1, <1>2 DEF Answers

(* Hub.Run takes a command: it moves on, to a goroutine or to its answer.  *)
LEMMA TakingKeepsInv ==
  ASSUME SocketInv, HubTakes
  PROVE  SocketInv' /\ ToldInOrder
<1> USE SocketAssumption DEF SocketInv, TypeOK, HubTakes, socketVars, commandVars, envVars
<1> DEFINE c == Head(inbox)
<1>1. c \in Cmds /\ inbox' \in Seq(Cmds) /\ c = inbox[1] /\ 1 \in DOMAIN inbox
  OBVIOUS
<1>2. TaggedAnswersMatch' /\ TimersOwned' /\ ToldInOrder
  BY DEF TaggedAnswersMatch, TimersOwned, ToldInOrder
<1>3. ASSUME ~ strayed
      PROVE  /\ c = pending /\ inbox' = <<>> /\ running = {}
             /\ \A i \in DOMAIN down : down[i].to = None
  BY <1>1, <1>3 DEF InOrderInv
<1>4. CASE Tagged(c)
  <2>1. running' = running \cup {c} /\ UNCHANGED down
    BY <1>4
  <2>2. TypeOK' /\ EventsInv'
    BY <1>1, <2>1 DEF EventsInv
  <2>3. IdleInv'
    BY <1>1, <2>1 DEF IdleInv
  <2>4. InOrderInv'
    BY <1>3, <2>1 DEF InOrderInv
  <2> QED
    BY <1>2, <2>2, <2>3, <2>4
<1>5. CASE ~ Tagged(c)
  <2>1. PICK a \in Answers(c) : down' = down \o a
    BY <1>5
  <2>2. UNCHANGED running
    BY <1>5
  <2>3. /\ down' \in Seq(Event) /\ EventsInv'
        /\ \/ down' = down
           \/ /\ DOMAIN down' = DOMAIN down \cup {Len(down) + 1}
              /\ Len(down) + 1 \notin DOMAIN down
              /\ \A i \in DOMAIN down : down'[i] = down[i]
              /\ down'[Len(down) + 1].to = c
    BY <1>1, <2>1, AnswerIsOne
  <2>4. TypeOK' /\ IdleInv'
    BY <1>1, <2>2, <2>3 DEF IdleInv
  <2>5. InOrderInv'
    <3> SUFFICES ASSUME ~ strayed PROVE InOrderInv'
      BY DEF InOrderInv
    <3>1. inbox' = <<>> /\ running' = {} /\ pending' = c
      BY <1>3, <2>2
    <3>2. \A i \in DOMAIN down' : down'[i].to # None => down'[i].to = c /\ i = Len(down) + 1
      BY <1>3, <2>3
    <3> QED
      BY <3>1, <3>2 DEF InOrderInv
  <2> QED
    BY <1>2, <2>3, <2>4, <2>5
<1> QED
  BY <1>4, <1>5

(* A goroutine answers.                                                    *)
LEMMA FinishingKeepsInv ==
  ASSUME SocketInv, NEW c \in Cmds, HubFinishes(c)
  PROVE  SocketInv' /\ ToldInOrder
<1> USE SocketAssumption DEF SocketInv, TypeOK, HubFinishes, socketVars, commandVars, envVars
<1>1. PICK a \in Answers(c) : down' = down \o a
  OBVIOUS
<1>2. /\ down' \in Seq(Event) /\ EventsInv'
      /\ \/ down' = down
         \/ /\ DOMAIN down' = DOMAIN down \cup {Len(down) + 1}
            /\ Len(down) + 1 \notin DOMAIN down
            /\ \A i \in DOMAIN down : down'[i] = down[i]
            /\ down'[Len(down) + 1].to = c
  BY <1>1, AnswerIsOne
<1>3. TypeOK' /\ TaggedAnswersMatch' /\ TimersOwned' /\ ToldInOrder
  BY <1>2 DEF TaggedAnswersMatch, TimersOwned, ToldInOrder
<1>4. IdleInv'
  BY DEF IdleInv
<1>5. ASSUME ~ strayed
      PROVE  /\ c = pending /\ inbox = <<>> /\ running' = {}
             /\ \A i \in DOMAIN down : down[i].to = None
  BY <1>5 DEF InOrderInv
<1>6. InOrderInv'
  BY <1>2, <1>5 DEF InOrderInv
<1> QED
  BY <1>2, <1>3, <1>4, <1>6

(* What the hub sends on its own answers no command.                       *)
LEMMA BroadcastKeepsInv ==
  ASSUME SocketInv, NEW t \in Broadcasts, HubBroadcasts(t)
  PROVE  SocketInv' /\ ToldInOrder
<1> USE SocketAssumption DEF SocketInv, TypeOK, HubBroadcasts, socketVars, commandVars, envVars
<1> DEFINE e == [form |-> "topic", to |-> None, topic |-> t]
<1>1. e \in Event
  BY DEF Event
<1>2. /\ down' \in Seq(Event) /\ DOMAIN down' = DOMAIN down \cup {Len(down) + 1}
      /\ \A i \in DOMAIN down : down'[i] = down[i]
      /\ down'[Len(down) + 1] = e
  BY <1>1
<1>3. TypeOK' /\ TaggedAnswersMatch' /\ TimersOwned' /\ ToldInOrder
  BY <1>2 DEF TaggedAnswersMatch, TimersOwned, ToldInOrder
<1>4. EventsInv' /\ IdleInv'
  BY <1>2 DEF EventsInv, IdleInv
<1>5. \A i \in DOMAIN down' : down'[i].to = None \/ (i \in DOMAIN down /\ down'[i] = down[i])
  BY <1>2
<1>6. inbox' = inbox /\ running' = running /\ strayed' = strayed /\ pending' = pending
  OBVIOUS
<1>7. InOrderInv'
  <2> SUFFICES ASSUME ~ strayed PROVE InOrderInv'
    BY <1>6 DEF InOrderInv
  <2>1. \A i \in DOMAIN down' : down'[i].to \in {None, pending}
    BY <1>5 DEF InOrderInv
  <2>2. inbox # <<>> \/ running # {} => \A i \in DOMAIN down' : down'[i].to = None
    BY <1>5 DEF InOrderInv
  <2>3. \A i, j \in DOMAIN down' : down'[i].to # None /\ down'[j].to # None => i = j
    BY <1>5 DEF InOrderInv
  <2> QED
    BY <1>6, <2>1, <2>2, <2>3 DEF InOrderInv
<1> QED
  BY <1>3, <1>4, <1>7

(* The token concerns no connection that exists.                           *)
LEMMA TokenKeepsInv ==
  ASSUME SocketInv, TokenExpires \/ LoginElsewhere \/ UNCHANGED vars
  PROVE  SocketInv' /\ ToldInOrder
<1> USE SocketAssumption DEF SocketInv, TypeOK
<1>1. UNCHANGED <<socketVars, commandVars, hubVars, strayed, losses>>
  BY DEF TokenExpires, LoginElsewhere, vars, envVars
<1>2. valid' \in BOOLEAN
  BY Zenon DEF TokenExpires, LoginElsewhere, vars, envVars
<1>3. expiries' \in 0..MaxExpiries
  BY DEF TokenExpires, LoginElsewhere, vars, envVars
<1> USE <1>1 DEF socketVars, commandVars, hubVars
<1>4. TypeOK' /\ TaggedAnswersMatch' /\ TimersOwned' /\ ToldInOrder
  BY <1>2, <1>3 DEF TaggedAnswersMatch, TimersOwned, ToldInOrder
<1>5. EventsInv' /\ IdleInv' /\ InOrderInv'
  BY DEF EventsInv, IdleInv, InOrderInv
<1> QED
  BY <1>4, <1>5

(* Every step keeps the invariant, and tells nobody what is not his.       *)
LEMMA StepKeepsInv == SocketInv /\ [Next]_vars => SocketInv' /\ ToldInOrder
<1> SUFFICES ASSUME SocketInv, [Next]_vars PROVE SocketInv' /\ ToldInOrder
  OBVIOUS
<1>1. CASE \E c \in Cmds : Issue(c) \/ IssueRefused(c) \/ Timeout(c) \/ HubFinishes(c)
  BY <1>1, IssueKeepsInv, RefusalKeepsInv, TimeoutKeepsInv, FinishingKeepsInv
<1>2. CASE Deliver \/ HubTakes \/ \E t \in Broadcasts : HubBroadcasts(t)
  BY <1>2, DeliverKeepsInv, TakingKeepsInv, BroadcastKeepsInv
<1>3. CASE OnOpen \/ Lose \/ OnClose \/ ConnectFails \/ Reconnect \/ Close
  BY <1>3, OpenKeepsInv, LossKeepsInv, EndKeepsInv, ReconnectKeepsInv
<1>4. CASE TokenExpires \/ LoginElsewhere \/ UNCHANGED vars
  BY <1>4, TokenKeepsInv
<1> QED
  BY <1>1, <1>2, <1>3, <1>4 DEF Next

(* The invariant of the command queue and the connection holds.            *)
THEOREM SocketInvHolds == Spec => []SocketInv
<1>1. SocketInv /\ [Next]_vars => SocketInv'
  BY StepKeepsInv
<1> QED
  BY InitSocketInv, <1>1, PTL DEF Spec

(* Answers find the command they are for: no answer with a request id      *)
(* settles another command, no timer outlives its command, and until a     *)
(* command times out the order of the answers is enough (sendCommand,      *)
(* flushQueue, handleSocketError, onmessage).                              *)
THEOREM AnswersMatch == Spec => AnswersFindTheirCommand
<1>1. SocketInv => TaggedAnswersMatch /\ TimersOwned
  BY DEF SocketInv
<1>2. SocketInv /\ [Next]_vars =>
        [\A c \in Cmds :
           outcome'[c] # outcome[c] /\ outcome'[c].by \notin {None, c, Topic[c]}
              => strayed]_vars
  BY StepKeepsInv DEF ToldInOrder
<1> QED
  BY SocketInvHolds, <1>1, <1>2, PTL DEF AnswersFindTheirCommand, InOrderUntilStrayed, Spec

-----------------------------------------------------------------------------
(* Events on their way to a connection: what a writer holds in its hand    *)
(* comes before what the queue holds.                                      *)
LEMMA HandedTail ==
    ASSUME NEW s \in Seq(Nat), s # <<>>
    PROVE  <<Head(s)>> \o Tail(s) = s
<1>1. PICK a : a = <<Head(s)>> \o Tail(s)
  OBVIOUS
<1>2. PICK k \in Nat : k = Len(Tail(s))
  OBVIOUS
<1>3. Len(s) = k + 1 /\ Tail(s) \in Seq(Nat) /\ Head(s) = s[1] /\ s[1] \in Nat
  BY <1>2
<1>4. a \in Seq(Nat) /\ Len(a) = k + 1 /\ a[1] = s[1] /\ \A i \in 2..k + 1 : a[i] = Tail(s)[i - 1]
  BY <1>1, <1>2, <1>3
<1>5. \A i \in 1..k + 1 : a[i] = s[i]
  <2> SUFFICES ASSUME NEW i \in 1..k + 1 PROVE a[i] = s[i]
    OBVIOUS
  <2>1. CASE i = 1
    BY <2>1, <1>4
  <2>2. CASE i # 1
    <3>1. i \in 2..k + 1 /\ i - 1 \in 1..k
      BY <2>2
    <3>2. Tail(s)[i - 1] = s[i]
      BY <3>1, <1>2, <1>3
    <3> QED
      BY <3>1, <3>2, <1>4
  <2> QED
    BY <2>1, <2>2
<1>6. a \in [1..k + 1 -> Nat] /\ s \in [1..k + 1 -> Nat]
  <2>1. a \in [1..Len(a) -> Nat]
    BY <1>4, LenProperties
  <2>2. s \in [1..Len(s) -> Nat]
    BY LenProperties
  <2> QED
    BY <2>1, <2>2, <1>3, <1>4
<1>7. a = s
  BY ONLY <1>5, <1>6
<1> QED
  BY <1>1, <1>7

LEMMA HandedSplits ==
    ASSUME NEW h \in Nat, NEW s \in Seq(Nat)
    PROVE  /\ <<h>> \o s \in Seq(Nat) /\ <<h>> \o s # <<>>
           /\ Head(<<h>> \o s) = h /\ Tail(<<h>> \o s) = s
<1>1. PICK a : a = <<h>> \o s
  OBVIOUS
<1>2. PICK k \in Nat : k = Len(s)
  OBVIOUS
<1>3. a \in Seq(Nat) /\ Len(a) = k + 1 /\ a[1] = h /\ \A i \in 2..k + 1 : a[i] = s[i - 1]
  BY <1>1, <1>2
<1>4. a # <<>> /\ Head(a) = h
  BY <1>3
<1>5. PICK t : t = Tail(a)
  OBVIOUS
<1>6. t \in Seq(Nat) /\ Len(t) = k /\ \A i \in 1..k : t[i] = a[i + 1]
  BY <1>3, <1>4, <1>5
<1>7. \A i \in 1..k : t[i] = s[i]
  <2> SUFFICES ASSUME NEW i \in 1..k PROVE t[i] = s[i]
    OBVIOUS
  <2>1. i + 1 \in 2..k + 1 /\ (i + 1) - 1 = i
    OBVIOUS
  <2> QED
    BY <2>1, <1>3, <1>6
<1>8. t \in [1..k -> Nat] /\ s \in [1..k -> Nat]
  <2>1. t \in [1..Len(t) -> Nat]
    BY <1>6, LenProperties
  <2>2. s \in [1..Len(s) -> Nat]
    BY LenProperties
  <2> QED
    BY <2>1, <2>2, <1>2, <1>6
<1>9. t = s
  BY ONLY <1>7, <1>8
<1> QED
  BY <1>1, <1>3, <1>4, <1>5, <1>9

-----------------------------------------------------------------------------
(* The queue of a connection: a new number is above those before it, and   *)
(* one that leaves is below those that stay.                               *)
LEMMA AppendInOrder ==
    ASSUME NEW s \in Seq(Nat), NEW got \in SUBSET Nat, NEW last \in Nat,
           NEW n, n = 0 \/ n = last + 1, NEW top \in Nat, last <= top, n <= top,
           InOrder(s, got, last)
    PROVE  InOrder(Append(s, n), got, top)
<1>1. PICK t : t = Append(s, n)
  OBVIOUS
<1>2. PICK k \in Nat : k = Len(s)
  OBVIOUS
<1>3. /\ Len(t) = k + 1 /\ DOMAIN t = 1..k + 1 /\ t[k + 1] = n
      /\ \A i \in 1..k : t[i] = s[i] /\ t[i] \in Nat
  <2>1. n \in Nat
    OBVIOUS
  <2> QED
    BY <1>1, <1>2, <2>1
<1>4. \A i \in DOMAIN t : i = k + 1 \/ i \in 1..k
  BY <1>3
<1>5. /\ \A i, j \in 1..k : i < j /\ s[j] # 0 => s[i] < s[j]
      /\ \A i \in 1..k : s[i] <= last
      /\ \A m \in got : m \in Nat /\ m <= last /\ \A i \in 1..k : s[i] # 0 => m < s[i]
  <2>1. DOMAIN s = 1..k
    BY <1>2
  <2>2. \A m \in got : m \in Nat
    OBVIOUS
  <2>3. InOrder(s, got, last)
    OBVIOUS
  <2> QED
    BY ONLY <2>1, <2>2, <2>3 DEF InOrder, Ordered
<1>6. Ordered(t)
  <2> SUFFICES ASSUME NEW i \in DOMAIN t, NEW j \in DOMAIN t, i < j, t[j] # 0 PROVE t[i] < t[j]
    BY DEF Ordered
  <2>1. i \in 1..k
    BY <1>3
  <2>2. CASE j = k + 1
    BY <2>1, <2>2, <1>3, <1>5
  <2>3. CASE j \in 1..k
    BY <2>1, <2>3, <1>3, <1>5
  <2> QED
    BY <2>2, <2>3, <1>4
<1>7. \A i \in DOMAIN t : t[i] <= top
  <2> SUFFICES ASSUME NEW i \in DOMAIN t PROVE t[i] <= top
    OBVIOUS
  <2>1. CASE i = k + 1
    BY <2>1, <1>3
  <2>2. CASE i \in 1..k
    <3>1. t[i] = s[i] /\ t[i] \in Nat
      BY <2>2, <1>3
    <3>2. s[i] <= last
      BY <2>2, <1>5
    <3>3. last <= top /\ last \in Nat /\ top \in Nat
      OBVIOUS
    <3> QED
      BY ONLY <3>1, <3>2, <3>3
  <2> QED
    BY <2>1, <2>2, <1>4
<1>8. ASSUME NEW m \in got PROVE m <= top /\ \A i \in DOMAIN t : t[i] # 0 => m < t[i]
  BY <1>3, <1>4, <1>5
<1> QED
  BY ONLY <1>1, <1>6, <1>7, <1>8 DEF InOrder

LEMMA LeavesInOrder ==
    ASSUME NEW s \in Seq(Nat), NEW got \in SUBSET Nat, NEW last \in Nat, s # <<>>,
           InOrder(s, got, last)
    PROVE  /\ InOrder(Tail(s), got, last)
           /\ InOrder(Tail(s), got \union ({Head(s)} \ {0}), last)
<1>1. PICK t : t = Tail(s)
  OBVIOUS
<1>2. PICK k \in Nat : k = Len(t)
  BY <1>1
<1>3. /\ Len(s) = k + 1 /\ DOMAIN s = 1..k + 1 /\ DOMAIN t = 1..k /\ Head(s) = s[1]
      /\ \A i \in 1..k : t[i] = s[i + 1] /\ t[i] \in Nat
      /\ s[1] \in Nat
  BY <1>1, <1>2
<1>4. /\ \A i, j \in 1..k + 1 : i < j /\ s[j] # 0 => s[i] < s[j]
      /\ \A i \in 1..k + 1 : s[i] <= last
      /\ \A m \in got : m <= last /\ \A i \in 1..k + 1 : s[i] # 0 => m < s[i]
  BY <1>3 DEF InOrder, Ordered
<1>5. Ordered(t)
  <2> SUFFICES ASSUME NEW i \in 1..k, NEW j \in 1..k, i < j, t[j] # 0 PROVE t[i] < t[j]
    BY <1>3 DEF Ordered
  <2>1. i + 1 \in 1..k + 1 /\ j + 1 \in 1..k + 1 /\ i + 1 < j + 1
    OBVIOUS
  <2> QED
    BY <2>1, <1>3, <1>4
<1>6. \A i \in 1..k : i + 1 \in 1..k + 1
  OBVIOUS
<1>7. \A i \in DOMAIN t : t[i] <= last
  BY <1>3, <1>4, <1>6
<1>8. ASSUME NEW m \in got PROVE m <= last /\ \A i \in DOMAIN t : t[i] # 0 => m < t[i]
  BY <1>3, <1>4, <1>6
<1>9. s[1] <= last /\ \A i \in DOMAIN t : t[i] # 0 => s[1] < t[i]
  <2>1. 1 \in 1..k + 1
    OBVIOUS
  <2>2. \A i \in 1..k : 1 < i + 1
    OBVIOUS
  <2> QED
    BY <2>1, <2>2, <1>3, <1>4, <1>6
<1>10. InOrder(t, got, last)
  BY ONLY <1>5, <1>7, <1>8 DEF InOrder
<1>11. InOrder(t, got \union ({s[1]} \ {0}), last)
  BY ONLY <1>5, <1>7, <1>8, <1>9 DEF InOrder
<1> QED
  BY ONLY <1>1, <1>3, <1>10, <1>11

LEMMA LeavesComplete ==
    ASSUME NEW s \in Seq(Nat), NEW got \in SUBSET Nat, NEW last \in Nat, s # <<>>,
           Complete(s, got, last)
    PROVE  Complete(Tail(s), got \union ({Head(s)} \ {0}), last)
<1> SUFFICES ASSUME NEW n \in 1..last
             PROVE  n \in got \union ({Head(s)} \ {0}) \/ \E i \in DOMAIN Tail(s) : Tail(s)[i] = n
  BY DEF Complete
<1>1. n # 0 /\ n \in Nat
  OBVIOUS
<1>2. CASE n \in got
  BY <1>2
<1>3. ASSUME NEW i \in DOMAIN s, s[i] = n
      PROVE  n \in got \union ({Head(s)} \ {0}) \/ \E j \in DOMAIN Tail(s) : Tail(s)[j] = n
  <2>1. CASE i = 1
    BY <1>1, <1>3, <2>1
  <2>2. CASE i # 1
    <3>1. i - 1 \in DOMAIN Tail(s) /\ Tail(s)[i - 1] = s[i]
      BY <2>2
    <3> QED
      BY <3>1, <1>3
  <2> QED
    BY <2>1, <2>2
<1> QED
  BY <1>2, <1>3 DEF Complete

LEMMA AppendComplete ==
    ASSUME NEW s \in Seq(Nat), NEW got \in SUBSET Nat, NEW last \in Nat, NEW n \in Nat,
           Complete(s, got, last), NEW top \in Nat, top = last \/ (top = last + 1 /\ n = top)
    PROVE  Complete(Append(s, n), got, top)
<1> SUFFICES ASSUME NEW m \in 1..top
             PROVE  m \in got \/ \E i \in DOMAIN Append(s, n) : Append(s, n)[i] = m
  BY DEF Complete
<1>1. /\ \A i \in DOMAIN s : i \in DOMAIN Append(s, n) /\ Append(s, n)[i] = s[i]
      /\ Len(s) + 1 \in DOMAIN Append(s, n) /\ Append(s, n)[Len(s) + 1] = n
  OBVIOUS
<1>2. m \in 1..last \/ m = n
  OBVIOUS
<1> QED
  BY <1>1, <1>2 DEF Complete
-----------------------------------------------------------------------------
(* The connections that join and leave *)

(* Steps that register, evict and remove nobody, and begin no push.        *)
LEMMA MeetingFrame ==
    ASSUME MeetingInv, client' = client, closed' = closed, run' = run,
           \A c \in Conns : Met(c) => Met(c)',
           \A c \in Conns : Met(c)' \/ (reader'[c] = reader[c] /\ writer'[c] = writer[c]),
           \A c \in Conns : link'[c] = "new" => link[c] = "new" /\ reader'[c] = reader[c],
           \A q \in Pushers : push'[q].todo \subseteq push[q].todo,
           \A q \in Pushers : push'[q].full # NoConn => push'[q].full \in push'[q].todo,
           push[Run] = NoPush => push'[Run] = NoPush,
           client \in [Users -> Conns \union {NoConn}]
    PROVE  MeetingInv'
<1>1. RegisteredInv'
  <2> SUFFICES ASSUME NEW u \in Users, client[u] # NoConn
               PROVE  UserOf[client[u]] = u /\ client[u] \notin closed /\ Met(client[u])'
    BY DEF RegisteredInv, Met
  <2>1. client[u] \in Conns /\ UserOf[client[u]] = u /\ client[u] \notin closed /\ Met(client[u])
    BY DEF MeetingInv, RegisteredInv, Met
  <2> QED
    BY <2>1
<1>2. UnreadInv'
  <2> SUFFICES ASSUME NEW c \in Conns
               PROVE  /\ ~Met(c)' => c \notin closed /\ writer'[c] = "none"
                      /\ link'[c] = "new" => reader'[c] = "none"
    BY DEF UnreadInv, Met
  <2>1. ASSUME ~Met(c)' PROVE c \notin closed /\ writer'[c] = "none"
    <3>1. ~Met(c) /\ writer'[c] = writer[c]
      BY <2>1
    <3> QED
      BY <3>1 DEF MeetingInv, UnreadInv, Met
  <2>2. ASSUME link'[c] = "new" PROVE reader'[c] = "none"
    BY <2>2 DEF MeetingInv, UnreadInv
  <2> QED
    BY <2>1, <2>2
<1>3. RunInv'
  <2>1. run.at # "idle" => push[Run] = NoPush /\ run.conn \in Conns
    BY DEF MeetingInv, RunInv
  <2>2. run.at = "register" => run.conn \notin closed /\ run.conn \notin Registered /\ Met(run.conn)
    BY DEF MeetingInv, RunInv, Met
  <2>3. Registered' = Registered
    BY DEF Registered
  <2>4. run.at = "register" => Met(run.conn)'
    BY <2>1, <2>2
  <2>5. run.at = "greet" => client[UserOf[run.conn]] = run.conn
    BY DEF MeetingInv, RunInv
  <2> QED
    BY <2>1, <2>2, <2>3, <2>4, <2>5 DEF RunInv, Met
<1>4. PushInv'
  BY DEF MeetingInv, PushInv
<1> QED
  BY <1>1, <1>2, <1>3, <1>4 DEF MeetingInv

LEMMA NoPushIsPushing == NoPush \in Pushing /\ NoPush.todo = {} /\ NoPush.full = NoConn
BY DEF NoPush, Pushing

(* Serving a recipient leaves the others to serve.                         *)
LEMMA ServedFacts ==
    ASSUME NEW p \in Pushers, NEW c \in Conns, push \in [Pushers -> Pushing],
           c \in push[p].todo, Served(p, c)
    PROVE  /\ push' \in [Pushers -> Pushing]
           /\ \A q \in Pushers : push'[q].todo \subseteq push[q].todo
           /\ \A q \in Pushers : q = p \/ push'[q] = push[q]
           /\ push'[p].full = NoConn
           /\ push[Run] = NoPush => push'[Run] = NoPush
<1>1. PICK r : r = Rest(p, c)
  OBVIOUS
<1>2. push' = [push EXCEPT ![p] = r]
  BY <1>1 DEF Served
<1>3. r \in Pushing /\ r.todo \subseteq push[p].todo /\ r.full = NoConn
  <2>1. CASE push[p].todo = {c}
    BY <2>1, <1>1, NoPushIsPushing DEF Rest
  <2>2. CASE push[p].todo # {c}
    BY <2>2, <1>1 DEF Pushing, Rest
  <2> QED
    BY <2>1, <2>2
<1>4. push' \in [Pushers -> Pushing] /\ push'[p] = r /\ \A q \in Pushers : q = p \/ push'[q] = push[q]
  BY <1>2, <1>3
<1>5. ASSUME push[Run] = NoPush PROVE push'[Run] = NoPush
  <2>1. p # Run
    BY <1>5, NoPushIsPushing
  <2> QED
    BY <2>1, <1>4, <1>5 DEF Pushers
<1> QED
  BY <1>3, <1>4, <1>5

(* What is still to come to a connection that a step leaves alone.         *)
LEMMA QueueFrame ==
    ASSUME NEW c \in Conns, QueueOf(c), writer'[c] = "writes" <=> writer[c] = "writes",
           hand'[c] = hand[c],
           outbound'[c] = outbound[c], seen'[c] = seen[c], meant'[c] = meant[c],
           Uncut(c)' => Uncut(c)
    PROVE  QueueOf(c)'
<1>1. Coming(c)' = Coming(c)
  BY DEF Coming
<1> QED
  BY <1>1 DEF QueueOf

LEMMA UncutFrame ==
    ASSUME NEW c \in Conns, link'[c] = link[c] \/ link'[c] = "shut" \/ link[c] = "new",
           \A q \in Pushers : push'[q].full = push[q].full \/ link'[c] = "shut" \/ push[q].full # c
    PROVE  Uncut(c)' => Uncut(c)
BY DEF Uncut

LEMMA ComingType ==
    ASSUME DeliveryTypeOK, NEW c \in Conns
    PROVE  /\ Coming(c) \in Seq(Nat) /\ outbound[c] \in Seq(Nat) /\ hand[c] \in Nat
           /\ seen[c] \in SUBSET Nat /\ meant[c] \in Nat
<1>1. /\ outbound[c] \in Seq(Nat) /\ hand[c] \in Nat
      /\ seen[c] \in SUBSET Nat /\ meant[c] \in Nat
  BY DEF DeliveryTypeOK
<1> QED
  BY <1>1 DEF Coming

LEMMA HandedAppend ==
    ASSUME NEW h \in Nat, NEW s \in Seq(Nat), NEW n \in Nat
    PROVE  <<h>> \o Append(s, n) = Append(<<h>> \o s, n)
<1>1. PICK k \in Nat : k = Len(s)
  OBVIOUS
<1>2. PICK a : a = <<h>> \o Append(s, n)
  OBVIOUS
<1>3. PICK b : b = Append(<<h>> \o s, n)
  OBVIOUS
<1>4. PICK t : t = Append(s, n)
  OBVIOUS
<1>5. t \in Seq(Nat) /\ Len(t) = k + 1 /\ t[k + 1] = n /\ \A i \in 1..k : t[i] = s[i]
  BY <1>1, <1>4
<1>6. PICK r : r = <<h>> \o s
  OBVIOUS
<1>7. r \in Seq(Nat) /\ Len(r) = k + 1 /\ r[1] = h /\ \A i \in 2..k + 1 : r[i] = s[i - 1]
  BY <1>1, <1>6
<1>8. a \in Seq(Nat) /\ Len(a) = k + 2 /\ a[1] = h /\ \A i \in 2..k + 2 : a[i] = t[i - 1]
  <2>1. a = <<h>> \o t
    BY <1>2, <1>4
  <2> QED
    BY <2>1, <1>5
<1>9. b \in Seq(Nat) /\ Len(b) = k + 2 /\ b[k + 2] = n /\ \A i \in 1..k + 1 : b[i] = r[i]
  <2>1. b = Append(r, n)
    BY <1>3, <1>6
  <2> QED
    BY <2>1, <1>7
<1>10. ASSUME NEW i \in 1..k + 2 PROVE a[i] = b[i]
  <2>1. CASE i = 1
    BY <2>1, <1>7, <1>8, <1>9
  <2>2. CASE i = k + 2
    BY <2>2, <1>5, <1>8, <1>9
  <2>3. CASE i \in 2..k + 1
    <3>1. i - 1 \in 1..k
      BY <2>3
    <3> QED
      BY <3>1, <2>3, <1>5, <1>7, <1>8, <1>9
  <2> QED
    BY <2>1, <2>2, <2>3
<1>11. a \in [1..k + 2 -> Nat] /\ b \in [1..k + 2 -> Nat]
  <2>1. a \in [1..Len(a) -> Nat]
    BY <1>8, LenProperties
  <2>2. b \in [1..Len(b) -> Nat]
    BY <1>9, LenProperties
  <2> QED
    BY <2>1, <2>2, <1>8, <1>9
<1>12. a = b
  BY ONLY <1>10, <1>11
<1> QED
  BY <1>2, <1>3, <1>12

-----------------------------------------------------------------------------
(* The steps *)

LEMMA DeliveryInitially == DeliveryInit => DeliveryInv
<1> SUFFICES ASSUME DeliveryInit PROVE DeliveryInv
  OBVIOUS
<1> USE DeliveryAssumption
<1>1. /\ \A u \in Users : client[u] = NoConn
      /\ \A c \in Conns : outbound[c] = <<>> /\ writer[c] = "none" /\ seen[c] = {} /\ meant[c] = 0
      /\ \A c \in Conns : reader[c] = "none"
      /\ \A p \in Pushers : push[p] = NoPush
      /\ Run \in Pushers /\ closed = {} /\ run.at = "idle"
  BY DEF DeliveryInit, Pushers
<1>2. DeliveryTypeOK
  <2>1. push \in [Pushers -> Pushing]
    BY NoPushIsPushing DEF DeliveryInit
  <2>2. /\ client \in [Users -> Conns \union {NoConn}]
        /\ outbound \in [Conns -> Seq(Nat)] /\ closed \subseteq Conns
        /\ link \in [Conns -> {"new", "open", "shut"}]
        /\ reader \in [Conns -> {"none", "joins", "reads", "leaves", "gone"}]
        /\ writer \in [Conns -> {"none", "waits", "writes", "over"}]
    BY DEF DeliveryInit
  <2>3. run \in [at : {"idle", "register", "unregister", "greet"}, conn : Conns \union {NoConn}]
    BY DEF DeliveryInit
  <2>4. /\ hand \in [Conns -> Nat] /\ pushes \in Nat /\ meant \in [Conns -> Nat]
        /\ seen \in [Conns -> SUBSET Nat]
    BY DEF DeliveryInit
  <2> QED
    BY <2>1, <2>2, <2>3, <2>4 DEF DeliveryTypeOK
<1>3. MeetingInv
  BY <1>1, NoPushIsPushing DEF MeetingInv, RegisteredInv, UnreadInv, RunInv, PushInv, Met
<1>4. ASSUME NEW c \in Conns PROVE QueueOf(c)
  <2>1. Coming(c) = <<>> /\ DOMAIN Coming(c) = {} /\ 1..meant[c] = {}
    BY <1>1 DEF Coming
  <2>2. \A i : i \notin DOMAIN Coming(c)
    BY <2>1
  <2> QED
    BY <1>1, <2>1, <2>2 DEF QueueOf, InOrder, Ordered, Complete
<1> QED
  BY <1>2, <1>3, <1>4 DEF DeliveryInv, QueueInv

LEMMA EnqueueKeeps ==
    ASSUME DeliveryInv, NEW p \in Pushers, NEW c \in Conns, Enqueue(p, c)
    PROVE  DeliveryInv'
<1>1. DeliveryTypeOK /\ MeetingInv /\ push \in [Pushers -> Pushing]
  BY DEF DeliveryInv, DeliveryTypeOK
<1>2. /\ c \in push[p].todo /\ push[p].full = NoConn
      /\ Numbered(p, c) /\ Served(p, c)
      /\ outbound' = [outbound EXCEPT ![c] = Append(@, IF push[p].critical THEN meant'[c] ELSE 0)]
      /\ UNCHANGED <<client, closed, link, reader, writer, hand, run, pushes, seen>>
  BY DEF Enqueue
<1>3. /\ push' \in [Pushers -> Pushing]
      /\ \A q \in Pushers : push'[q].todo \subseteq push[q].todo
      /\ \A q \in Pushers : q = p \/ push'[q] = push[q]
      /\ push'[p].full = NoConn
      /\ push[Run] = NoPush => push'[Run] = NoPush
  BY <1>1, <1>2, ServedFacts
<1>4. PICK n : n = (IF push[p].critical THEN meant'[c] ELSE 0)
  OBVIOUS
<1>5. /\ meant' \in [Conns -> Nat] /\ n \in Nat
      /\ \/ meant'[c] = meant[c] /\ n = 0
         \/ meant'[c] = meant[c] + 1 /\ n = meant[c] + 1
      /\ \A d \in Conns : d = c \/ meant'[d] = meant[d]
  <2>1. meant \in [Conns -> Nat]
    BY <1>1 DEF DeliveryTypeOK
  <2>2. CASE push[p].critical
    BY <2>1, <2>2, <1>2, <1>4 DEF Numbered
  <2>3. CASE ~push[p].critical
    BY <2>1, <2>3, <1>2, <1>4 DEF Numbered
  <2> QED
    BY <2>2, <2>3
<1>6. /\ outbound' \in [Conns -> Seq(Nat)] /\ outbound'[c] = Append(outbound[c], n)
      /\ \A d \in Conns : d = c \/ outbound'[d] = outbound[d]
  <2>1. outbound \in [Conns -> Seq(Nat)] /\ outbound' = [outbound EXCEPT ![c] = Append(@, n)]
    BY <1>1, <1>2, <1>4 DEF DeliveryTypeOK
  <2>2. Append(outbound[c], n) \in Seq(Nat)
    BY <2>1, <1>5
  <2> QED
    BY <2>1, <2>2
<1>7. DeliveryTypeOK'
  BY <1>1, <1>2, <1>3, <1>5, <1>6 DEF DeliveryTypeOK
<1>8. MeetingInv'
  <2>1. \A q \in Pushers : push'[q].full # NoConn => push'[q].full \in push'[q].todo
    BY <1>1, <1>3 DEF MeetingInv, PushInv
  <2>2. \A d \in Conns : Met(d)' = Met(d)
    BY <1>2 DEF Met
  <2>3. client \in [Users -> Conns \union {NoConn}]
    BY <1>1 DEF DeliveryTypeOK
  <2> QED
    BY <1>1, <1>2, <1>3, <2>1, <2>2, <2>3, MeetingFrame
<1>9. ASSUME NEW d \in Conns PROVE QueueOf(d)'
  <2>1. QueueOf(d) /\ QueueOf(c)
    BY DEF DeliveryInv, QueueInv
  <2>2. Uncut(d)' => Uncut(d)
    <3>1. \A q \in Pushers : push'[q].full = push[q].full
      BY <1>2, <1>3
    <3> QED
      BY <3>1, <1>2, UncutFrame
  <2>3. CASE d # c
    BY <2>1, <2>2, <2>3, <1>2, <1>5, <1>6, QueueFrame
  <2>4. CASE d = c
    <3>1. Coming(c)' = Append(Coming(c), n)
      <4>1. outbound[c] \in Seq(Nat) /\ hand[c] \in Nat
        BY <1>1, ComingType
      <4>2. CASE writer[c] = "writes"
        <5>1. <<hand[c]>> \o Append(outbound[c], n) = Append(<<hand[c]>> \o outbound[c], n)
          BY <4>1, <1>5, HandedAppend
        <5> QED
          BY <5>1, <4>2, <1>2, <1>6 DEF Coming
      <4>3. CASE writer[c] # "writes"
        BY <4>3, <1>2, <1>6 DEF Coming
      <4> QED
        BY <4>2, <4>3
    <3>2. /\ Coming(c) \in Seq(Nat) /\ seen[c] \in SUBSET Nat /\ meant[c] \in Nat
          /\ meant'[c] \in Nat /\ seen'[c] = seen[c]
      BY <1>1, <1>2, <1>5, ComingType
    <3>3. n = 0 \/ n = meant[c] + 1
      BY <1>5
    <3>4. meant[c] <= meant'[c] /\ n <= meant'[c]
      BY <1>5, <3>2
    <3>5. InOrder(Append(Coming(c), n), seen[c], meant'[c])
      BY <2>1, <3>2, <3>3, <3>4, AppendInOrder DEF QueueOf
    <3>6. ASSUME Uncut(c)' PROVE Complete(Append(Coming(c), n), seen[c], meant'[c])
      <4>1. Complete(Coming(c), seen[c], meant[c])
        BY <2>1, <2>2, <2>4, <3>6 DEF QueueOf
      <4>2. meant'[c] = meant[c] \/ (meant'[c] = meant[c] + 1 /\ n = meant'[c])
        BY <1>5
      <4> QED
        BY <4>1, <4>2, <3>2, <1>5, AppendComplete
    <3> QED
      BY <2>4, <3>1, <3>2, <3>5, <3>6 DEF QueueOf
  <2> QED
    BY <2>3, <2>4
<1> QED
  BY <1>7, <1>8, <1>9 DEF DeliveryInv, QueueInv

LEMMA QuietQueues ==
    ASSUME DeliveryInv, UNCHANGED <<outbound, hand, seen, meant>>,
           \A c \in Conns : writer'[c] = "writes" <=> writer[c] = "writes",
           \A c \in Conns : Uncut(c)' => Uncut(c)
    PROVE  QueueInv'
<1> SUFFICES ASSUME NEW c \in Conns PROVE QueueOf(c)'
  BY DEF QueueInv
<1>1. QueueOf(c)
  BY DEF DeliveryInv, QueueInv
<1> QED
  BY <1>1, QueueFrame

LEMMA DropKeeps ==
    ASSUME DeliveryInv, NEW p \in Pushers, NEW c \in Conns, Drop(p, c)
    PROVE  DeliveryInv'
<1>1. DeliveryTypeOK /\ MeetingInv /\ push \in [Pushers -> Pushing]
  BY DEF DeliveryInv, DeliveryTypeOK
<1>2. /\ c \in push[p].todo /\ push[p].full = NoConn /\ Served(p, c)
      /\ UNCHANGED <<client, outbound, closed, link, reader, writer, hand, run, pushes, meant, seen>>
  BY DEF Drop
<1>3. /\ push' \in [Pushers -> Pushing]
      /\ \A q \in Pushers : push'[q].todo \subseteq push[q].todo
      /\ \A q \in Pushers : q = p \/ push'[q] = push[q]
      /\ push'[p].full = NoConn
      /\ push[Run] = NoPush => push'[Run] = NoPush
  BY <1>1, <1>2, ServedFacts
<1>4. DeliveryTypeOK'
  BY <1>1, <1>2, <1>3 DEF DeliveryTypeOK
<1>5. MeetingInv'
  <2>1. \A q \in Pushers : push'[q].full # NoConn => push'[q].full \in push'[q].todo
    BY <1>1, <1>3 DEF MeetingInv, PushInv
  <2>2. \A d \in Conns : Met(d)' = Met(d)
    BY <1>2 DEF Met
  <2>3. client \in [Users -> Conns \union {NoConn}]
    BY <1>1 DEF DeliveryTypeOK
  <2> QED
    BY <1>1, <1>2, <1>3, <2>1, <2>2, <2>3, MeetingFrame
<1>6. \A d \in Conns : Uncut(d)' => Uncut(d)
  <2>1. \A q \in Pushers : push'[q].full = push[q].full
    BY <1>2, <1>3
  <2> QED
    BY <2>1, <1>2, UncutFrame
<1>7. QueueInv'
  BY <1>2, <1>6, QuietQueues
<1> QED
  BY <1>4, <1>5, <1>7 DEF DeliveryInv

LEMMA CloseFullKeeps ==
    ASSUME DeliveryInv, NEW p \in Pushers, NEW c \in Conns, CloseFull(p, c)
    PROVE  DeliveryInv'
<1>1. DeliveryTypeOK /\ MeetingInv /\ push \in [Pushers -> Pushing] /\ NoConn \notin Conns
  BY DeliveryAssumption DEF DeliveryInv, DeliveryTypeOK
<1>2. /\ push[p].full = c /\ link' = [link EXCEPT ![c] = "shut"] /\ Served(p, c)
      /\ UNCHANGED <<client, outbound, closed, reader, writer, hand, run, pushes, meant, seen>>
  BY DEF CloseFull
<1>3. c \in push[p].todo
  BY <1>1, <1>2 DEF MeetingInv, PushInv
<1>4. /\ push' \in [Pushers -> Pushing]
      /\ \A q \in Pushers : push'[q].todo \subseteq push[q].todo
      /\ \A q \in Pushers : q = p \/ push'[q] = push[q]
      /\ push'[p].full = NoConn
      /\ push[Run] = NoPush => push'[Run] = NoPush
  BY <1>1, <1>2, <1>3, ServedFacts
<1>5. /\ link' \in [Conns -> {"new", "open", "shut"}] /\ link'[c] = "shut"
      /\ \A d \in Conns : d = c \/ link'[d] = link[d]
  BY <1>1, <1>2 DEF DeliveryTypeOK
<1>6. DeliveryTypeOK'
  BY <1>1, <1>2, <1>4, <1>5 DEF DeliveryTypeOK
<1>7. MeetingInv'
  <2>1. \A q \in Pushers : push'[q].full # NoConn => push'[q].full \in push'[q].todo
    BY <1>1, <1>4 DEF MeetingInv, PushInv
  <2>2. \A d \in Conns : Met(d)' = Met(d)
    BY <1>2 DEF Met
  <2>3. client \in [Users -> Conns \union {NoConn}]
    BY <1>1 DEF DeliveryTypeOK
  <2>4. \A d \in Conns : link'[d] = "new" => link[d] = "new" /\ reader'[d] = reader[d]
    BY <1>2, <1>5
  <2> QED
    BY <1>1, <1>2, <1>4, <2>1, <2>2, <2>3, <2>4, MeetingFrame
<1>8. \A d \in Conns : Uncut(d)' => Uncut(d)
  <2> SUFFICES ASSUME NEW d \in Conns PROVE Uncut(d)' => Uncut(d)
    OBVIOUS
  <2>1. CASE d = c
    BY <2>1, <1>5 DEF Uncut
  <2>2. CASE d # c
    <3>1. \A q \in Pushers : push'[q].full = push[q].full \/ push[q].full # d
      BY <2>2, <1>2, <1>4
    <3> QED
      BY <2>2, <3>1, <1>5, UncutFrame
  <2> QED
    BY <2>1, <2>2
<1>9. QueueInv'
  BY <1>2, <1>8, QuietQueues
<1> QED
  BY <1>6, <1>7, <1>9 DEF DeliveryInv

LEMMA FindFullKeeps ==
    ASSUME DeliveryInv, NEW p \in Pushers, NEW c \in Conns, FindFull(p, c)
    PROVE  DeliveryInv'
<1>1. DeliveryTypeOK /\ MeetingInv /\ push \in [Pushers -> Pushing] /\ NoConn \notin Conns
  BY DeliveryAssumption DEF DeliveryInv, DeliveryTypeOK
<1>2. /\ c \in push[p].todo /\ push[p].full = NoConn /\ push[p].critical /\ Numbered(p, c)
      /\ push' = [push EXCEPT ![p].full = c]
      /\ UNCHANGED <<client, outbound, closed, link, reader, writer, hand, run, pushes, seen>>
  BY DEF FindFull
<1>3. /\ push' \in [Pushers -> Pushing]
      /\ push'[p].full = c /\ push'[p].todo = push[p].todo
      /\ \A q \in Pushers : q = p \/ push'[q] = push[q]
  BY <1>1, <1>2 DEF Pushing
<1>4. /\ meant' \in [Conns -> Nat] /\ meant'[c] = meant[c] + 1
      /\ \A d \in Conns : d = c \/ meant'[d] = meant[d]
  <2>1. meant' = [meant EXCEPT ![c] = @ + 1]
    BY <1>2 DEF Numbered
  <2>2. meant \in [Conns -> Nat]
    BY <1>1 DEF DeliveryTypeOK
  <2> QED
    BY <2>1, <2>2
<1>5. DeliveryTypeOK'
  BY <1>1, <1>2, <1>3, <1>4 DEF DeliveryTypeOK
<1>6. MeetingInv'
  <2>1. \A q \in Pushers : push'[q].full # NoConn => push'[q].full \in push'[q].todo
    BY <1>1, <1>2, <1>3 DEF MeetingInv, PushInv
  <2>2. \A d \in Conns : Met(d)' = Met(d)
    BY <1>2 DEF Met
  <2>3. client \in [Users -> Conns \union {NoConn}]
    BY <1>1 DEF DeliveryTypeOK
  <2>4. \A q \in Pushers : push'[q].todo \subseteq push[q].todo
    BY <1>3
  <2>5. push[Run] = NoPush => push'[Run] = NoPush
    <3>1. ASSUME push[Run] = NoPush PROVE p # Run
      BY <3>1, <1>2, NoPushIsPushing
    <3> QED
      BY <3>1, <1>3 DEF Pushers
  <2> QED
    BY <1>1, <1>2, <2>1, <2>2, <2>3, <2>4, <2>5, MeetingFrame
<1>7. ASSUME NEW d \in Conns PROVE QueueOf(d)'
  <2>1. QueueOf(d) /\ QueueOf(c)
    BY DEF DeliveryInv, QueueInv
  <2>2. CASE d # c
    <3>1. \A q \in Pushers : push'[q].full = push[q].full \/ push[q].full # d
      BY <2>2, <1>1, <1>2, <1>3
    <3>2. Uncut(d)' => Uncut(d)
      BY <3>1, <1>2, UncutFrame
    <3> QED
      BY <2>1, <2>2, <3>2, <1>2, <1>4, QueueFrame
  <2>3. CASE d = c
    <3>1. ~Uncut(c)'
      BY <1>3 DEF Uncut
    <3>2. Coming(c)' = Coming(c)
      BY <1>2 DEF Coming
    <3>3. /\ Coming(c) \in Seq(Nat) /\ seen[c] \in SUBSET Nat /\ meant[c] \in Nat
      BY <1>1, ComingType
    <3>4. InOrder(Coming(c), seen[c], meant[c] + 1)
      <4>1. PICK s \in Seq(Nat) : s = Coming(c)
        BY <3>3
      <4>2. PICK n \in Nat : n = meant[c]
        BY <3>3
      <4>3. PICK got \in SUBSET Nat : got = seen[c]
        BY <3>3
      <4>4. InOrder(s, got, n)
        BY <2>1, <4>1, <4>2, <4>3 DEF QueueOf
      <4>5. \A i \in DOMAIN s : s[i] <= n + 1
        <5>1. \A i \in DOMAIN s : s[i] \in Nat /\ s[i] <= n
          BY <4>4 DEF InOrder
        <5> QED
          BY <5>1
      <4>6. \A m \in got : m <= n + 1
        <5>1. \A m \in got : m \in Nat /\ m <= n
          BY <4>4 DEF InOrder
        <5> QED
          BY <5>1
      <4>7. InOrder(s, got, n + 1)
        BY ONLY <4>4, <4>5, <4>6 DEF InOrder
      <4> QED
        BY <4>1, <4>2, <4>3, <4>7
    <3> QED
      BY <2>3, <3>1, <3>2, <3>4, <1>2, <1>4 DEF QueueOf
  <2> QED
    BY <2>2, <2>3
<1> QED
  BY <1>5, <1>6, <1>7 DEF DeliveryInv, QueueInv

LEMMA BeginPushKeeps ==
    ASSUME DeliveryInv, NEW p \in Pushers, NEW critical \in BOOLEAN, NEW recipients \in SUBSET Conns,
           BeginPush(p, critical, recipients)
    PROVE  DeliveryInv'
<1>1. DeliveryTypeOK /\ MeetingInv /\ push \in [Pushers -> Pushing] /\ NoConn \notin Conns
  BY DeliveryAssumption DEF DeliveryInv, DeliveryTypeOK
<1>2. PICK r : r = [critical |-> critical, todo |-> recipients, full |-> NoConn]
  OBVIOUS
<1>3. /\ push[p] = NoPush /\ (p = Run => run.at = "idle") /\ recipients \subseteq Registered
      /\ push' = [push EXCEPT ![p] = r] /\ pushes' = pushes + 1
      /\ UNCHANGED <<client, outbound, closed, link, reader, writer, hand, run, meant, seen>>
  BY <1>2 DEF BeginPush
<1>4. r \in Pushing /\ r.todo = recipients /\ r.full = NoConn
  BY <1>2 DEF Pushing
<1>5. /\ push' \in [Pushers -> Pushing] /\ push'[p] = r
      /\ \A q \in Pushers : q = p \/ push'[q] = push[q]
  BY <1>1, <1>3, <1>4
<1>6. DeliveryTypeOK'
  BY <1>1, <1>3, <1>5 DEF DeliveryTypeOK
<1>7. MeetingInv'
  <2>1. RegisteredInv' /\ UnreadInv'
    BY <1>1, <1>3 DEF MeetingInv, RegisteredInv, UnreadInv, Met
  <2>2. RunInv'
    <3>1. run.at # "idle" => push'[Run] = NoPush
      BY <1>1, <1>3, <1>5 DEF MeetingInv, RunInv, Pushers
    <3>2. Registered' = Registered
      BY <1>3 DEF Registered
    <3> QED
      BY <3>1, <3>2, <1>1, <1>3 DEF MeetingInv, RunInv, Met
  <2>3. ASSUME NEW q \in Pushers
        PROVE  /\ \A c \in push'[q].todo : client'[UserOf[c]] = c
               /\ push'[q].full # NoConn => push'[q].full \in push'[q].todo
    <3>1. CASE q = p
      <4>1. ASSUME NEW c \in recipients PROVE client[UserOf[c]] = c
        <5>1. PICK u \in Users : client[u] = c /\ c # NoConn
          BY <1>3 DEF Registered
        <5>2. UserOf[client[u]] = u
          BY <5>1, <1>1 DEF MeetingInv, RegisteredInv
        <5> QED
          BY <5>1, <5>2
      <4> QED
        BY <3>1, <4>1, <1>3, <1>4, <1>5
    <3>2. CASE q # p
      BY <3>2, <1>1, <1>3, <1>5 DEF MeetingInv, PushInv
    <3> QED
      BY <3>1, <3>2
  <2>4. PushInv'
    BY <2>3 DEF PushInv
  <2> QED
    BY <2>1, <2>2, <2>4 DEF MeetingInv
<1>8. \A c \in Conns : Uncut(c)' => Uncut(c)
  <2>1. \A q \in Pushers : push'[q].full = push[q].full
    BY <1>3, <1>4, <1>5, NoPushIsPushing
  <2> QED
    BY <2>1, <1>3, UncutFrame
<1>9. QueueInv'
  BY <1>3, <1>8, QuietQueues
<1> QED
  BY <1>6, <1>7, <1>9 DEF DeliveryInv

LEMMA RegisterClientKeeps ==
    ASSUME DeliveryInv, RegisterClient
    PROVE  DeliveryInv'
<1>1. DeliveryTypeOK /\ MeetingInv /\ push \in [Pushers -> Pushing] /\ NoConn \notin Conns
  BY DeliveryAssumption DEF DeliveryInv, DeliveryTypeOK
<1>2. PICK c : c = run.conn
  OBVIOUS
<1>3. PICK old : old = client[UserOf[c]]
  OBVIOUS
<1>4. /\ run.at = "register" /\ Holding = {}
      /\ client' = [client EXCEPT ![UserOf[c]] = c]
      /\ IF old = NoConn THEN UNCHANGED <<link, closed>>
         ELSE link' = [link EXCEPT ![old] = "shut"] /\ closed' = closed \union {old}
      /\ run' = [run EXCEPT !.at = "greet"]
      /\ UNCHANGED <<outbound, reader, writer, hand, pushVars, seen>>
  BY <1>2, <1>3 DEF RegisterClient
<1>5. /\ c \in Conns /\ c \notin closed /\ c \notin Registered /\ Met(c) /\ push[Run] = NoPush
  BY <1>1, <1>2, <1>4 DEF MeetingInv, RunInv
<1>6. /\ UserOf[c] \in Users /\ client \in [Users -> Conns \union {NoConn}]
      /\ old \in Conns \union {NoConn}
  BY <1>1, <1>3, <1>5, DeliveryAssumption DEF DeliveryTypeOK
<1>7. /\ client' \in [Users -> Conns \union {NoConn}] /\ client'[UserOf[c]] = c
      /\ \A u \in Users : u = UserOf[c] \/ client'[u] = client[u]
  BY <1>4, <1>5, <1>6
<1>8. /\ link' \in [Conns -> {"new", "open", "shut"}] /\ closed' \subseteq Conns
      /\ \A d \in Conns : link'[d] = link[d] \/ link'[d] = "shut"
      /\ \A d \in closed' : d \in closed \/ (d = old /\ old # NoConn)
  <2>1. link \in [Conns -> {"new", "open", "shut"}] /\ closed \subseteq Conns
    BY <1>1 DEF DeliveryTypeOK
  <2>2. CASE old = NoConn
    BY <2>1, <2>2, <1>4
  <2>3. CASE old # NoConn
    BY <2>1, <2>3, <1>4, <1>6
  <2> QED
    BY <2>2, <2>3
<1>9. /\ run' \in [at : {"idle", "register", "unregister", "greet"}, conn : Conns \union {NoConn}]
      /\ run'.at = "greet" /\ run'.conn = c
  <2>1. run \in [at : {"idle", "register", "unregister", "greet"}, conn : Conns \union {NoConn}]
    BY <1>1 DEF DeliveryTypeOK
  <2> QED
    BY <2>1, <1>2, <1>4
<1>10. UNCHANGED <<push, pushes, meant>>
  BY <1>4 DEF pushVars
<1>11. DeliveryTypeOK'
  BY <1>1, <1>4, <1>7, <1>8, <1>9, <1>10 DEF DeliveryTypeOK
<1>12. \A p \in Pushers : push[p].todo = {}
  BY <1>4 DEF Holding
<1>13. old # NoConn => Met(old) /\ UserOf[old] = UserOf[c] /\ old # c
  <2>1. ASSUME old # NoConn PROVE old \in Registered
    BY <2>1, <1>3, <1>6 DEF Registered
  <2> QED
    BY <2>1, <1>1, <1>3, <1>5, <1>6 DEF MeetingInv, RegisteredInv
<1>14. \A d \in Conns : Met(d)' = Met(d)
  BY <1>4 DEF Met
<1>15. RegisteredInv'
  <2> SUFFICES ASSUME NEW u \in Users, client'[u] # NoConn
               PROVE  UserOf[client'[u]] = u /\ client'[u] \notin closed' /\ Met(client[u])'
    BY DEF RegisteredInv
  <2>1. CASE u = UserOf[c]
    <3>1. client'[u] = c /\ c \notin closed'
      BY <2>1, <1>5, <1>7, <1>8, <1>13
    <3>2. Met(client[u])'
      BY <3>1, <1>4, <1>5 DEF Met
    <3> QED
      BY <3>1, <3>2, <2>1
  <2>2. CASE u # UserOf[c]
    <3>1. client'[u] = client[u]
      BY <2>2, <1>7
    <3>2. UserOf[client[u]] = u /\ client[u] \notin closed /\ Met(client[u])
      BY <3>1, <1>1 DEF MeetingInv, RegisteredInv
    <3>3. client[u] \notin closed'
      BY <3>2, <2>2, <1>8, <1>13
    <3>4. Met(client[u])'
      BY <3>1, <3>2, <1>4 DEF Met
    <3> QED
      BY <3>1, <3>2, <3>3, <3>4
  <2> QED
    BY <2>1, <2>2
<1>16. UnreadInv'
  <2> SUFFICES ASSUME NEW d \in Conns
               PROVE  /\ ~Met(d)' => d \notin closed' /\ writer'[d] = "none"
                      /\ link'[d] = "new" => reader'[d] = "none"
    BY DEF UnreadInv
  <2>1. ASSUME ~Met(d)' PROVE d \notin closed' /\ writer'[d] = "none"
    BY <2>1, <1>1, <1>4, <1>8, <1>13, <1>14 DEF MeetingInv, UnreadInv
  <2>2. ASSUME link'[d] = "new" PROVE reader'[d] = "none"
    BY <2>2, <1>1, <1>4, <1>8 DEF MeetingInv, UnreadInv
  <2> QED
    BY <2>1, <2>2
<1>17. RunInv'
  BY <1>5, <1>7, <1>9, <1>10 DEF RunInv
<1>18. PushInv'
  <2>1. \A p \in Pushers : push[p].full = NoConn
    BY <1>1, <1>12 DEF MeetingInv, PushInv
  <2> QED
    BY <2>1, <1>10, <1>12 DEF PushInv
<1>19. \A d \in Conns : Uncut(d)' => Uncut(d)
  BY <1>8, <1>10, UncutFrame
<1>20. QueueInv'
  BY <1>4, <1>10, <1>19, QuietQueues
<1> QED
  BY <1>11, <1>15, <1>16, <1>17, <1>18, <1>20 DEF DeliveryInv, MeetingInv

LEMMA UnregisterClientKeeps ==
    ASSUME DeliveryInv, UnregisterClient
    PROVE  DeliveryInv'
<1>1. DeliveryTypeOK /\ MeetingInv /\ push \in [Pushers -> Pushing] /\ NoConn \notin Conns
  BY DeliveryAssumption DEF DeliveryInv, DeliveryTypeOK
<1>2. PICK c : c = run.conn
  OBVIOUS
<1>3. /\ run.at = "unregister" /\ Holding = {}
      /\ IF client[UserOf[c]] = c
           THEN client' = [client EXCEPT ![UserOf[c]] = NoConn] /\ closed' = closed \union {c}
           ELSE UNCHANGED <<client, closed>>
      /\ run' = [at |-> "idle", conn |-> NoConn]
      /\ UNCHANGED <<outbound, link, reader, writer, hand, pushVars, seen>>
  BY <1>2 DEF UnregisterClient, Removes
<1>4. c \in Conns /\ push[Run] = NoPush /\ UserOf[c] \in Users
  BY <1>1, <1>2, <1>3, DeliveryAssumption DEF MeetingInv, RunInv
<1>5. /\ client \in [Users -> Conns \union {NoConn}] /\ closed \subseteq Conns
  BY <1>1 DEF DeliveryTypeOK
<1>6. /\ client' \in [Users -> Conns \union {NoConn}] /\ closed' \subseteq Conns
      /\ \A u \in Users : client'[u] = client[u] \/ client'[u] = NoConn
      /\ \A d \in closed' : d \in closed \/ (d = c /\ client[UserOf[c]] = c /\ client'[UserOf[c]] = NoConn)
  <2>1. CASE client[UserOf[c]] = c
    BY <2>1, <1>3, <1>4, <1>5
  <2>2. CASE client[UserOf[c]] # c
    BY <2>2, <1>3, <1>4, <1>5
  <2> QED
    BY <2>1, <2>2
<1>7. /\ run' \in [at : {"idle", "register", "unregister", "greet"}, conn : Conns \union {NoConn}]
      /\ run'.at = "idle"
  BY <1>3
<1>8. UNCHANGED <<push, pushes, meant>>
  BY <1>3 DEF pushVars
<1>9. DeliveryTypeOK'
  BY <1>1, <1>3, <1>6, <1>7, <1>8 DEF DeliveryTypeOK
<1>10. \A p \in Pushers : push[p].todo = {}
  BY <1>3 DEF Holding
<1>11. \A d \in Conns : Met(d)' = Met(d)
  BY <1>3 DEF Met
<1>12. RegisteredInv'
  <2> SUFFICES ASSUME NEW u \in Users, client'[u] # NoConn
               PROVE  UserOf[client'[u]] = u /\ client'[u] \notin closed' /\ Met(client[u])'
    BY DEF RegisteredInv
  <2>1. client'[u] = client[u]
    BY <1>6
  <2>2. UserOf[client[u]] = u /\ client[u] \notin closed /\ Met(client[u])
    BY <2>1, <1>1 DEF MeetingInv, RegisteredInv
  <2>3. client[u] \notin closed'
    BY <2>1, <2>2, <1>6
  <2>4. Met(client[u])'
    BY <2>1, <2>2, <1>3 DEF Met
  <2> QED
    BY <2>1, <2>2, <2>3, <2>4
<1>13. UnreadInv'
  <2> SUFFICES ASSUME NEW d \in Conns
               PROVE  /\ ~Met(d)' => d \notin closed' /\ writer'[d] = "none"
                      /\ link'[d] = "new" => reader'[d] = "none"
    BY DEF UnreadInv
  <2>1. ASSUME ~Met(d)' PROVE d \notin closed' /\ writer'[d] = "none"
    <3>1. ~Met(d) /\ d \notin closed /\ writer[d] = "none"
      BY <2>1, <1>1, <1>11 DEF MeetingInv, UnreadInv
    <3>2. client[UserOf[c]] = c => Met(c)
      BY <1>1, <1>4 DEF MeetingInv, RegisteredInv
    <3> QED
      BY <3>1, <3>2, <1>3, <1>6
  <2>2. ASSUME link'[d] = "new" PROVE reader'[d] = "none"
    BY <2>2, <1>1, <1>3 DEF MeetingInv, UnreadInv
  <2> QED
    BY <2>1, <2>2
<1>14. RunInv'
  BY <1>7 DEF RunInv
<1>15. PushInv'
  <2>1. \A p \in Pushers : push[p].full = NoConn
    BY <1>1, <1>10 DEF MeetingInv, PushInv
  <2> QED
    BY <2>1, <1>8, <1>10 DEF PushInv
<1>16. \A d \in Conns : Uncut(d)' => Uncut(d)
  BY <1>3, <1>8, UncutFrame
<1>17. QueueInv'
  BY <1>3, <1>8, <1>16, QuietQueues
<1> QED
  BY <1>9, <1>12, <1>13, <1>14, <1>15, <1>17 DEF DeliveryInv, MeetingInv

LEMMA GreetKeeps ==
    ASSUME DeliveryInv, Greet
    PROVE  DeliveryInv'
<1>1. DeliveryTypeOK /\ MeetingInv /\ push \in [Pushers -> Pushing] /\ NoConn \notin Conns
  BY DeliveryAssumption DEF DeliveryInv, DeliveryTypeOK
<1>2. PICK r : r = [critical |-> FALSE, todo |-> {run.conn}, full |-> NoConn]
  OBVIOUS
<1>3. /\ run.at = "greet" /\ run' = [at |-> "idle", conn |-> NoConn]
      /\ push' = [push EXCEPT ![Run] = r]
      /\ UNCHANGED <<client, outbound, closed, link, reader, writer, hand, pushes, meant, seen>>
  BY <1>2 DEF Greet
<1>4. run.conn \in Conns /\ push[Run] = NoPush /\ client[UserOf[run.conn]] = run.conn
  BY <1>1, <1>3 DEF MeetingInv, RunInv
<1>5. r \in Pushing /\ r.todo = {run.conn} /\ r.full = NoConn
  BY <1>2, <1>4 DEF Pushing
<1>6. /\ push' \in [Pushers -> Pushing] /\ push'[Run] = r
      /\ \A q \in Pushers : q = Run \/ push'[q] = push[q]
  BY <1>1, <1>3, <1>5 DEF Pushers
<1>7. run' \in [at : {"idle", "register", "unregister", "greet"}, conn : Conns \union {NoConn}]
  BY <1>3
<1>8. DeliveryTypeOK'
  BY <1>1, <1>3, <1>6, <1>7 DEF DeliveryTypeOK
<1>9. RegisteredInv' /\ UnreadInv'
  BY <1>1, <1>3 DEF MeetingInv, RegisteredInv, UnreadInv, Met
<1>10. RunInv'
  BY <1>3 DEF RunInv
<1>11. PushInv'
  <2> SUFFICES ASSUME NEW q \in Pushers
               PROVE  /\ \A c \in push'[q].todo : client'[UserOf[c]] = c
                      /\ push'[q].full # NoConn => push'[q].full \in push'[q].todo
    BY DEF PushInv
  <2>1. CASE q = Run
    BY <2>1, <1>3, <1>4, <1>5, <1>6
  <2>2. CASE q # Run
    BY <2>2, <1>1, <1>3, <1>6 DEF MeetingInv, PushInv
  <2> QED
    BY <2>1, <2>2
<1>12. \A c \in Conns : Uncut(c)' => Uncut(c)
  <2>1. \A q \in Pushers : push'[q].full = push[q].full
    BY <1>4, <1>5, <1>6, NoPushIsPushing
  <2> QED
    BY <2>1, <1>3, UncutFrame
<1>13. QueueInv'
  BY <1>3, <1>12, QuietQueues
<1> QED
  BY <1>8, <1>9, <1>10, <1>11, <1>13 DEF DeliveryInv, MeetingInv

LEMMA TakeRegisterKeeps ==
    ASSUME DeliveryInv, NEW c \in Conns, TakeRegister(c)
    PROVE  DeliveryInv'
<1>1. DeliveryTypeOK /\ MeetingInv
  BY DEF DeliveryInv
<1>2. /\ push[Run] = NoPush /\ reader[c] = "joins" /\ run' = [at |-> "register", conn |-> c]
      /\ reader' = [reader EXCEPT ![c] = "reads"] /\ writer' = [writer EXCEPT ![c] = "waits"]
      /\ UNCHANGED <<client, outbound, closed, link, hand, pushVars, seen>>
  BY DEF TakeRegister, RunIsFree
<1>3. /\ reader' \in [Conns -> {"none", "joins", "reads", "leaves", "gone"}] /\ reader'[c] = "reads"
      /\ writer' \in [Conns -> {"none", "waits", "writes", "over"}] /\ writer'[c] = "waits"
      /\ \A d \in Conns : d = c \/ (reader'[d] = reader[d] /\ writer'[d] = writer[d])
  BY <1>1, <1>2 DEF DeliveryTypeOK
<1>4. UNCHANGED <<push, pushes, meant>>
  BY <1>2 DEF pushVars
<1>5. run' \in [at : {"idle", "register", "unregister", "greet"}, conn : Conns \union {NoConn}]
  BY <1>2
<1>6. DeliveryTypeOK'
  BY <1>1, <1>2, <1>3, <1>4, <1>5 DEF DeliveryTypeOK
<1>7. ~Met(c) /\ c \notin closed /\ writer[c] = "none" /\ link[c] # "new"
  BY <1>1, <1>2 DEF MeetingInv, UnreadInv, Met
<1>8. c \notin Registered
  <2> SUFFICES ASSUME NEW u \in Users, client[u] = c, c # NoConn PROVE FALSE
    BY DEF Registered
  <2> QED
    BY <1>1, <1>7 DEF MeetingInv, RegisteredInv
<1>9. \A d \in Conns : Met(d)' <=> Met(d) \/ d = c
  BY <1>3 DEF Met
<1>10. RegisteredInv'
  <2> SUFFICES ASSUME NEW u \in Users, client[u] # NoConn
               PROVE  UserOf[client[u]] = u /\ client[u] \notin closed /\ Met(client[u])'
    BY <1>2 DEF RegisteredInv, Met
  <2>1. UserOf[client[u]] = u /\ client[u] \notin closed /\ Met(client[u]) /\ client[u] \in Conns
    BY <1>1 DEF MeetingInv, RegisteredInv, DeliveryTypeOK
  <2>2. PICK d \in Conns : d = client[u]
    BY <2>1
  <2>3. Met(d)'
    BY <2>1, <2>2, <1>9
  <2> QED
    BY <2>1, <2>2, <2>3, <1>2 DEF Met
<1>11. UnreadInv'
  <2> SUFFICES ASSUME NEW d \in Conns
               PROVE  /\ ~Met(d)' => d \notin closed' /\ writer'[d] = "none"
                      /\ link'[d] = "new" => reader'[d] = "none"
    BY DEF UnreadInv
  <2>1. CASE d = c
    BY <2>1, <1>2, <1>7, <1>9
  <2>2. CASE d # c
    BY <2>2, <1>1, <1>2, <1>3, <1>9 DEF MeetingInv, UnreadInv
  <2> QED
    BY <2>1, <2>2
<1>12. RunInv'
  <2>1. Met(c)' /\ Registered' = Registered
    BY <1>2, <1>9 DEF Registered
  <2>2. run'.at = "register" /\ run'.conn = c
    BY <1>2
  <2>3. Met(run.conn)'
    BY <2>1, <2>2 DEF Met
  <2> QED
    BY <2>1, <2>2, <2>3, <1>2, <1>4, <1>7, <1>8 DEF RunInv
<1>13. PushInv'
  BY <1>1, <1>2, <1>4 DEF MeetingInv, PushInv
<1>14. \A d \in Conns : Uncut(d)' => Uncut(d)
  BY <1>2, <1>4, UncutFrame
<1>15. \A d \in Conns : writer'[d] = "writes" <=> writer[d] = "writes"
  <2> SUFFICES ASSUME NEW d \in Conns PROVE writer'[d] = "writes" <=> writer[d] = "writes"
    OBVIOUS
  <2>1. CASE d = c
    BY <2>1, <1>3, <1>7
  <2>2. CASE d # c
    BY <2>2, <1>3
  <2> QED
    BY <2>1, <2>2
<1>16. QueueInv'
  BY <1>2, <1>4, <1>14, <1>15, QuietQueues
<1> QED
  BY <1>6, <1>10, <1>11, <1>12, <1>13, <1>16 DEF DeliveryInv, MeetingInv

LEMMA TakeUnregisterKeeps ==
    ASSUME DeliveryInv, NEW c \in Conns, TakeUnregister(c)
    PROVE  DeliveryInv'
<1>1. DeliveryTypeOK /\ MeetingInv
  BY DEF DeliveryInv
<1>2. /\ push[Run] = NoPush /\ reader[c] = "leaves" /\ run' = [at |-> "unregister", conn |-> c]
      /\ reader' = [reader EXCEPT ![c] = "gone"]
      /\ UNCHANGED <<client, outbound, closed, link, writer, hand, pushVars, seen>>
  BY DEF TakeUnregister, RunIsFree
<1>3. /\ reader' \in [Conns -> {"none", "joins", "reads", "leaves", "gone"}] /\ reader'[c] = "gone"
      /\ \A d \in Conns : d = c \/ reader'[d] = reader[d]
  BY <1>1, <1>2 DEF DeliveryTypeOK
<1>4. UNCHANGED <<push, pushes, meant>>
  BY <1>2 DEF pushVars
<1>5. run' \in [at : {"idle", "register", "unregister", "greet"}, conn : Conns \union {NoConn}]
  BY <1>2
<1>6. DeliveryTypeOK'
  BY <1>1, <1>2, <1>3, <1>4, <1>5 DEF DeliveryTypeOK
<1>7. Met(c) /\ link[c] # "new"
  BY <1>1, <1>2 DEF MeetingInv, UnreadInv, Met
<1>8. \A d \in Conns : Met(d)' <=> Met(d)
  <2> SUFFICES ASSUME NEW d \in Conns PROVE Met(d)' <=> Met(d)
    OBVIOUS
  <2>1. CASE d = c
    BY <2>1, <1>3, <1>7 DEF Met
  <2>2. CASE d # c
    BY <2>2, <1>3 DEF Met
  <2> QED
    BY <2>1, <2>2
<1>9. RegisteredInv'
  <2> SUFFICES ASSUME NEW u \in Users, client[u] # NoConn
               PROVE  UserOf[client[u]] = u /\ client[u] \notin closed /\ Met(client[u])'
    BY <1>2 DEF RegisteredInv, Met
  <2>1. UserOf[client[u]] = u /\ client[u] \notin closed /\ Met(client[u]) /\ client[u] \in Conns
    BY <1>1 DEF MeetingInv, RegisteredInv, DeliveryTypeOK
  <2>2. PICK d \in Conns : d = client[u]
    BY <2>1
  <2>3. Met(d)'
    BY <2>1, <2>2, <1>8
  <2> QED
    BY <2>1, <2>2, <2>3, <1>2 DEF Met
<1>10. UnreadInv'
  <2> SUFFICES ASSUME NEW d \in Conns
               PROVE  /\ ~Met(d)' => d \notin closed' /\ writer'[d] = "none"
                      /\ link'[d] = "new" => reader'[d] = "none"
    BY DEF UnreadInv
  <2>1. CASE d = c
    BY <2>1, <1>2, <1>7, <1>8
  <2>2. CASE d # c
    BY <2>2, <1>1, <1>2, <1>3, <1>8 DEF MeetingInv, UnreadInv
  <2> QED
    BY <2>1, <2>2
<1>11. RunInv'
  <2>1. run'.at = "unregister" /\ run'.conn = c
    BY <1>2
  <2> QED
    BY <2>1, <1>2, <1>4 DEF RunInv
<1>12. PushInv'
  BY <1>1, <1>2, <1>4 DEF MeetingInv, PushInv
<1>13. \A d \in Conns : Uncut(d)' => Uncut(d)
  BY <1>2, <1>4, UncutFrame
<1>14. QueueInv'
  BY <1>2, <1>4, <1>13, QuietQueues
<1> QED
  BY <1>6, <1>9, <1>10, <1>11, <1>12, <1>14 DEF DeliveryInv, MeetingInv

(* Steps of a connection that change no queue.                             *)
LEMMA DialKeeps ==
    ASSUME DeliveryInv, NEW c \in Conns, Dial(c)
    PROVE  DeliveryInv'
<1>1. DeliveryTypeOK /\ MeetingInv
  BY DEF DeliveryInv
<1>2. /\ link[c] = "new" /\ link' = [link EXCEPT ![c] = "open"]
      /\ reader' = [reader EXCEPT ![c] = "joins"]
      /\ UNCHANGED <<client, outbound, closed, writer, hand, run, push, pushes, meant, seen>>
  BY DEF Dial, pushVars
<1>3. /\ link' \in [Conns -> {"new", "open", "shut"}] /\ link'[c] = "open"
      /\ reader' \in [Conns -> {"none", "joins", "reads", "leaves", "gone"}] /\ reader'[c] = "joins"
      /\ \A d \in Conns : d = c \/ (link'[d] = link[d] /\ reader'[d] = reader[d])
  BY <1>1, <1>2 DEF DeliveryTypeOK
<1>4. DeliveryTypeOK'
  BY <1>1, <1>2, <1>3 DEF DeliveryTypeOK
<1>5. MeetingInv'
  <2>1. reader[c] = "none"
    BY <1>1, <1>2 DEF MeetingInv, UnreadInv
  <2>2. \A d \in Conns : Met(d)' <=> Met(d)
    <3> SUFFICES ASSUME NEW d \in Conns PROVE Met(d)' <=> Met(d)
      OBVIOUS
    <3>1. CASE d = c
      BY <3>1, <2>1, <1>3 DEF Met
    <3>2. CASE d # c
      BY <3>2, <1>3 DEF Met
    <3> QED
      BY <3>1, <3>2
  <2>3. RegisteredInv'
    <3> SUFFICES ASSUME NEW u \in Users, client[u] # NoConn
                 PROVE  UserOf[client[u]] = u /\ client[u] \notin closed /\ Met(client[u])'
      BY <1>2 DEF RegisteredInv, Met
    <3>1. UserOf[client[u]] = u /\ client[u] \notin closed /\ Met(client[u]) /\ client[u] \in Conns
      BY <1>1 DEF MeetingInv, RegisteredInv, DeliveryTypeOK
    <3>2. PICK d \in Conns : d = client[u]
      BY <3>1
    <3>3. Met(d)'
      BY <3>1, <3>2, <2>2
    <3> QED
      BY <3>1, <3>2, <3>3, <1>2 DEF Met
  <2>4. UnreadInv'
    <3> SUFFICES ASSUME NEW d \in Conns
                 PROVE  /\ ~Met(d)' => d \notin closed' /\ writer'[d] = "none"
                        /\ link'[d] = "new" => reader'[d] = "none"
      BY DEF UnreadInv
    <3>1. ~Met(d) => d \notin closed /\ writer[d] = "none"
      BY <1>1 DEF MeetingInv, UnreadInv
    <3>2. link'[d] = "new" => d # c /\ link[d] = "new"
      BY <1>3
    <3>3. link'[d] = "new" => reader'[d] = "none"
      BY <3>2, <1>1, <1>3 DEF MeetingInv, UnreadInv
    <3> QED
      BY <3>1, <3>3, <2>2, <1>2
  <2>5. RunInv'
    <3>1. run.conn \in Conns => (Met(run.conn)' <=> Met(run.conn))
      BY <1>2, <2>2 DEF Met
    <3>2. Registered' = Registered
      BY <1>2 DEF Registered
    <3> QED
      BY <3>1, <3>2, <1>1, <1>2 DEF MeetingInv, RunInv
  <2>6. PushInv'
    BY <1>1, <1>2 DEF MeetingInv, PushInv
  <2> QED
    BY <2>3, <2>4, <2>5, <2>6 DEF MeetingInv
<1>6. \A d \in Conns : Uncut(d)' => Uncut(d)
  <2> SUFFICES ASSUME NEW d \in Conns PROVE Uncut(d)' => Uncut(d)
    OBVIOUS
  <2>1. CASE d = c
    BY <2>1, <1>2 DEF Uncut
  <2>2. CASE d # c
    BY <2>2, <1>2, <1>3 DEF Uncut
  <2> QED
    BY <2>1, <2>2
<1>7. QueueInv'
  BY <1>2, <1>6, QuietQueues
<1> QED
  BY <1>4, <1>5, <1>7 DEF DeliveryInv

(* Those that leave the registry, the run loop and the pushes alone.       *)
LEMMA OwnStep ==
    ASSUME DeliveryInv, NEW c \in Conns, UNCHANGED <<client, closed, run, pushVars>>,
           reader'[c] = reader[c] \/ (Met(c) /\ Met(c)'),
           writer'[c] = writer[c] \/ writer[c] # "none",
           link'[c] = link[c] \/ link'[c] = "shut",
           link'[c] = "new" => reader'[c] = reader[c],
           \A d \in Conns : d = c \/ (reader'[d] = reader[d] /\ writer'[d] = writer[d]
                                      /\ link'[d] = link[d])
    PROVE  MeetingInv' /\ \A d \in Conns : Uncut(d)' => Uncut(d)
<1>1. MeetingInv /\ UNCHANGED <<push, pushes, meant>> /\ client \in [Users -> Conns \union {NoConn}]
  BY DEF DeliveryInv, DeliveryTypeOK, pushVars
<1>2. \A d \in Conns : Met(d)' <=> Met(d)
  <2> SUFFICES ASSUME NEW d \in Conns PROVE Met(d)' <=> Met(d)
    OBVIOUS
  <2>1. CASE d = c
    BY <2>1 DEF Met
  <2>2. CASE d # c
    BY <2>2 DEF Met
  <2> QED
    BY <2>1, <2>2
<1>3. ASSUME NEW d \in Conns PROVE Met(d)' \/ (reader'[d] = reader[d] /\ writer'[d] = writer[d])
  <2>1. CASE d = c
    <3>1. ASSUME ~Met(c)' PROVE writer[c] = "none" /\ ~Met(c)
      BY <3>1, <1>1, <1>2 DEF MeetingInv, UnreadInv
    <3> QED
      BY <2>1, <3>1
  <2>2. CASE d # c
    BY <2>2
  <2> QED
    BY <2>1, <2>2
<1>4. \A d \in Conns : link'[d] = "new" => link[d] = "new" /\ reader'[d] = reader[d]
  OBVIOUS
<1>5. \A q \in Pushers : /\ push'[q].todo \subseteq push[q].todo
                         /\ push'[q].full # NoConn => push'[q].full \in push'[q].todo
  BY <1>1 DEF MeetingInv, PushInv
<1>6. MeetingInv'
  BY <1>1, <1>2, <1>3, <1>4, <1>5, MeetingFrame
<1>7. \A d \in Conns : Uncut(d)' => Uncut(d)
  BY <1>1, UncutFrame
<1> QED
  BY <1>6, <1>7

LEMMA HangUpKeeps ==
    ASSUME DeliveryInv, NEW c \in Conns, HangUp(c)
    PROVE  DeliveryInv'
<1>1. DeliveryTypeOK
  BY DEF DeliveryInv
<1>2. /\ link' = [link EXCEPT ![c] = "shut"]
      /\ UNCHANGED <<client, outbound, closed, reader, writer, hand, run, push, pushes, meant, seen>>
  BY DEF HangUp, pushVars
<1>3. /\ link' \in [Conns -> {"new", "open", "shut"}] /\ link'[c] = "shut"
      /\ \A d \in Conns : d = c \/ link'[d] = link[d]
  BY <1>1, <1>2 DEF DeliveryTypeOK
<1>4. DeliveryTypeOK'
  BY <1>1, <1>2, <1>3 DEF DeliveryTypeOK
<1>5. MeetingInv' /\ \A d \in Conns : Uncut(d)' => Uncut(d)
  BY <1>2, <1>3, OwnStep DEF pushVars
<1>6. QueueInv'
  BY <1>2, <1>5, QuietQueues
<1> QED
  BY <1>4, <1>5, <1>6 DEF DeliveryInv

LEMMA ReadEndsKeeps ==
    ASSUME DeliveryInv, NEW c \in Conns, ReadEnds(c)
    PROVE  DeliveryInv'
<1>1. DeliveryTypeOK /\ MeetingInv
  BY DEF DeliveryInv
<1>2. /\ reader[c] = "reads" /\ reader' = [reader EXCEPT ![c] = "leaves"]
      /\ UNCHANGED <<client, outbound, closed, link, writer, hand, run, push, pushes, meant, seen>>
  BY DEF ReadEnds, pushVars
<1>3. /\ reader' \in [Conns -> {"none", "joins", "reads", "leaves", "gone"}] /\ reader'[c] = "leaves"
      /\ \A d \in Conns : d = c \/ reader'[d] = reader[d]
  BY <1>1, <1>2 DEF DeliveryTypeOK
<1>4. DeliveryTypeOK'
  BY <1>1, <1>2, <1>3 DEF DeliveryTypeOK
<1>5. Met(c) /\ Met(c)' /\ link[c] # "new"
  BY <1>1, <1>2, <1>3 DEF Met, MeetingInv, UnreadInv
<1>6. MeetingInv' /\ \A d \in Conns : Uncut(d)' => Uncut(d)
  BY <1>2, <1>3, <1>5, OwnStep DEF pushVars
<1>7. QueueInv'
  BY <1>2, <1>6, QuietQueues
<1> QED
  BY <1>4, <1>6, <1>7 DEF DeliveryInv

LEMMA TakeEventKeeps ==
    ASSUME DeliveryInv, NEW c \in Conns, TakeEvent(c)
    PROVE  DeliveryInv'
<1>1. DeliveryTypeOK
  BY DEF DeliveryInv
<1>2. /\ writer[c] = "waits" /\ outbound[c] # <<>>
      /\ hand' = [hand EXCEPT ![c] = Head(outbound[c])]
      /\ outbound' = [outbound EXCEPT ![c] = Tail(@)]
      /\ writer' = [writer EXCEPT ![c] = "writes"]
      /\ UNCHANGED <<client, closed, link, reader, run, push, pushes, meant, seen>>
  BY DEF TakeEvent, pushVars
<1>3. /\ outbound \in [Conns -> Seq(Nat)] /\ hand \in [Conns -> Nat]
      /\ writer \in [Conns -> {"none", "waits", "writes", "over"}]
  BY <1>1 DEF DeliveryTypeOK
<1>4. Head(outbound[c]) \in Nat /\ Tail(outbound[c]) \in Seq(Nat)
  BY <1>2, <1>3
<1>5. /\ outbound' \in [Conns -> Seq(Nat)] /\ hand' \in [Conns -> Nat]
      /\ writer' \in [Conns -> {"none", "waits", "writes", "over"}] /\ writer'[c] = "writes"
      /\ hand'[c] = Head(outbound[c]) /\ outbound'[c] = Tail(outbound[c])
      /\ \A d \in Conns : d = c \/ (outbound'[d] = outbound[d] /\ hand'[d] = hand[d]
                                    /\ writer'[d] = writer[d])
  BY <1>2, <1>3, <1>4
<1>6. DeliveryTypeOK'
  BY <1>1, <1>2, <1>5 DEF DeliveryTypeOK
<1>7. MeetingInv' /\ \A d \in Conns : Uncut(d)' => Uncut(d)
  BY <1>2, <1>5, OwnStep DEF pushVars
<1>8. ASSUME NEW d \in Conns PROVE QueueOf(d)'
  <2>1. QueueOf(d)
    BY DEF DeliveryInv, QueueInv
  <2>2. CASE d # c
    BY <2>1, <2>2, <1>2, <1>5, <1>7, QueueFrame
  <2>3. CASE d = c
    <3>1. Coming(c)' = Coming(c)
      <4>1. <<Head(outbound[c])>> \o Tail(outbound[c]) = outbound[c]
        BY <1>2, <1>3, HandedTail
      <4> QED
        BY <4>1, <1>2, <1>5 DEF Coming
    <3> QED
      BY <2>1, <2>3, <3>1, <1>2, <1>7 DEF QueueOf
  <2> QED
    BY <2>2, <2>3
<1> QED
  BY <1>6, <1>7, <1>8 DEF DeliveryInv, QueueInv

LEMMA WrittenKeeps ==
    ASSUME DeliveryInv, NEW c \in Conns, Written(c)
    PROVE  DeliveryInv'
<1>1. DeliveryTypeOK
  BY DEF DeliveryInv
<1>2. /\ writer[c] = "writes"
      /\ seen' = [seen EXCEPT ![c] = @ \union ({hand[c]} \ {0})]
      /\ writer' = [writer EXCEPT ![c] = "waits"]
      /\ UNCHANGED <<client, outbound, closed, link, reader, hand, run, push, pushes, meant>>
  BY DEF Written, pushVars
<1>3. hand[c] \in Nat /\ outbound[c] \in Seq(Nat) /\ seen[c] \in SUBSET Nat /\ meant[c] \in Nat
  BY <1>1, ComingType
<1>4. /\ seen' \in [Conns -> SUBSET Nat] /\ seen'[c] = seen[c] \union ({hand[c]} \ {0})
      /\ writer' \in [Conns -> {"none", "waits", "writes", "over"}] /\ writer'[c] = "waits"
      /\ \A d \in Conns : d = c \/ (seen'[d] = seen[d] /\ writer'[d] = writer[d])
  BY <1>1, <1>2, <1>3 DEF DeliveryTypeOK
<1>5. DeliveryTypeOK'
  BY <1>1, <1>2, <1>4 DEF DeliveryTypeOK
<1>6. MeetingInv' /\ \A d \in Conns : Uncut(d)' => Uncut(d)
  BY <1>2, <1>4, OwnStep DEF pushVars
<1>7. ASSUME NEW d \in Conns PROVE QueueOf(d)'
  <2>1. QueueOf(d)
    BY DEF DeliveryInv, QueueInv
  <2>2. CASE d # c
    BY <2>1, <2>2, <1>2, <1>4, <1>6, QueueFrame
  <2>3. CASE d = c
    <3>1. PICK s : s = <<hand[c]>> \o outbound[c]
      OBVIOUS
    <3>2. s \in Seq(Nat) /\ s # <<>> /\ Head(s) = hand[c] /\ Tail(s) = outbound[c]
      BY <3>1, <1>3, HandedSplits
    <3>3. Coming(c) = s /\ Coming(c)' = Tail(s)
      BY <3>1, <3>2, <1>2, <1>4 DEF Coming
    <3>4. InOrder(s, seen[c], meant[c]) /\ (Uncut(c) => Complete(s, seen[c], meant[c]))
      BY <2>1, <2>3, <3>3 DEF QueueOf
    <3>5. InOrder(Tail(s), seen[c] \union ({Head(s)} \ {0}), meant[c])
      BY <3>2, <3>4, <1>3, LeavesInOrder
    <3>6. Uncut(c)' => Complete(Tail(s), seen[c] \union ({Head(s)} \ {0}), meant[c])
      BY <3>2, <3>4, <1>3, <1>6, LeavesComplete
    <3> QED
      BY <2>3, <3>2, <3>3, <3>5, <3>6, <1>2, <1>4 DEF QueueOf
  <2> QED
    BY <2>2, <2>3
<1> QED
  BY <1>5, <1>6, <1>7 DEF DeliveryInv, QueueInv

LEMMA WriterEndsKeeps ==
    ASSUME DeliveryInv, NEW c \in Conns, WriterEnds(c)
    PROVE  DeliveryInv'
<1>1. DeliveryTypeOK
  BY DEF DeliveryInv
<1>2. /\ writer[c] \in {"waits", "writes"}
      /\ writer' = [writer EXCEPT ![c] = "over"] /\ link' = [link EXCEPT ![c] = "shut"]
      /\ UNCHANGED <<client, outbound, closed, reader, hand, run, push, pushes, meant, seen>>
  BY DEF WriterEnds, pushVars
<1>3. /\ link' \in [Conns -> {"new", "open", "shut"}] /\ link'[c] = "shut"
      /\ writer' \in [Conns -> {"none", "waits", "writes", "over"}] /\ writer'[c] = "over"
      /\ \A d \in Conns : d = c \/ (link'[d] = link[d] /\ writer'[d] = writer[d])
  BY <1>1, <1>2 DEF DeliveryTypeOK
<1>4. DeliveryTypeOK'
  BY <1>1, <1>2, <1>3 DEF DeliveryTypeOK
<1>5. MeetingInv' /\ \A d \in Conns : Uncut(d)' => Uncut(d)
  BY <1>2, <1>3, OwnStep DEF pushVars
<1>6. ASSUME NEW d \in Conns PROVE QueueOf(d)'
  <2>1. QueueOf(d)
    BY DEF DeliveryInv, QueueInv
  <2>2. CASE d # c
    BY <2>1, <2>2, <1>2, <1>3, <1>5, QueueFrame
  <2>3. CASE d = c
    <3>1. ~Uncut(c)'
      BY <1>3 DEF Uncut
    <3>2. /\ hand[c] \in Nat /\ outbound[c] \in Seq(Nat) /\ seen[c] \in SUBSET Nat
          /\ meant[c] \in Nat
      BY <1>1, ComingType
    <3>3. Coming(c)' = outbound[c]
      BY <1>2, <1>3 DEF Coming
    <3>4. InOrder(Coming(c), seen[c], meant[c])
      BY <2>1, <2>3 DEF QueueOf
    <3>5. InOrder(outbound[c], seen[c], meant[c])
      <4>1. CASE writer[c] = "writes"
        <5>1. PICK s : s = <<hand[c]>> \o outbound[c]
          OBVIOUS
        <5>2. s \in Seq(Nat) /\ s # <<>> /\ Tail(s) = outbound[c]
          BY <5>1, <3>2, HandedSplits
        <5>3. InOrder(s, seen[c], meant[c])
          BY <5>1, <4>1, <3>4 DEF Coming
        <5>4. InOrder(Tail(s), seen[c], meant[c])
          BY <5>2, <5>3, <3>2, LeavesInOrder
        <5> QED
          BY <5>2, <5>4
      <4>2. CASE writer[c] # "writes"
        BY <4>2, <3>4 DEF Coming
      <4> QED
        BY <4>1, <4>2
    <3> QED
      BY <2>3, <3>1, <3>3, <3>5, <1>2 DEF QueueOf
  <2> QED
    BY <2>2, <2>3
<1> QED
  BY <1>4, <1>5, <1>6 DEF DeliveryInv, QueueInv

(* Every step keeps the invariant.                                         *)
LEMMA DeliveryStep == DeliveryInv /\ [DeliveryNext]_deliveryVars => DeliveryInv'
<1> SUFFICES ASSUME DeliveryInv, [DeliveryNext]_deliveryVars PROVE DeliveryInv'
  OBVIOUS
<1>1. ASSUME NEW p \in Pushers, NEW critical \in BOOLEAN, NEW recipients \in SUBSET Conns,
             BeginPush(p, critical, recipients)
      PROVE  DeliveryInv'
  BY <1>1, BeginPushKeeps
<1>2. ASSUME NEW p \in Pushers, NEW c \in Conns,
             Enqueue(p, c) \/ Drop(p, c) \/ FindFull(p, c) \/ CloseFull(p, c)
      PROVE  DeliveryInv'
  BY <1>2, EnqueueKeeps, DropKeeps, FindFullKeeps, CloseFullKeeps
<1>3. ASSUME RegisterClient \/ Greet \/ UnregisterClient PROVE DeliveryInv'
  BY <1>3, RegisterClientKeeps, GreetKeeps, UnregisterClientKeeps
<1>4. ASSUME NEW c \in Conns,
             \/ TakeRegister(c) \/ TakeUnregister(c) \/ Dial(c) \/ HangUp(c) \/ ReadEnds(c)
             \/ TakeEvent(c) \/ Written(c) \/ WriterEnds(c)
      PROVE  DeliveryInv'
  BY <1>4, TakeRegisterKeeps, TakeUnregisterKeeps, DialKeeps, HangUpKeeps, ReadEndsKeeps,
     TakeEventKeeps, WrittenKeeps, WriterEndsKeeps
<1>5. CASE UNCHANGED deliveryVars
  <2>1. /\ UNCHANGED <<client, outbound, closed, link, reader, writer, hand, run, push, pushes>>
        /\ UNCHANGED <<meant, seen>>
    BY <1>5 DEF deliveryVars, pushVars
  <2>2. DeliveryTypeOK'
    BY <2>1 DEF DeliveryInv, DeliveryTypeOK
  <2>3. MeetingInv'
    BY <2>1 DEF DeliveryInv, MeetingInv, RegisteredInv, UnreadInv, RunInv, PushInv, Met, Registered
  <2>4. \A c \in Conns : Uncut(c)' => Uncut(c)
    BY <2>1 DEF Uncut
  <2>5. QueueInv'
    BY <2>1, <2>4, QuietQueues
  <2> QED
    BY <2>2, <2>3, <2>5 DEF DeliveryInv
<1> QED
  BY <1>1, <1>2, <1>3, <1>4, <1>5 DEF DeliveryNext

(* The events that Hub and its clients' goroutines hold, in any number of  *)
(* connections, pushers and places in a queue, form the invariant at every *)
(* step (hub.go: Run, enqueueEvent; client.go).                            *)
THEOREM DeliveryInvHolds == DeliverySpec => []DeliveryInv
<1>1. DeliveryInit => DeliveryInv
  BY DeliveryInitially
<1>2. DeliveryInv /\ [DeliveryNext]_deliveryVars => DeliveryInv'
  BY DeliveryStep
<1> QED
  BY <1>1, <1>2, PTL DEF DeliverySpec

(* A client that nobody cuts off gets every critical event, in order       *)
(* (enqueueEvent drops the others only, and closes the connection of a     *)
(* client that would miss a critical one).                                 *)
THEOREM NoneIsLost == DeliverySpec => []NoSilentLoss
<1>1. DeliveryInv => NoSilentLoss
  <2> SUFFICES ASSUME DeliveryInv, NEW c \in Conns
               PROVE  /\ IsWhole(c) => 1..meant[c] \subseteq seen[c] \union OnTheWay(c)
                      /\ \A i, j \in DOMAIN Coming(c) :
                            i < j /\ Coming(c)[j] # 0 => Coming(c)[i] < Coming(c)[j]
                      /\ \A m \in seen[c], n \in OnTheWay(c) : m < n
    BY DEF NoSilentLoss
  <2>1. QueueOf(c)
    BY DEF DeliveryInv, QueueInv
  <2>2. ASSUME IsWhole(c) PROVE 1..meant[c] \subseteq seen[c] \union OnTheWay(c)
    <3>1. Uncut(c)
      BY <2>2 DEF IsWhole, Uncut
    <3>2. Complete(Coming(c), seen[c], meant[c])
      BY <2>1, <3>1 DEF QueueOf
    <3>3. ASSUME NEW n \in 1..meant[c], n \notin seen[c] PROVE n \in OnTheWay(c)
      <4>1. PICK i \in DOMAIN Coming(c) : Coming(c)[i] = n
        BY <3>2, <3>3 DEF Complete
      <4>2. n # 0
        OBVIOUS
      <4> QED
        BY <4>1, <4>2 DEF OnTheWay
    <3> QED
      BY <3>3
  <2>3. InOrder(Coming(c), seen[c], meant[c])
    BY <2>1 DEF QueueOf
  <2>4. \A m \in seen[c], n \in OnTheWay(c) : m < n
    BY <2>3 DEF InOrder, OnTheWay
  <2> QED
    BY <2>2, <2>3, <2>4 DEF InOrder, Ordered
<1> QED
  BY <1>1, DeliveryInvHolds, PTL

(* No goroutine sends on a queue that Run has closed, and Run closes none  *)
(* twice: it closes under the write hold of h.mu, and every push holds h.mu*)
(* for reading while it looks clients up and sends.                        *)
THEOREM NonePanics == DeliverySpec => []NeverPanics
<1>1. DeliveryInv => NeverPanics
  <2> SUFFICES ASSUME DeliveryInv PROVE NeverPanics
    OBVIOUS
  <2>1. RegisteredInv /\ PushInv /\ DeliveryTypeOK /\ UserOf \in [Conns -> Users] /\ NoConn \notin Conns
    BY DeliveryAssumption DEF DeliveryInv, MeetingInv
  <2>2. Registered \intersect closed = {}
    BY <2>1 DEF Registered, RegisteredInv
  <2>3. ASSUME NEW p \in Pushers, NEW c \in push[p].todo PROVE c \notin closed
    <3>1. c \in Conns
      BY <2>1 DEF DeliveryTypeOK, Pushing
    <3>2. client[UserOf[c]] = c /\ UserOf[c] \in Users /\ c # NoConn
      BY <2>1, <3>1 DEF PushInv
    <3> QED
      BY <2>1, <3>2 DEF RegisteredInv
  <2> QED
    BY <2>2, <2>3 DEF NeverPanics
<1> QED
  BY <1>1, DeliveryInvHolds, PTL

-----------------------------------------------------------------------------
(* Who is registered is held by its reader until Run removes it            *)

\* For a step that changes readers and Run's place: it is enough that no
\* registered connection loses its holder.
LEMMA HeldFrame ==
  ASSUME HeldInv,
         \A u \in Users : client'[u] # NoConn => client[u] = client'[u],
         \A u \in Users : client'[u] # NoConn =>
            \/ reader'[client[u]] = reader[client[u]]
            \/ reader'[client[u]] \in {"reads", "leaves"},
         \A u \in Users : client'[u] # NoConn =>
            (run = [at |-> "unregister", conn |-> client[u]] => run' = run),
         run'.at = "register" => reader'[run'.conn] \in {"reads", "leaves"}
  PROVE  HeldInv'
<1>1. ASSUME NEW u \in Users, client'[u] # NoConn
      PROVE  \/ reader'[client'[u]] \in {"reads", "leaves"}
             \/ run' = [at |-> "unregister", conn |-> client'[u]]
  <2>1. client[u] = client'[u] /\ client[u] # NoConn
    BY <1>1
  <2>2. \/ reader[client[u]] \in {"reads", "leaves"}
        \/ run = [at |-> "unregister", conn |-> client[u]]
    BY <2>1 DEF HeldInv, CutOffLeaves
  <2> QED
    BY <1>1, <2>1, <2>2
<1> QED
  BY <1>1 DEF HeldInv, CutOffLeaves

LEMMA HeldStep == DeliveryInv /\ HeldInv /\ [DeliveryNext]_deliveryVars => HeldInv'
<1> SUFFICES ASSUME DeliveryInv, HeldInv, [DeliveryNext]_deliveryVars PROVE HeldInv'
  OBVIOUS
<1>1. /\ DeliveryTypeOK /\ RegisteredInv /\ UnreadInv /\ RunInv
      /\ UserOf \in [Conns -> Users] /\ NoConn \notin Conns
  BY DeliveryAssumption DEF DeliveryInv, MeetingInv
<1>2. \A u \in Users : client[u] # NoConn =>
         client[u] \in Conns /\ UserOf[client[u]] = u /\ Met(client[u])
  BY <1>1 DEF DeliveryTypeOK, RegisteredInv
<1>3. ASSUME UNCHANGED <<client, reader, run>> PROVE HeldInv'
  BY <1>3 DEF HeldInv, CutOffLeaves
<1>4. ASSUME NEW p \in Pushers, NEW critical \in BOOLEAN, NEW recipients \in SUBSET Conns,
             BeginPush(p, critical, recipients)
      PROVE  HeldInv'
  BY <1>3, <1>4 DEF BeginPush
<1>5. ASSUME NEW p \in Pushers, NEW c \in Conns,
             Enqueue(p, c) \/ Drop(p, c) \/ FindFull(p, c) \/ CloseFull(p, c)
      PROVE  HeldInv'
  BY <1>3, <1>5 DEF Enqueue, Drop, FindFull, CloseFull
<1>6. ASSUME NEW c \in Conns, HangUp(c) \/ TakeEvent(c) \/ Written(c) \/ WriterEnds(c)
      PROVE  HeldInv'
  BY <1>3, <1>6 DEF HangUp, TakeEvent, Written, WriterEnds
<1>7. ASSUME UNCHANGED deliveryVars PROVE HeldInv'
  BY <1>3, <1>7 DEF deliveryVars
<1>8. ASSUME Greet PROVE HeldInv'
  <2>1. UNCHANGED <<client, reader>> /\ run.at = "greet" /\ run' = [at |-> "idle", conn |-> NoConn]
    BY <1>8 DEF Greet
  <2>2. run'.at # "register"
    BY <2>1
  <2>3. \A d : run # [at |-> "unregister", conn |-> d]
    BY <2>1
  <2> QED
    BY <2>1, <2>2, <2>3, HeldFrame
<1>9. ASSUME NEW c \in Conns, TakeRegister(c) PROVE HeldInv'
  <2>1. /\ UNCHANGED client /\ run.at = "idle" /\ run' = [at |-> "register", conn |-> c]
        /\ reader' = [reader EXCEPT ![c] = "reads"] /\ reader \in [Conns -> {"none", "joins", "reads", "leaves", "gone"}]
    BY <1>1, <1>9 DEF TakeRegister, RunIsFree, DeliveryTypeOK
  <2>2. run'.conn = c /\ reader'[c] = "reads" /\ \A d \in Conns \ {c} : reader'[d] = reader[d]
    BY <2>1
  <2>3. \A d : run # [at |-> "unregister", conn |-> d]
    BY <2>1
  <2>4. \A u \in Users : client'[u] # NoConn =>
           \/ reader'[client[u]] = reader[client[u]]
           \/ reader'[client[u]] \in {"reads", "leaves"}
    BY <2>1, <2>2, <1>2
  <2> QED
    BY <2>1, <2>2, <2>3, <2>4, HeldFrame
<1>10. ASSUME RegisterClient PROVE HeldInv'
  <2> DEFINE c == run.conn
  <2>1. /\ run.at = "register" /\ client' = [client EXCEPT ![UserOf[c]] = c]
        /\ UNCHANGED reader /\ run' = [run EXCEPT !.at = "greet"]
    BY <1>10 DEF RegisterClient
  <2>2. c \in Conns /\ reader[c] \in {"reads", "leaves"}
    BY <2>1, <1>1 DEF RunInv, HeldInv
  <2>3. run'.at = "greet"
    BY <2>1, <1>1 DEF DeliveryTypeOK
  <2>4. ASSUME NEW u \in Users, client'[u] # NoConn PROVE reader'[client'[u]] \in {"reads", "leaves"}
    <3>1. CASE u = UserOf[c]
      <4>1. client'[u] = c
        BY <2>1, <3>1, <1>1 DEF DeliveryTypeOK
      <4> QED
        BY <2>1, <2>2, <4>1
    <3>2. CASE u # UserOf[c]
      <4>1. client'[u] = client[u]
        BY <2>1, <3>2, <1>1 DEF DeliveryTypeOK
      <4>2. run # [at |-> "unregister", conn |-> client[u]]
        BY <2>1
      <4> QED
        BY <2>1, <2>4, <4>1, <4>2 DEF HeldInv, CutOffLeaves
    <3> QED
      BY <3>1, <3>2
  <2>5. run'.at # "register"
    BY <2>3
  <2> QED
    BY <2>4, <2>5 DEF HeldInv, CutOffLeaves
<1>11. ASSUME NEW c \in Conns, TakeUnregister(c) PROVE HeldInv'
  <2>1. /\ UNCHANGED client /\ run.at = "idle" /\ run' = [at |-> "unregister", conn |-> c]
        /\ reader' = [reader EXCEPT ![c] = "gone"] /\ reader \in [Conns -> {"none", "joins", "reads", "leaves", "gone"}]
    BY <1>1, <1>11 DEF TakeUnregister, RunIsFree, DeliveryTypeOK
  <2>2. \A d \in Conns \ {c} : reader'[d] = reader[d]
    BY <2>1
  <2>3. ASSUME NEW u \in Users, client'[u] # NoConn
        PROVE  \/ reader'[client'[u]] \in {"reads", "leaves"}
               \/ run' = [at |-> "unregister", conn |-> client'[u]]
    <3>1. client'[u] = client[u] /\ client[u] \in Conns
      BY <2>1, <2>3, <1>2
    <3>2. CASE client[u] = c
      BY <2>1, <3>1, <3>2
    <3>3. CASE client[u] # c
      <4>1. reader'[client[u]] = reader[client[u]]
        BY <2>2, <3>1, <3>3
      <4>2. run # [at |-> "unregister", conn |-> client[u]]
        BY <2>1
      <4> QED
        BY <2>3, <3>1, <4>1, <4>2 DEF HeldInv, CutOffLeaves
    <3> QED
      BY <3>2, <3>3
  <2>4. run'.at # "register"
    BY <2>1
  <2> QED
    BY <2>3, <2>4 DEF HeldInv, CutOffLeaves
<1>12. ASSUME UnregisterClient PROVE HeldInv'
  <2> DEFINE c == run.conn
  <2>1. /\ run.at = "unregister" /\ UNCHANGED reader /\ run' = [at |-> "idle", conn |-> NoConn]
        /\ IF client[UserOf[c]] = c THEN client' = [client EXCEPT ![UserOf[c]] = NoConn]
           ELSE UNCHANGED client
    BY <1>12 DEF UnregisterClient, Removes
  <2>2. run'.at # "register" /\ c \in Conns /\ UserOf[c] \in Users
    BY <2>1, <1>1 DEF RunInv
  <2>3. ASSUME NEW u \in Users, client'[u] # NoConn
        PROVE  client[u] = client'[u] /\ run # [at |-> "unregister", conn |-> client[u]]
    <3>1. client[u] = client'[u]
      BY <2>1, <2>2, <2>3, <1>1 DEF DeliveryTypeOK
    <3>2. ASSUME client[u] = c PROVE FALSE
      <4>1. UserOf[c] = u
        BY <3>1, <3>2, <2>3, <1>2
      <4>2. client'[u] = NoConn
        BY <2>1, <2>2, <3>2, <4>1, <1>1 DEF DeliveryTypeOK
      <4> QED
        BY <2>3, <4>2
    <3>3. run # [at |-> "unregister", conn |-> client[u]]
      BY <3>2
    <3> QED
      BY <3>1, <3>3
  <2> QED
    BY <2>1, <2>2, <2>3, HeldFrame
<1>13. ASSUME NEW c \in Conns, Dial(c) \/ ReadEnds(c) PROVE HeldInv'
  <2> DEFINE v == IF Dial(c) THEN "joins" ELSE "leaves"
  <2>1. /\ UNCHANGED <<client, run>> /\ reader \in [Conns -> {"none", "joins", "reads", "leaves", "gone"}]
        /\ reader' = [reader EXCEPT ![c] = v]
    BY <1>1, <1>13 DEF Dial, ReadEnds, DeliveryTypeOK
  <2>2. \A d \in Conns \ {c} : reader'[d] = reader[d]
    BY <2>1
  <2>3. Met(c) => reader'[c] = "leaves"
    <3>1. CASE Dial(c)
      BY <3>1, <1>1 DEF Dial, UnreadInv, Met
    <3>2. CASE ~Dial(c)
      BY <3>2, <2>1
    <3> QED
      BY <3>1, <3>2
  <2>4. ASSUME NEW u \in Users, client'[u] # NoConn
        PROVE  \/ reader'[client[u]] = reader[client[u]]
               \/ reader'[client[u]] \in {"reads", "leaves"}
    <3>1. client[u] \in Conns /\ Met(client[u])
      BY <2>1, <2>4, <1>2
    <3> QED
      BY <3>1, <2>2, <2>3
  <2>5. ASSUME run'.at = "register" PROVE reader'[run'.conn] \in {"reads", "leaves"}
    <3>1. run.at = "register" /\ run.conn \in Conns /\ Met(run.conn)
      BY <2>1, <2>5, <1>1 DEF RunInv
    <3>2. reader[run.conn] \in {"reads", "leaves"}
      BY <3>1 DEF HeldInv
    <3> QED
      BY <3>1, <3>2, <2>1, <2>2, <2>3
  <2> QED
    BY <2>1, <2>4, <2>5, HeldFrame
<1> QED
  BY <1>4, <1>5, <1>6, <1>7, <1>8, <1>9, <1>10, <1>11, <1>12, <1>13 DEF DeliveryNext

(* A client that is cut off, evicted or lost leaves the map of clients:    *)
(* readMessage ends with its socket and asks Run, which removes it.        *)
THEOREM TheCutOffLeave == DeliverySpec => []CutOffLeaves
<1>1. DeliveryInit => HeldInv
  BY DEF DeliveryInit, HeldInv, CutOffLeaves
<1>2. DeliveryInv /\ HeldInv /\ [DeliveryNext]_deliveryVars => HeldInv'
  BY HeldStep
<1>3. HeldInv => CutOffLeaves
  BY DEF HeldInv
<1> QED
  BY <1>1, <1>2, <1>3, DeliveryInvHolds, PTL DEF DeliverySpec

(* Who is registered is open and held, and whom a push is for is open: the *)
(* map of clients never names a connection that its goroutines have left.  *)
THEOREM ClientsStayHeld == DeliverySpec => []ClientsAreHeld
BY NonePanics, TheCutOffLeave, PTL DEF ClientsAreHeld
=============================================================================
