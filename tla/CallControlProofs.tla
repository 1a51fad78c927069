-------------------------- MODULE CallControlProofs -------------------------
(***************************************************************************)
(* A call that was left is left, whatever the number of clicks, losses,    *)
(* sessions and channels.  The argument is CallInv: as long as the calls   *)
(* of the client did not overlap and no join was refused, the client is in *)
(* a call with all of its parts or with none, a join finds nothing there,  *)
(* and a recovery wakes up to a call or finds its generation gone.         *)
(***************************************************************************)
EXTENDS CallControl, SequenceTheorems, TLAPS

-----------------------------------------------------------------------------
(* The queue of commands *)

(* A command that is sent is one.                                          *)
LEMMA SentIsCommand ==
  ASSUME NEW q \in Seq(Command), NEW p \in Procs, NEW act \in DOMAIN Awaiting,
         NEW arg \in Channels \cup Nat, NEW got \in {"nothing", "fail"}
  PROVE  Append(q, [by |-> p, act |-> act, arg |-> arg, got |-> got]) \in Seq(Command)
<1>1. [by |-> p, act |-> act, arg |-> arg, got |-> got] \in Command
  BY DEF Command
<1> QED
  BY <1>1

(* The first command of the queue and those behind it.                     *)
LEMMA HeadIsCommand ==
  ASSUME NEW q \in Seq(Command), q # <<>>
  PROVE  /\ Tail(q) \in Seq(Command) /\ Head(q) = q[1] /\ 1 \in DOMAIN q
         /\ Head(q).by \in Procs /\ Head(q).act \in DOMAIN Awaiting
         /\ Head(q).arg \in Channels \cup Nat
         /\ Head(q).act = "join" /\ Head(q).got = "ack" => Head(q).arg \in Nat \ {0}
         /\ Len(q) <= 1 => Tail(q) = <<>> /\ DOMAIN q = {1}
<1>1. Tail(q) \in Seq(Command) /\ Head(q) = q[1] /\ 1 \in DOMAIN q /\ Head(q) \in Command
  OBVIOUS
<1>2. ASSUME Len(q) <= 1
      PROVE  Tail(q) = <<>> /\ DOMAIN q = {1}
  <2>1. Len(q) \in Nat /\ Len(q) # 0
    BY EmptySeq
  <2>2. Len(q) = 1
    BY <1>2, <2>1
  <2>3. Tail(q) \in Seq(Command) /\ Len(Tail(q)) = 0
    BY <2>2, HeadTailProperties
  <2>4. DOMAIN q = {1}
    BY <2>2
  <2>5. Tail(q) = <<>>
    BY <2>3, EmptySeq
  <2> QED
    BY <2>4, <2>5
<1> QED
  BY <1>1, <1>2 DEF Command

(* The only command that there is.                                         *)
LEMMA SentAlone ==
  ASSUME NEW q \in Seq(Command), q = <<>>, NEW c
  PROVE  Len(Append(q, c)) = 1 /\ DOMAIN Append(q, c) = {1} /\ Append(q, c)[1] = c
OBVIOUS

(* An answer changes the first command only, and only what was answered.   *)
LEMMA AnswerKeepsQueue ==
  ASSUME NEW q \in Seq(Command), q # <<>>, NEW c \in Command,
         c.by = q[1].by, c.act = q[1].act
  PROVE  /\ [q EXCEPT ![1] = c] \in Seq(Command)
         /\ Len([q EXCEPT ![1] = c]) = Len(q)
         /\ DOMAIN [q EXCEPT ![1] = c] = DOMAIN q
         /\ \A i \in DOMAIN q : /\ [q EXCEPT ![1] = c][i].by = q[i].by
                                /\ [q EXCEPT ![1] = c][i].act = q[i].act
OBVIOUS

(* What the hub writes into a command leaves a command.                    *)
LEMMA AnsweredIsCommand ==
  ASSUME NEW c \in Command, NEW got \in {"nothing", "ack", "fail"}
  PROVE  /\ got # "ack" \/ c.act # "join" => [c EXCEPT !.got = got] \in Command
         /\ \A s \in Nat \ {0} : [c EXCEPT !.got = got, !.arg = s] \in Command
         /\ [c EXCEPT !.got = got].by = c.by /\ [c EXCEPT !.got = got].act = c.act
         /\ \A s : /\ [c EXCEPT !.got = got, !.arg = s].by = c.by
                   /\ [c EXCEPT !.got = got, !.arg = s].act = c.act
BY DEF Command

(* A lost connection fails every command and keeps their order.            *)
LEMMA FailedQueue ==
  ASSUME NEW q \in Seq(Command)
  PROVE  LET r == [i \in DOMAIN q |-> [q[i] EXCEPT !.got = "fail"]] IN
         /\ r \in Seq(Command) /\ Len(r) = Len(q) /\ DOMAIN r = DOMAIN q
         /\ \A i \in DOMAIN q : r[i].by = q[i].by /\ r[i].act = q[i].act
<1>1. ASSUME NEW i \in DOMAIN q
      PROVE  /\ [q[i] EXCEPT !.got = "fail"] \in Command
             /\ [q[i] EXCEPT !.got = "fail"].by = q[i].by
             /\ [q[i] EXCEPT !.got = "fail"].act = q[i].act
  <2>1. q[i] \in Command
    OBVIOUS
  <2> QED
    BY <2>1, AnsweredIsCommand, Zenon
<1>2. Len(q) \in Nat /\ DOMAIN q = 1..Len(q)
  OBVIOUS
<1> DEFINE r == [i \in DOMAIN q |-> [q[i] EXCEPT !.got = "fail"]]
<1>3. r \in [1..Len(q) -> Command] /\ DOMAIN r = DOMAIN q
  BY <1>1, <1>2
<1>4. r \in Seq(Command) /\ Len(r) = Len(q)
  BY <1>2, <1>3
<1> QED
  BY <1>1, <1>3, <1>4

-----------------------------------------------------------------------------
(* Types *)

(* The client starts idle, in no call, with nothing under way.             *)
LEMMA InitCallInv == Init => CallInv
<1> SUFFICES ASSUME Init PROVE CallInv
  OBVIOUS
<1>1. CallTypeOK
  <2>1. at \in [Procs -> Places] /\ goal \in [Procs -> Channels \cup {0}]
    BY DEF Init, Places, Resting
  <2>2. left \in [Loops -> Nat] /\ \A p \in Loops : at[p] # "sleep"
    BY DEF Init, Procs
  <2>3. cmds \in Seq(Command) /\ pcs \subseteq Nat /\ fresh \subseteq Loops /\ held \subseteq Procs
    BY DEF Init
  <2> QED
    BY <2>1, <2>2, <2>3 DEF Init, CallTypeOK
<1>2. OneAtATime
  BY DEF Init, OneAtATime, Resting
<1>3. Whole /\ NothingLeftOver /\ InPlace
  BY DEF Init, Whole, NothingLeftOver, InPlace, Resting, UserOnly
<1> QED
  BY <1>1, <1>2, <1>3 DEF CallInv, Tidy, Init

(* Processes are of one kind each.                                         *)
LEMMA Kinds == /\ Users \subseteq Procs /\ Nets \subseteq Procs /\ Loops \subseteq Procs
               /\ \A p \in Procs : p \in Users => p \notin Loops /\ p \notin Nets
               /\ \A p \in Procs : p \in Nets => p \notin Loops
BY CallAssumption DEF Procs

(* Where a process may go, its own steps apart.                            *)
LEMMA GotoKeepsTypes ==
  ASSUME CallTypeOK, NEW p \in Procs, NEW place \in Places, Goto(p, place),
         place = "sleep" => p \notin Loops \/ left'[p] > 0,
         left' \in [Loops -> Nat], \A q \in Loops \ {p} : left'[q] = left[q]
  PROVE  at' \in [Procs -> Places] /\ \A q \in Loops : at'[q] = "sleep" => left'[q] > 0
BY Kinds DEF CallTypeOK, Goto

(* The steps of the user's clicks keep the types.                          *)
LEMMA ClicksKeepTypes ==
  ASSUME CallTypeOK, NEW p \in Procs,
         \/ \E c \in Channels : StartJoin(p, c)
         \/ StartLeave(p)
  PROVE  CallTypeOK'
<1> USE Kinds DEF Goto
<1>1. ASSUME NEW act \in DOMAIN Awaiting, NEW arg \in Channels \cup Nat, Send(p, act, arg)
      PROVE  cmds' \in Seq(Command)
  BY <1>1, SentIsCommand DEF Send, SendAfter, CallTypeOK
<1>2. CASE \E c \in Channels : StartJoin(p, c)
  <2> PICK c \in Channels : StartJoin(p, c)
    BY <1>2
  <2> USE DEF StartJoin, hubVars
  <2>1. goal' \in [Procs -> Channels \cup {0}] /\ left' = left /\ held' = held
    BY DEF CallTypeOK
  <2>2. at' \in [Procs -> Places] /\ \A q \in Loops : at'[q] = "sleep" => left'[q] > 0
    BY DEF CallTypeOK, Places, Resting, UserOnly
  <2>3. cmds' \in Seq(Command)
    BY <1>1 DEF CallTypeOK, Awaiting
  <2>4. fresh' \subseteq Loops /\ sess' \in Nat
    BY DEF CallTypeOK, LeaveTail, Teardown
  <2>5. chan' \in Channels \cup {0} /\ shown' \in Channels \cup {0}
    BY DEF CallTypeOK, LeaveTail, Teardown
  <2>6. pcs' \subseteq Nat
    BY DEF CallTypeOK, LeaveTail, Teardown
  <2> QED
    BY <2>1, <2>2, <2>3, <2>4, <2>5, <2>6 DEF CallTypeOK
<1>3. CASE StartLeave(p)
  <2> USE <1>3 DEF StartLeave, hubVars
  <2>1. goal' = goal /\ left' = left /\ held' = held
    OBVIOUS
  <2>2. at' \in [Procs -> Places] /\ \A q \in Loops : at'[q] = "sleep" => left'[q] > 0
    BY DEF CallTypeOK, Places, Resting, UserOnly
  <2>3. cmds' \in Seq(Command)
    BY <1>1 DEF CallTypeOK, Awaiting
  <2>4. fresh' \subseteq Loops /\ sess' \in Nat
    BY DEF CallTypeOK, LeaveTail, Teardown
  <2>5. chan' \in Channels \cup {0} /\ shown' \in Channels \cup {0}
    BY DEF CallTypeOK, LeaveTail, Teardown
  <2>6. pcs' \subseteq Nat
    BY DEF CallTypeOK, LeaveTail, Teardown
  <2> QED
    BY <2>1, <2>2, <2>3, <2>4, <2>5, <2>6 DEF CallTypeOK
<1> QED
  BY <1>2, <1>3

(* The steps of joining keep the types.                                    *)
LEMMA JoiningKeepsTypes ==
  ASSUME CallTypeOK, NEW p \in Procs, Acquire(p) \/ SendOffer(p)
  PROVE  CallTypeOK'
<1> USE Kinds DEF Goto
<1>1. ASSUME NEW act \in DOMAIN Awaiting, NEW arg \in Channels \cup Nat, Send(p, act, arg)
      PROVE  cmds' \in Seq(Command)
  BY <1>1, SentIsCommand DEF Send, SendAfter, CallTypeOK
<1>2. CASE Acquire(p)
  <2> USE <1>2 DEF Acquire, hubVars, clientVars, history
  <2>1. cmds' \in Seq(Command)
    <3>1. goal[p] \in Channels \cup Nat
      BY DEF CallTypeOK
    <3> QED
      BY <1>1, <3>1 DEF Awaiting
  <2>2. at' \in [Procs -> Places] /\ \A q \in Loops : at'[q] = "sleep" => left'[q] > 0
    BY DEF CallTypeOK, Places
  <2> QED
    BY <2>1, <2>2 DEF CallTypeOK
<1>3. CASE SendOffer(p)
  <2> USE <1>3 DEF SendOffer, hubVars, clientVars
  <2>1. cmds' \in Seq(Command)
    BY <1>1 DEF CallTypeOK, Awaiting
  <2>2. at' \in [Procs -> Places] /\ \A q \in Loops : at'[q] = "sleep" => left'[q] > 0
    BY DEF CallTypeOK, Places, Resting, Failed
  <2> QED
    BY <2>1, <2>2 DEF CallTypeOK
<1> QED
  BY <1>2, <1>3

(* What a call under way is about, and how it rejoins.                     *)
LEMMA RejoinKeepsTypes ==
  ASSUME CallTypeOK, NEW p \in Procs, NEW c \in Channels \cup {0}, Rejoin(p, c)
  PROVE  /\ goal' \in [Procs -> Channels \cup {0}] /\ cmds' \in Seq(Command)
         /\ fresh' \subseteq Loops /\ {chan}' \subseteq Channels \cup {0}
         /\ sess' \in Nat /\ pcs' \subseteq Nat
         /\ at' = [at EXCEPT ![p] = at'[p]] /\ at'[p] \in {"resume", "join"}
<1> USE DEF Rejoin, CallTypeOK
<1>1. ASSUME NEW act \in DOMAIN Awaiting, NEW arg \in Channels \cup Nat, Send(p, act, arg)
      PROVE  cmds' \in Seq(Command)
  BY <1>1, SentIsCommand DEF Send, SendAfter
<1>2. CASE chan = c
  BY <1>1, <1>2 DEF Goto, Awaiting
<1>3. CASE chan # c
  <2>1. cmds' \in Seq(Command)
    BY <1>1, <1>3 DEF Awaiting
  <2>2. fresh' = {} /\ chan' = 0 /\ sess' = 0 /\ pcs' \subseteq pcs
    BY <1>3 DEF Teardown
  <2> QED
    BY <1>3, <2>1, <2>2 DEF Goto
<1> QED
  BY <1>2, <1>3

(* Rejoining, asleep or awake, keeps the types.                            *)
LEMMA LossesKeepTypes ==
  ASSUME CallTypeOK,
         \/ \E p \in Procs : Wake(p) \/ Restore(p)
         \/ PcFails
         \/ \E s \in Sessions : SessionClosed(s)
  PROVE  CallTypeOK'
<1> USE Kinds
<1>1. ASSUME NEW p \in Procs, Wake(p)
      PROVE  CallTypeOK'
  <2> USE <1>1 DEF Wake, hubVars
  <2>1. p \in Loops /\ left[p] \in Nat \ {0} /\ left' \in [Loops -> Nat]
        /\ \A q \in Loops \ {p} : left'[q] = left[q]
    BY DEF CallTypeOK
  <2>2. at' = [at EXCEPT ![p] = at'[p]] /\ at'[p] \in Places \ {"sleep"}
    BY <2>1, RejoinKeepsTypes DEF Goto, CallTypeOK, Places, Resting
  <2>3. at' \in [Procs -> Places] /\ \A q \in Loops : at'[q] = "sleep" => left'[q] > 0
    BY <2>1, <2>2 DEF CallTypeOK
  <2>4. goal[p] \in Channels \cup {0}
    BY DEF CallTypeOK
  <2>5. CASE p \in fresh /\ up
    BY <2>1, <2>3, <2>4, <2>5, RejoinKeepsTypes DEF CallTypeOK
  <2>6. CASE ~ (p \in fresh /\ up)
    BY <2>1, <2>3, <2>6 DEF CallTypeOK
  <2> QED
    BY <2>5, <2>6
<1>2. ASSUME NEW p \in Procs, Restore(p)
      PROVE  CallTypeOK'
  <2> USE <1>2 DEF Restore, hubVars
  <2>1. at' = [at EXCEPT ![p] = at'[p]] /\ at'[p] \in Places \ {"sleep"}
    BY RejoinKeepsTypes DEF Goto, CallTypeOK, Places, Resting
  <2>2. at' \in [Procs -> Places] /\ \A q \in Loops : at'[q] = "sleep" => left'[q] > 0
    BY <2>1 DEF CallTypeOK
  <2>3. shown \in Channels \cup {0}
    BY DEF CallTypeOK
  <2>4. CASE shown # 0
    BY <2>2, <2>3, <2>4, RejoinKeepsTypes DEF CallTypeOK
  <2>5. CASE shown = 0
    BY <2>2, <2>5 DEF CallTypeOK
  <2> QED
    BY <2>4, <2>5
<1>3. ASSUME SessionLost
      PROVE  /\ at' \in [Procs -> Places] /\ goal' \in [Procs -> Channels \cup {0}]
             /\ left' \in [Loops -> Nat] /\ fresh' \subseteq Loops
             /\ \A q \in Loops : at'[q] = "sleep" => left'[q] > 0
  <2>1. Delays \in Nat \ {0}
    BY CallAssumption
  <2>2. CASE \E p \in Loops : /\ at' = [at EXCEPT ![p] = "sleep"]
                              /\ goal' = [goal EXCEPT ![p] = chan]
                              /\ fresh' = fresh \cup {p}
                              /\ left' = [left EXCEPT ![p] = Delays]
    BY <2>1, <2>2 DEF CallTypeOK, Places, Resting
  <2>3. CASE UNCHANGED <<at, goal, fresh, left>>
    BY <2>3 DEF CallTypeOK
  <2> QED
    BY <1>3, <2>2, <2>3 DEF SessionLost, Goto
<1>4. CASE PcFails
  BY <1>3, <1>4 DEF PcFails, wireVars, CallTypeOK
<1>5. CASE \E s \in Sessions : SessionClosed(s)
  BY <1>3, <1>5 DEF SessionClosed, wireVars, CallTypeOK
<1> QED
  BY <1>1, <1>2, <1>4, <1>5

(* An answer that settles a command keeps the types.                       *)
LEMMA SettlingKeepsTypes ==
  ASSUME CallTypeOK, Settle
  PROVE  CallTypeOK'
<1> DEFINE p == Head(cmds).by
<1> USE Kinds DEF hubVars, history, clientVars, Settle
<1>1. cmds # <<>>
  BY DEF Left, Joined, Refused, Offered, Resumed, NotResumed, Answered
<1>2. /\ Tail(cmds) \in Seq(Command) /\ p \in Procs
      /\ Head(cmds).act = "join" /\ Head(cmds).got = "ack" => Head(cmds).arg \in Nat \ {0}
  BY <1>1, HeadIsCommand DEF CallTypeOK
<1>3. goal[p] \in Channels \cup {0}
  BY <1>2 DEF CallTypeOK
<1> HIDE DEF p
<1>4. ASSUME NEW place \in Places, place # "sleep" \/ p \notin Loops \/ left[p] > 0,
             Goto(p, place), left' = left
      PROVE  at' \in [Procs -> Places] /\ \A q \in Loops : at'[q] = "sleep" => left'[q] > 0
  BY <1>2, <1>4 DEF CallTypeOK, Goto
<1>5. CASE Left
  <2>1. at' \in [Procs -> Places] /\ \A q \in Loops : at'[q] = "sleep" => left'[q] > 0
    BY <1>4, <1>5 DEF Left, p, Places, Resting, UserOnly
  <2>2. fresh' = {} /\ chan' = 0 /\ sess' = 0 /\ pcs' \subseteq pcs
    BY <1>5 DEF Left, LeaveTail, Teardown
  <2>3. shown' \in {0, shown} /\ cmds' = Tail(cmds) /\ UNCHANGED <<goal, left, held, member, granted>>
    BY <1>5 DEF Left
  <2> QED
    BY <1>2, <2>1, <2>2, <2>3 DEF CallTypeOK
<1>6. CASE Joined
  <2>1. at' \in [Procs -> Places] /\ \A q \in Loops : at'[q] = "sleep" => left'[q] > 0
    BY <1>4, <1>6 DEF Joined, p, Places, Resting
  <2>2. cmds' = Tail(cmds) /\ UNCHANGED <<goal, left, fresh, member, granted>> /\ held' \subseteq held
    BY <1>6 DEF Joined
  <2>3. shown' \in {chan, shown} /\ chan' \in {chan, goal[p]}
    BY <1>6 DEF Joined, ApplySession, p
  <2>4. sess' \in Nat /\ pcs' \subseteq Nat
    BY <1>2, <1>6 DEF Joined, ApplySession, Answered, CallTypeOK
  <2> QED
    BY <1>2, <1>3, <2>1, <2>2, <2>3, <2>4 DEF CallTypeOK
<1>7. CASE Refused
  <2>1. at' \in [Procs -> Places] /\ \A q \in Loops : at'[q] = "sleep" => left'[q] > 0
    BY <1>4, <1>7 DEF Refused, Failed, p, Places, Resting
  <2> QED
    BY <1>2, <1>7, <2>1 DEF CallTypeOK, Refused
<1>8. CASE Offered
  <2>1. at' \in [Procs -> Places] /\ \A q \in Loops : at'[q] = "sleep" => left'[q] > 0
    BY <1>4, <1>8 DEF Offered, p, Places, Resting
  <2>2. shown' \in {shown, goal[p]}
    BY <1>8 DEF Offered, p
  <2> QED
    BY <1>2, <1>3, <1>8, <2>1, <2>2 DEF CallTypeOK, Offered
<1>9. CASE Resumed
  <2>1. at' \in [Procs -> Places] /\ \A q \in Loops : at'[q] = "sleep" => left'[q] > 0
    BY <1>4, <1>9 DEF Resumed, p, Places, Resting
  <2> QED
    BY <1>2, <1>9, <2>1 DEF CallTypeOK, Resumed
<1>10. CASE NotResumed
  <2>1. at' \in [Procs -> Places] /\ \A q \in Loops : at'[q] = "sleep" => left'[q] > 0
    BY <1>4, <1>10 DEF NotResumed, p, Places, Resting
  <2>2. fresh' = {} /\ chan' = 0 /\ sess' = 0 /\ pcs' \subseteq pcs
    BY <1>10 DEF NotResumed, Teardown
  <2>3. cmds' \in Seq(Command)
    <3>1. SendAfter(Tail(cmds), p, "join", goal[p])
      BY <1>10 DEF NotResumed, p
    <3> QED
      BY <1>2, <1>3, <3>1, SentIsCommand DEF SendAfter, Awaiting
  <2>4. UNCHANGED <<goal, left, held, shown, member, granted>>
    BY <1>10 DEF NotResumed
  <2> QED
    BY <2>1, <2>2, <2>3, <2>4 DEF CallTypeOK
<1> QED
  BY <1>5, <1>6, <1>7, <1>8, <1>9, <1>10

(* What the hub does to the commands: an answer for the first of them.     *)
QueueAnswered ==
    /\ cmds' \in Seq(Command) /\ Len(cmds') = Len(cmds) /\ DOMAIN cmds' = DOMAIN cmds
    /\ \A i \in DOMAIN cmds : cmds'[i].by = cmds[i].by /\ cmds'[i].act = cmds[i].act

(* The hub's steps and a lost connection answer commands and no more.      *)
LEMMA HubAnswersQueue ==
  ASSUME CallTypeOK, HubNext \/ Drop
  PROVE  QueueAnswered
<1> USE DEF HubNext, QueueAnswered
<1>1. ASSUME NEW got \in {"ack", "fail"}, HubAnswers(got), cmds # <<>>,
             got = "fail" \/ Head(cmds).act # "join"
      PROVE  QueueAnswered
  <2>1. cmds \in Seq(Command) /\ cmds[1] = Head(cmds) /\ cmds[1] \in Command
    BY <1>1, HeadIsCommand DEF CallTypeOK
  <2> DEFINE c == [cmds[1] EXCEPT !.got = got]
  <2>2. c \in Command /\ c.by = cmds[1].by /\ c.act = cmds[1].act
    BY <1>1, <2>1, AnsweredIsCommand
  <2>3. cmds' = [cmds EXCEPT ![1] = c]
    BY <1>1 DEF HubAnswers
  <2> HIDE DEF c
  <2> QED
    BY <1>1, <2>1, <2>2, <2>3, AnswerKeepsQueue
<1>2. ASSUME NEW got \in {"ack", "fail"}, NEW s \in Nat \ {0}, cmds # <<>>,
             cmds' = [cmds EXCEPT ![1].got = got, ![1].arg = s]
      PROVE  QueueAnswered
  <2>1. cmds \in Seq(Command) /\ cmds[1] \in Command
    BY <1>2, HeadIsCommand DEF CallTypeOK
  <2> DEFINE c == [cmds[1] EXCEPT !.got = got, !.arg = s]
  <2>2. c \in Command /\ c.by = cmds[1].by /\ c.act = cmds[1].act
    <3>1. c \in Command
      BY <1>2, <2>1, AnsweredIsCommand
    <3>2. c.by = cmds[1].by /\ c.act = cmds[1].act
      BY <2>1 DEF Command
    <3> QED
      BY <3>1, <3>2
  <2>3. cmds' = [cmds EXCEPT ![1] = c]
    BY <1>2, <2>1
  <2> HIDE DEF c
  <2>4. cmds # <<>>
    BY <1>2
  <2> QED
    BY <2>1, <2>2, <2>3, <2>4, AnswerKeepsQueue
<1>3. CASE HubLeaves
  BY <1>1, <1>3 DEF HubLeaves, Pending, Answered
<1>4. CASE HubJoins
  <2>1. granted \in Nat /\ granted + 1 \in Nat \ {0}
    BY DEF CallTypeOK
  <2> QED
    BY <1>1, <1>2, <1>4, <2>1 DEF HubJoins, Pending, Answered
<1>5. CASE HubTakesOther
  BY <1>1, <1>5 DEF HubTakesOther, Pending, Answered
<1>6. CASE Drop
  BY <1>6, FailedQueue DEF Drop, CallTypeOK
<1> QED
  BY <1>3, <1>4, <1>5, <1>6

(* Every step keeps the types.                                             *)
LEMMA NextCallTypeOK == CallTypeOK /\ [Next]_vars => CallTypeOK'
<1> SUFFICES ASSUME CallTypeOK, [Next]_vars PROVE CallTypeOK'
  OBVIOUS
<1>1. CASE HubNext \/ Drop
  <2>1. cmds' \in Seq(Command)
    BY <1>1, HubAnswersQueue DEF QueueAnswered
  <2>2. UNCHANGED <<procVars, clientVars, shown>>
    BY <1>1 DEF HubNext, HubLeaves, HubJoins, HubTakesOther, Drop
  <2>3. member' \in Nat /\ granted' \in Nat
    BY <1>1 DEF HubNext, HubLeaves, HubJoins, HubTakesOther, Drop, CallTypeOK, hubVars
  <2> QED
    BY <2>1, <2>2, <2>3 DEF CallTypeOK, procVars, clientVars
<1>2. CASE HubEnds
  BY <1>2 DEF HubEnds, procVars, clientVars, wireVars, CallTypeOK
<1>3. CASE UNCHANGED vars
  BY <1>3 DEF vars, procVars, clientVars, wireVars, hubVars, CallTypeOK
<1> QED
  BY <1>1, <1>2, <1>3, Kinds, ClicksKeepTypes, JoiningKeepsTypes, LossesKeepTypes,
     SettlingKeepsTypes DEF Next

-----------------------------------------------------------------------------
(* Steps of a client whose calls did not overlap *)

Alone(p) == \A q \in Procs \ {p} : at[q] \in Resting

(* Who waits for a command is not at rest.                                 *)
LEMMA AwaitingIsBusy ==
  ASSUME NEW act \in DOMAIN Awaiting
  PROVE  Awaiting[act] \cap (Resting \cup {"open", "acquire"}) = {}
BY DEF Awaiting, Resting

(* Without another call under way nobody else's command is pending.        *)
LEMMA NobodyElseWaits ==
  ASSUME CallTypeOK, OneAtATime, NEW p \in Procs, Alone(p),
         at[p] \in Resting \cup {"open", "acquire"}
  PROVE  cmds = <<>>
<1> SUFFICES ASSUME cmds # <<>> PROVE FALSE
  OBVIOUS
<1>1. /\ 1 \in DOMAIN cmds /\ cmds[1].by \in Procs /\ cmds[1].act \in DOMAIN Awaiting
  BY HeadIsCommand DEF CallTypeOK
<1>2. at[cmds[1].by] \in Awaiting[cmds[1].act]
  BY <1>1 DEF OneAtATime
<1> QED
  BY <1>1, <1>2, AwaitingIsBusy DEF Alone

(* The owner of the pending command is alone, and it is the only command.  *)
LEMMA OwnerIsAlone ==
  ASSUME CallTypeOK, OneAtATime, cmds # <<>>
  PROVE  /\ Head(cmds).by \in Procs /\ Head(cmds).act \in DOMAIN Awaiting
         /\ at[Head(cmds).by] \in Awaiting[Head(cmds).act]
         /\ Alone(Head(cmds).by) /\ Tail(cmds) = <<>>
         /\ Head(cmds).act = "join" /\ Head(cmds).got = "ack" => Head(cmds).arg \in Nat \ {0}
<1>1. /\ 1 \in DOMAIN cmds /\ Head(cmds) = cmds[1]
      /\ Head(cmds).by \in Procs /\ Head(cmds).act \in DOMAIN Awaiting
      /\ Head(cmds).act = "join" /\ Head(cmds).got = "ack" => Head(cmds).arg \in Nat \ {0}
  BY HeadIsCommand DEF CallTypeOK
<1>2. Tail(cmds) = <<>>
  BY HeadIsCommand DEF CallTypeOK, OneAtATime
<1>3. at[Head(cmds).by] \in Awaiting[Head(cmds).act]
  BY <1>1 DEF OneAtATime
<1>4. Alone(Head(cmds).by)
  BY <1>1, <1>3, AwaitingIsBusy DEF OneAtATime, Alone
<1> QED
  BY <1>1, <1>2, <1>3, <1>4

(* A step of p while the others rest leaves one call at a time, with no    *)
(* command or with p's.                                                    *)
LEMMA StillOneAtATime ==
  ASSUME CallTypeOK, NEW p \in Procs, Alone(p), NEW place, Goto(p, place),
         \/ cmds' = <<>>
         \/ \E act \in DOMAIN Awaiting : \E arg, got :
                /\ cmds' = Append(<<>>, [by |-> p, act |-> act, arg |-> arg, got |-> got])
                /\ place \in Awaiting[act]
  PROVE  OneAtATime' /\ at'[p] = place /\ Alone(p)'
<1>1. at'[p] = place /\ \A q \in Procs \ {p} : at'[q] = at[q]
  BY DEF Goto, CallTypeOK
<1>2. \A q, r \in Procs : at'[q] \notin Resting /\ at'[r] \notin Resting => q = r
  BY <1>1 DEF Alone
<1>3. CASE cmds' = <<>>
  BY <1>1, <1>2, <1>3 DEF OneAtATime, Alone
<1>4. CASE cmds' # <<>>
  <2>0. PICK act \in DOMAIN Awaiting : \E arg, got :
           /\ cmds' = Append(<<>>, [by |-> p, act |-> act, arg |-> arg, got |-> got])
           /\ place \in Awaiting[act]
    BY <1>4
  <2>1. PICK arg, got :
           /\ cmds' = Append(<<>>, [by |-> p, act |-> act, arg |-> arg, got |-> got])
           /\ place \in Awaiting[act]
    BY <2>0
  <2>2. Len(cmds') = 1 /\ DOMAIN cmds' = {1} /\ cmds'[1].by = p /\ cmds'[1].act = act
    BY <2>1
  <2> QED
    BY <1>1, <1>2, <2>1, <2>2 DEF OneAtATime, Alone
<1> QED
  BY <1>3, <1>4

(* What p alone may disturb of InPlace.                                    *)
InPlaceOf(p) ==
    /\ at[p] \in UserOnly => p \in Users
    /\ at[p] \in {"resume", "sleep"} => p \notin Users
    /\ at[p] \notin {"idle", "done", "leaving"} => goal[p] # 0
    /\ at[p] \in {"acquire", "join"} => chan = 0 /\ (p \in Users => ~mic)
    /\ at[p] \notin Resting /\ p \notin Users => shown # 0

(* The others rest where they were.                                        *)
LEMMA OthersStayInPlace ==
  ASSUME CallTypeOK, InPlace, NEW p \in Procs, Alone(p),
         \A q \in Procs \ {p} : at'[q] = at[q] /\ goal'[q] = goal[q],
         InPlaceOf(p)'
  PROVE  InPlace'
<1> SUFFICES ASSUME NEW q \in Procs PROVE InPlaceOf(q)'
  BY DEF InPlace, InPlaceOf
<1>1. CASE q = p
  BY <1>1
<1>2. CASE q # p
  <2>1. at'[q] = at[q] /\ goal'[q] = goal[q] /\ at[q] \in Resting
    BY <1>2 DEF Alone
  <2>2. at[q] = "sleep" => q \notin Users /\ goal[q] # 0
    BY DEF InPlace
  <2> QED
    BY <2>1, <2>2 DEF InPlaceOf, Resting, UserOnly
<1> QED
  BY <1>1, <1>2

(* Leaving leaves nothing.                                                 *)
LEMMA TeardownLeavesNothing ==
  ASSUME Whole, Teardown
  PROVE  Whole' /\ chan' = 0 /\ sess' = 0 /\ pcs' = {} /\ fresh' = {}
BY DEF Whole, Teardown

(* The user's clicks keep the client tidy.                                 *)
LEMMA ClicksKeepTidy ==
  ASSUME CallTypeOK, Tidy, NEW p \in Procs, ~raced',
         \/ \E c \in Channels : StartJoin(p, c)
         \/ StartLeave(p)
  PROVE  Tidy'
<1>1. p \in Users /\ at[p] = "idle" /\ Alone(p)
  BY DEF StartJoin, StartLeave, NextIdle, Busy, Alone, Resting
<1>2. cmds = <<>>
  BY <1>1, NobodyElseWaits DEF Tidy, Resting
<1>3. orphaned' = FALSE /\ \A q \in Procs : at[q] \in Resting
  BY <1>1 DEF StartJoin, StartLeave, Tidy, Alone, Resting
<1>4. ASSUME NEW arg, NEW place \in {"quitting", "leaving"}, Send(p, "leave", arg), Goto(p, place)
      PROVE  OneAtATime' /\ at'[p] = place /\ Alone(p)'
  BY <1>1, <1>2, <1>4, StillOneAtATime DEF Send, SendAfter, Awaiting
<1>5. ASSUME NEW place, Goto(p, place), UNCHANGED cmds
      PROVE  OneAtATime' /\ at'[p] = place /\ Alone(p)'
  BY <1>1, <1>2, <1>5, StillOneAtATime
<1>6. \A q \in Procs \ {p} : at'[q] = at[q] /\ goal'[q] = goal[q]
  BY DEF StartJoin, StartLeave, Goto, CallTypeOK
<1>7. ASSUME NEW c \in Channels, StartJoin(p, c)
      PROVE  Tidy'
  <2>1. c # 0 /\ goal'[p] = c
    BY <1>7, CallAssumption DEF StartJoin, CallTypeOK
  <2>2. CASE chan = c
    <3>1. /\ Goto(p, "done") /\ shown' = c
          /\ UNCHANGED <<chan, sess, pcs, mic, fresh, cmds>>
      BY <1>7, <2>2 DEF StartJoin
    <3>2. OneAtATime' /\ at'[p] = "done"
      BY <1>5, <3>1
    <3>3. Whole' /\ NothingLeftOver'
      BY <2>1, <3>1 DEF Tidy, Whole, NothingLeftOver
    <3>4. InPlaceOf(p)'
      BY <3>2 DEF InPlaceOf, UserOnly, Resting
    <3>5. InPlace'
      BY <1>1, <1>6, <3>4, OthersStayInPlace DEF Tidy
    <3> QED
      BY <1>3, <3>2, <3>3, <3>5 DEF Tidy
  <2>3. CASE chan # c /\ chan = 0
    <3>1. /\ Goto(p, "acquire") /\ Teardown /\ mic' = FALSE /\ UNCHANGED cmds
      BY <1>7, <2>3 DEF StartJoin, LeaveTail
    <3>2. OneAtATime' /\ at'[p] = "acquire"
      BY <1>5, <3>1
    <3>3. Whole' /\ chan' = 0
      BY <3>1, TeardownLeavesNothing DEF Tidy
    <3>4. NothingLeftOver'
      BY <3>2 DEF NothingLeftOver, Resting
    <3>5. InPlaceOf(p)'
      BY <1>1, <2>1, <3>1, <3>2, <3>3 DEF InPlaceOf, UserOnly, Resting
    <3>6. InPlace'
      BY <1>1, <1>6, <3>5, OthersStayInPlace DEF Tidy
    <3> QED
      BY <1>3, <3>2, <3>3, <3>4, <3>6 DEF Tidy
  <2>4. CASE chan # c /\ chan # 0
    <3>1. /\ Goto(p, "quitting") /\ Send(p, "leave", 0)
          /\ UNCHANGED <<chan, sess, pcs, mic, fresh>>
      BY <1>7, <2>4 DEF StartJoin
    <3>2. OneAtATime' /\ at'[p] = "quitting"
      BY <1>4, <3>1
    <3>3. Whole' /\ NothingLeftOver'
      BY <3>1, <3>2 DEF Tidy, Whole, NothingLeftOver, Resting
    <3>4. InPlaceOf(p)'
      BY <1>1, <2>1, <3>2 DEF InPlaceOf, UserOnly, Resting
    <3>5. InPlace'
      BY <1>1, <1>6, <3>4, OthersStayInPlace DEF Tidy
    <3> QED
      BY <1>3, <3>2, <3>3, <3>5 DEF Tidy
  <2> QED
    BY <2>2, <2>3, <2>4
<1>8. CASE StartLeave(p)
  <2>1. CASE chan = 0
    <3>1. /\ Goto(p, "done") /\ Teardown /\ mic' = FALSE /\ UNCHANGED cmds
      BY <1>8, <2>1 DEF StartLeave, LeaveTail
    <3>2. OneAtATime' /\ at'[p] = "done"
      BY <1>5, <3>1
    <3>3. Whole' /\ chan' = 0
      BY <3>1, TeardownLeavesNothing DEF Tidy
    <3>4. NothingLeftOver'
      BY <3>1, <3>3 DEF NothingLeftOver
    <3>5. InPlaceOf(p)'
      BY <3>2 DEF InPlaceOf, UserOnly, Resting
    <3>6. InPlace'
      BY <1>1, <1>6, <3>5, OthersStayInPlace DEF Tidy
    <3> QED
      BY <1>3, <3>2, <3>3, <3>4, <3>6 DEF Tidy
  <2>2. CASE chan # 0
    <3>1. /\ Goto(p, "leaving") /\ Send(p, "leave", 0)
          /\ UNCHANGED <<chan, sess, pcs, mic, fresh>>
      BY <1>8, <2>2 DEF StartLeave
    <3>2. OneAtATime' /\ at'[p] = "leaving"
      BY <1>4, <3>1
    <3>3. Whole' /\ NothingLeftOver'
      BY <3>1, <3>2 DEF Tidy, Whole, NothingLeftOver, Resting
    <3>4. InPlaceOf(p)'
      BY <1>1, <3>2 DEF InPlaceOf, UserOnly, Resting
    <3>5. InPlace'
      BY <1>1, <1>6, <3>4, OthersStayInPlace DEF Tidy
    <3> QED
      BY <1>3, <3>2, <3>3, <3>5 DEF Tidy
  <2> QED
    BY <2>1, <2>2
<1> QED
  BY <1>7, <1>8

(* Joining keeps the client tidy, up to the offer.                         *)
LEMMA JoiningKeepsTidy ==
  ASSUME CallTypeOK, Tidy, NEW p \in Procs, Acquire(p) \/ SendOffer(p), ~refused'
  PROVE  Tidy'
<1>1. Alone(p) /\ at[p] \in {"acquire", "open"}
  BY DEF Acquire, SendOffer, Tidy, OneAtATime, Alone, Resting
<1>2. cmds = <<>>
  BY <1>1, NobodyElseWaits DEF Tidy
<1>3. UNCHANGED <<goal, fresh, chan, sess, pcs, mic, shown, orphaned>>
  BY DEF Acquire, SendOffer, clientVars, history
<1>4. \/ at[p] = "acquire" /\ Goto(p, "join") /\ Send(p, "join", goal[p])
      \/ at[p] = "open" /\ Goto(p, "offer") /\ Send(p, "offer", sess)
  BY DEF Acquire, SendOffer
<1>5. /\ OneAtATime'
      /\ \/ at[p] = "acquire" /\ at'[p] = "join"
         \/ at[p] = "open" /\ at'[p] = "offer"
  <2>1. ASSUME NEW act \in {"join", "offer"}, NEW arg, Goto(p, act), Send(p, act, arg)
        PROVE  OneAtATime' /\ at'[p] = act
    BY <1>1, <1>2, <2>1, StillOneAtATime DEF Send, SendAfter, Awaiting
  <2> QED
    BY <1>4, <2>1
<1>6. Whole' /\ NothingLeftOver'
  BY <1>3, <1>5 DEF Tidy, Whole, NothingLeftOver, Resting
<1>7. InPlaceOf(p)'
  BY <1>3, <1>5 DEF InPlaceOf, Tidy, InPlace, UserOnly, Resting
<1>8. \A q \in Procs \ {p} : at'[q] = at[q] /\ goal'[q] = goal[q]
  BY <1>3, <1>4 DEF Goto, CallTypeOK
<1>9. InPlace'
  BY <1>1, <1>7, <1>8, OthersStayInPlace DEF Tidy
<1> QED
  BY <1>3, <1>5, <1>6, <1>9 DEF Tidy

(* Rejoining when nobody is at it, in a call or for one that is shown.     *)
LEMMA RejoinKeepsTidy ==
  ASSUME CallTypeOK, Tidy, NEW p \in Procs, \A q \in Procs : at[q] \in Resting,
         NEW c, c # 0, p \notin Users, shown # 0, Rejoin(p, c),
         UNCHANGED <<shown, mic, orphaned>>
  PROVE  Tidy'
<1>1. Alone(p)
  BY DEF Alone
<1>2. cmds = <<>>
  BY <1>1, NobodyElseWaits DEF Tidy
<1>3. ASSUME NEW act \in {"resume", "join"}, NEW arg, Send(p, act, arg), Goto(p, act)
      PROVE  OneAtATime' /\ at'[p] = act /\ NothingLeftOver'
  <2>1. OneAtATime' /\ at'[p] = act
    BY <1>1, <1>2, <1>3, StillOneAtATime DEF Send, SendAfter, Awaiting
  <2> QED
    BY <2>1 DEF NothingLeftOver, Resting
<1>4. goal'[p] = c /\ \A q \in Procs \ {p} : at'[q] = at[q] /\ goal'[q] = goal[q]
  BY DEF Rejoin, Goto, CallTypeOK
<1>5. CASE chan = c
  <2>1. /\ Send(p, "resume", sess) /\ Goto(p, "resume")
        /\ UNCHANGED <<chan, sess, pcs, fresh>>
    BY <1>5 DEF Rejoin
  <2>2. OneAtATime' /\ at'[p] = "resume" /\ NothingLeftOver'
    BY <1>3, <2>1
  <2>3. Whole'
    BY <2>1 DEF Tidy, Whole
  <2>4. InPlaceOf(p)'
    BY <1>4, <2>2 DEF InPlaceOf, UserOnly, Resting
  <2>5. InPlace'
    BY <1>1, <1>4, <2>4, OthersStayInPlace DEF Tidy
  <2> QED
    BY <2>2, <2>3, <2>5 DEF Tidy
<1>6. CASE chan # c
  <2>1. Teardown /\ Send(p, "join", c) /\ Goto(p, "join")
    BY <1>6 DEF Rejoin
  <2>2. OneAtATime' /\ at'[p] = "join" /\ NothingLeftOver'
    BY <1>3, <2>1
  <2>3. Whole' /\ chan' = 0
    BY <2>1, TeardownLeavesNothing DEF Tidy
  <2>4. InPlaceOf(p)'
    BY <1>4, <2>2, <2>3 DEF InPlaceOf, UserOnly, Resting
  <2>5. InPlace'
    BY <1>1, <1>4, <2>4, OthersStayInPlace DEF Tidy
  <2> QED
    BY <2>2, <2>3, <2>5 DEF Tidy
<1> QED
  BY <1>5, <1>6

(* A process that rests may fall asleep or end, whatever the others do.    *)
LEMMA RestingKeepsTidy ==
  ASSUME CallTypeOK, Tidy, NEW p \in Procs, at[p] \in Resting,
         NEW place \in Resting, Goto(p, place),
         place = "sleep" => p \notin Users /\ goal'[p] # 0,
         \A q \in Procs \ {p} : goal'[q] = goal[q],
         UNCHANGED <<cmds, chan, sess, pcs, mic, shown, orphaned>>,
         chan = 0 => fresh' = {}
  PROVE  Tidy'
<1>1. at'[p] = place /\ \A q \in Procs \ {p} : at'[q] = at[q]
  BY DEF Goto, CallTypeOK
<1>2. OneAtATime'
  <2>1. \A q, r \in Procs : at'[q] \notin Resting /\ at'[r] \notin Resting => q = r
    BY <1>1 DEF Tidy, OneAtATime
  <2>2. ASSUME NEW i \in DOMAIN cmds
        PROVE  at'[cmds[i].by] \in Awaiting[cmds[i].act]
    <3>1. cmds[i] \in Command
      BY DEF CallTypeOK
    <3>2. cmds[i].by \in Procs /\ cmds[i].act \in DOMAIN Awaiting
      BY <3>1 DEF Command
    <3>3. at[cmds[i].by] \in Awaiting[cmds[i].act]
      BY DEF Tidy, OneAtATime
    <3>4. cmds[i].by # p
      BY <3>2, <3>3, AwaitingIsBusy
    <3> QED
      BY <1>1, <3>2, <3>3, <3>4
  <2> QED
    BY <2>1, <2>2 DEF Tidy, OneAtATime
<1>3. Whole'
  BY DEF Tidy, Whole
<1>4. NothingLeftOver'
  BY <1>1 DEF Tidy, NothingLeftOver
<1>5. InPlace'
  <2> SUFFICES ASSUME NEW q \in Procs PROVE InPlaceOf(q)'
    BY DEF InPlace, InPlaceOf
  <2>1. CASE q = p
    BY <1>1, <2>1 DEF InPlaceOf, Resting, UserOnly
  <2>2. CASE q # p
    BY <1>1, <2>2 DEF InPlaceOf, Tidy, InPlace
  <2> QED
    BY <2>1, <2>2
<1> QED
  BY <1>2, <1>3, <1>4, <1>5 DEF Tidy

(* A recovery wakes up to the call that was lost, or ends.                 *)
LEMMA WakingKeepsTidy ==
  ASSUME CallTypeOK, Tidy, NEW p \in Procs, Wake(p) \/ Restore(p), ~raced'
  PROVE  Tidy'
<1>1. UNCHANGED <<shown, mic, orphaned>> /\ at[p] \in Resting
  BY DEF Wake, Restore, NextIdle, Resting
<1>2. p \notin Users
  BY Kinds DEF Wake, Restore, NextIdle
<1>3. ASSUME NEW c, Rejoin(p, c)
      PROVE  \A q \in Procs : at[q] \in Resting
  BY <1>1, <1>3 DEF Rejoin, Busy, Resting
<1>4. CASE Wake(p) /\ p \in fresh /\ up
  <2>1. Rejoin(p, goal[p]) /\ at[p] = "sleep"
    BY <1>4 DEF Wake
  <2>2. goal[p] # 0 /\ chan # 0
    BY <1>4, <2>1 DEF Tidy, InPlace, Whole
  <2>3. \A q \in Procs : at[q] \in Resting
    BY <1>3, <2>1
  <2>4. shown # 0
    BY <2>2, <2>3 DEF Tidy, NothingLeftOver
  <2> QED
    BY <1>1, <1>2, <2>1, <2>2, <2>3, <2>4, RejoinKeepsTidy
<1>5. CASE Restore(p) /\ shown # 0
  <2>1. Rejoin(p, shown)
    BY <1>5 DEF Restore
  <2> QED
    BY <1>1, <1>2, <1>3, <1>5, <2>1, RejoinKeepsTidy
<1>6. CASE /\ ~ (Wake(p) /\ p \in fresh /\ up)
           /\ ~ (Restore(p) /\ shown # 0)
  <2>1. Goto(p, "done") /\ UNCHANGED <<goal, fresh, chan, sess, pcs, cmds>>
    BY <1>6 DEF Wake, Restore
  <2>2. chan = 0 => fresh' = {}
    BY <2>1 DEF Tidy, Whole
  <2>3. "done" \in Resting
    BY DEF Resting
  <2> QED
    BY <1>1, <2>1, <2>2, <2>3, RestingKeepsTidy
<1> QED
  BY <1>4, <1>5, <1>6

(* A lost session starts a recovery that sleeps, and only in a call.       *)
LEMMA LosingKeepsTidy ==
  ASSUME CallTypeOK, Tidy, PcFails \/ \E s \in Sessions : SessionClosed(s)
  PROVE  Tidy'
<1>1. UNCHANGED <<cmds, chan, sess, pcs, mic, shown, orphaned>>
  BY DEF PcFails, SessionClosed, SessionLost, wireVars, history
<1>2. ASSUME UNCHANGED <<at, goal, fresh>>
      PROVE  Tidy'
  BY <1>1, <1>2 DEF Tidy, OneAtATime, Whole, InPlace, NothingLeftOver
<1>3. ASSUME NEW p \in Loops, at[p] \in {"idle", "done"}, chan # 0, Goto(p, "sleep"),
             goal' = [goal EXCEPT ![p] = chan]
      PROVE  Tidy'
  <2>1. p \in Procs /\ p \notin Users /\ at[p] \in Resting /\ "sleep" \in Resting
    BY <1>3, Kinds DEF Resting
  <2>2. goal'[p] = chan /\ \A q \in Procs \ {p} : goal'[q] = goal[q]
    BY <1>3, <2>1 DEF CallTypeOK
  <2> QED
    BY <1>1, <1>3, <2>1, <2>2, RestingKeepsTidy
<1>4. CASE SessionLost
  BY <1>2, <1>3, <1>4 DEF SessionLost
<1> QED
  BY <1>2, <1>4 DEF PcFails, SessionClosed

(* Answers on their way change nothing here.                               *)
LEMMA HubKeepsTidy ==
  ASSUME CallTypeOK, Tidy, HubNext \/ Drop \/ HubEnds \/ UNCHANGED vars
  PROVE  Tidy'
<1>1. UNCHANGED <<at, goal, fresh, chan, sess, pcs, mic, shown, orphaned>>
  BY DEF HubNext, HubLeaves, HubJoins, HubTakesOther, Drop, HubEnds, vars, procVars,
         clientVars, history
<1>2. OneAtATime'
  <2>1. CASE HubNext \/ Drop
    <3>1. QueueAnswered
      BY <2>1, HubAnswersQueue
    <3> QED
      BY <1>1, <3>1 DEF QueueAnswered, Tidy, OneAtATime
  <2>2. CASE UNCHANGED cmds
    BY <1>1, <2>2 DEF Tidy, OneAtATime
  <2> QED
    BY <2>1, <2>2 DEF HubEnds, vars, wireVars
<1>3. Whole' /\ InPlace' /\ NothingLeftOver'
  BY <1>1 DEF Tidy, Whole, InPlace, NothingLeftOver
<1> QED
  BY <1>1, <1>2, <1>3 DEF Tidy

(* What an answer leaves: the call that waited for it goes on alone.       *)
LEMMA SettlingKeepsTidy ==
  ASSUME CallTypeOK, Tidy, Settle, ~refused'
  PROVE  Tidy'
<1>1. cmds # <<>>
  BY DEF Settle, Left, Joined, Refused, Offered, Resumed, NotResumed, Answered
<1> PICK p \in Procs : p = Head(cmds).by
  BY <1>1, OwnerIsAlone DEF Tidy
<1>2. /\ p \in Procs /\ at[p] \in Awaiting[Head(cmds).act]
      /\ Alone(p) /\ Tail(cmds) = <<>>
      /\ Head(cmds).act = "join" /\ Head(cmds).got = "ack" => Head(cmds).arg \in Nat \ {0}
  BY <1>1, OwnerIsAlone DEF Tidy
<1>3. goal' = goal
  BY DEF Settle, Left, Joined, Refused, Offered, Resumed, NotResumed
<1>4. ASSUME NEW place, Goto(p, place), cmds' = Tail(cmds)
      PROVE  OneAtATime' /\ at'[p] = place
  BY <1>2, <1>4, StillOneAtATime
<1>5. ASSUME NEW place, Goto(p, place), OneAtATime', Whole', NothingLeftOver', InPlaceOf(p)',
             orphaned' = FALSE
      PROVE  Tidy'
  <2>1. \A q \in Procs \ {p} : at'[q] = at[q] /\ goal'[q] = goal[q]
    BY <1>3, <1>5 DEF Goto, CallTypeOK
  <2>2. InPlace'
    BY <1>2, <1>5, <2>1, OthersStayInPlace DEF Tidy
  <2> QED
    BY <1>5, <2>2 DEF Tidy
<1>6. InPlaceOf(p)
  BY <1>2 DEF Tidy, InPlace, InPlaceOf
<1>7. CASE Left
  <2>1. at[p] \in {"leaving", "quitting"}
    BY <1>2, <1>7 DEF Left, Answered, Awaiting
  <2>2. Teardown /\ mic' = FALSE /\ cmds' = Tail(cmds) /\ orphaned' = FALSE
    BY <1>7 DEF Left, LeaveTail, history, Tidy
  <2>3. Whole' /\ chan' = 0
    BY <2>2, TeardownLeavesNothing DEF Tidy
  <2>4. NothingLeftOver'
    BY <2>2, <2>3 DEF NothingLeftOver
  <2>5. CASE at[p] = "leaving"
    <3>1. Goto(p, "done")
      BY <1>7, <2>5 DEF Left
    <3>2. OneAtATime' /\ at'[p] = "done"
      BY <1>4, <2>2, <3>1
    <3>3. InPlaceOf(p)'
      BY <3>2 DEF InPlaceOf, UserOnly, Resting
    <3> QED
      BY <1>5, <2>2, <2>3, <2>4, <3>1, <3>2, <3>3
  <2>6. CASE at[p] = "quitting"
    <3>1. Goto(p, "acquire")
      BY <1>7, <2>6 DEF Left
    <3>2. OneAtATime' /\ at'[p] = "acquire"
      BY <1>4, <2>2, <3>1
    <3>3. InPlaceOf(p)'
      BY <1>3, <1>6, <2>2, <2>3, <2>6, <3>2 DEF InPlaceOf, UserOnly, Resting
    <3> QED
      BY <1>5, <2>2, <2>3, <2>4, <3>1, <3>2, <3>3
  <2> QED
    BY <2>1, <2>5, <2>6
<1>8. CASE Joined
  <2>1. at[p] = "join" /\ Head(cmds).arg \in Nat \ {0}
    BY <1>2, <1>8 DEF Joined, Answered, Awaiting
  <2>2. goal[p] # 0 /\ chan = 0 /\ sess = 0 /\ pcs = {} /\ fresh = {} /\ (p \in Users => ~mic)
    BY <1>6, <2>1 DEF InPlaceOf, Tidy, Whole
  <2>3. /\ ApplySession(Head(cmds).arg, goal[p]) /\ Goto(p, "open") /\ UNCHANGED shown
        /\ orphaned' = (orphaned \/ sess # 0 \/ (p \in Users /\ mic))
        /\ cmds' = Tail(cmds) /\ fresh' = fresh
    BY <1>8, <2>2 DEF Joined
  <2>4. OneAtATime' /\ at'[p] = "open"
    BY <1>4, <2>3
  <2>5. Whole'
    BY <2>1, <2>2, <2>3 DEF Whole, ApplySession
  <2>6. NothingLeftOver'
    BY <1>2, <2>4 DEF NothingLeftOver, Resting
  <2>7. InPlaceOf(p)'
    BY <1>3, <1>6, <2>1, <2>3, <2>4 DEF InPlaceOf, UserOnly, Resting
  <2>8. orphaned' = FALSE
    BY <2>2, <2>3 DEF Tidy
  <2> QED
    BY <1>5, <2>3, <2>4, <2>5, <2>6, <2>7, <2>8
<1>9. CASE Offered
  <2>1. at[p] = "offer"
    BY <1>2, <1>9 DEF Offered, Answered, Awaiting
  <2>2. /\ Goto(p, "done") /\ cmds' = Tail(cmds) /\ shown' = IF p \in Users THEN goal[p] ELSE shown
        /\ UNCHANGED <<chan, sess, pcs, fresh, orphaned>>
    BY <1>9 DEF Offered, history
  <2>3. shown' # 0
    BY <1>6, <2>1, <2>2 DEF InPlaceOf, Resting
  <2>4. OneAtATime' /\ at'[p] = "done"
    BY <1>4, <2>2
  <2>5. Whole' /\ NothingLeftOver' /\ orphaned' = FALSE
    BY <2>2, <2>3 DEF Tidy, Whole, NothingLeftOver
  <2>6. InPlaceOf(p)'
    BY <2>4 DEF InPlaceOf, UserOnly, Resting
  <2> QED
    BY <1>5, <2>2, <2>4, <2>5, <2>6
<1>10. CASE Resumed
  <2>1. at[p] = "resume"
    BY <1>2, <1>10 DEF Resumed, Answered, Awaiting
  <2>2. /\ Goto(p, "done") /\ cmds' = Tail(cmds)
        /\ UNCHANGED <<chan, sess, pcs, fresh, shown, orphaned>>
    BY <1>10 DEF Resumed, history
  <2>3. shown' # 0
    BY <1>6, <2>1, <2>2 DEF InPlaceOf, Resting
  <2>4. OneAtATime' /\ at'[p] = "done"
    BY <1>4, <2>2
  <2>5. Whole' /\ NothingLeftOver' /\ orphaned' = FALSE
    BY <2>2, <2>3 DEF Tidy, Whole, NothingLeftOver
  <2>6. InPlaceOf(p)'
    BY <2>4 DEF InPlaceOf, UserOnly, Resting
  <2> QED
    BY <1>5, <2>2, <2>4, <2>5, <2>6
<1>11. CASE NotResumed
  <2>1. at[p] = "resume"
    BY <1>2, <1>11 DEF NotResumed, Answered, Awaiting
  <2>2. /\ Goto(p, "join") /\ SendAfter(Tail(cmds), p, "join", goal[p]) /\ Teardown
        /\ UNCHANGED <<shown, orphaned>>
    BY <1>11 DEF NotResumed, history
  <2>3. OneAtATime' /\ at'[p] = "join"
    BY <1>2, <2>2, StillOneAtATime DEF SendAfter, Awaiting
  <2>4. Whole' /\ chan' = 0 /\ orphaned' = FALSE
    BY <2>2, TeardownLeavesNothing DEF Tidy
  <2>5. NothingLeftOver'
    BY <1>2, <2>3 DEF NothingLeftOver, Resting
  <2>6. InPlaceOf(p)'
    BY <1>3, <1>6, <2>1, <2>2, <2>3, <2>4 DEF InPlaceOf, UserOnly, Resting
  <2> QED
    BY <1>5, <2>2, <2>3, <2>4, <2>5, <2>6
<1>12. CASE Refused
  BY <1>12 DEF Refused
<1> QED
  BY <1>7, <1>8, <1>9, <1>10, <1>11, <1>12 DEF Settle

(* Overlap and refusal are remembered.                                     *)
LEMMA HistoryGrows == [Next]_vars => (raced => raced') /\ (refused => refused')
<1> USE DEF history
<1>1. ASSUME NEW p \in Procs, NEW c, StartJoin(p, c) \/ StartLeave(p) \/ Acquire(p) \/ SendOffer(p)
      PROVE  (raced => raced') /\ (refused => refused')
  <2>1. raced' = (raced \/ Busy(p)) \/ raced' = raced
    BY <1>1, Zenon DEF StartJoin, StartLeave, Acquire, SendOffer
  <2>2. refused' = refused \/ refused' = TRUE
    BY <1>1, Zenon DEF StartJoin, StartLeave, Acquire, SendOffer
  <2>3. raced => raced'
    BY <2>1 DEF Busy
  <2>4. refused => refused'
    BY <2>2
  <2> QED
    BY <2>3, <2>4, Zenon
<1>2. ASSUME NEW p \in Procs, Wake(p) \/ Restore(p)
      PROVE  (raced => raced') /\ (refused => refused')
  <2>1. raced' = (raced \/ Busy(p)) \/ raced' = raced
    BY <1>2, Zenon DEF Wake, Restore, Rejoin
  <2>2. refused' = refused
    BY <1>2, Zenon DEF Wake, Restore, Rejoin
  <2>3. raced => raced'
    BY <2>1 DEF Busy
  <2>4. refused => refused'
    BY <2>2
  <2> QED
    BY <2>3, <2>4, Zenon
<1>3. ASSUME PcFails \/ (\E s \in Sessions : SessionClosed(s)) \/ Settle
      PROVE  (raced => raced') /\ (refused => refused')
  <2>1. raced' = raced /\ (refused' = refused \/ refused' = TRUE)
    BY <1>3 DEF PcFails, SessionClosed, SessionLost, Settle, Left, Joined, Refused, Offered,
                Resumed, NotResumed
  <2> QED
    BY <2>1
<1>4. ASSUME HubNext \/ HubEnds \/ Drop \/ UNCHANGED vars
      PROVE  (raced => raced') /\ (refused => refused')
  <2>1. raced' = raced /\ refused' = refused
    BY <1>4 DEF HubNext, HubLeaves, HubJoins, HubTakesOther, HubEnds, Drop, vars
  <2> QED
    BY <2>1
<1> QED
  BY <1>1, <1>2, <1>3, <1>4, Kinds DEF Next

(* Every step keeps the invariant.                                         *)
LEMMA NextCallInv == CallInv /\ [Next]_vars => CallInv'
<1> SUFFICES ASSUME CallInv, [Next]_vars PROVE CallInv'
  OBVIOUS
<1>1. CallTypeOK /\ CallTypeOK'
  BY NextCallTypeOK DEF CallInv
<1>2. SUFFICES ASSUME ~raced', ~refused' PROVE Tidy'
  BY <1>1 DEF CallInv
<1>3. Tidy
  BY <1>2, HistoryGrows DEF CallInv
<1> QED
  BY <1>1, <1>2, <1>3, Kinds, ClicksKeepTidy, JoiningKeepsTidy, WakingKeepsTidy, LosingKeepsTidy,
     SettlingKeepsTidy, HubKeepsTidy DEF Next

-----------------------------------------------------------------------------
(* What holds *)

(* The types, and the tidiness of a client whose calls did not overlap and *)
(* whose joins were not refused (sfuCallClient.ts with useVoice.ts).       *)
THEOREM CallInvHolds == Spec => []CallInv
BY InitCallInv, NextCallInv, PTL DEF Spec

(* Leaving a call leaves no channel, no peer connection and no microphone  *)
(* behind, and no recovery that joins it again.                            *)
THEOREM ALeftCallIsLeft == Spec => []LeftMeansLeft
<1>1. CallInv => LeftMeansLeft
  BY DEF CallInv, Tidy, NothingLeftOver, Whole, LeftMeansLeft, Quiet, Resting
<1> QED
  BY <1>1, CallInvHolds, PTL

(* No peer connection and no microphone is replaced before it is closed.   *)
THEOREM NothingIsOrphaned == Spec => []NothingOrphaned
<1>1. CallInv => NothingOrphaned
  BY DEF CallInv, Tidy, NothingOrphaned
<1> QED
  BY <1>1, CallInvHolds, PTL

=============================================================================
