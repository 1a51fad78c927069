----------------------------- MODULE HubDelivery -----------------------------
(***************************************************************************)
(* How events reach a connection (hub.go: pushToUsers, pushEvent,          *)
(* enqueueEvent; client.go).  Each connection has a bounded queue,         *)
(* Outbound, that any goroutine fills under a read hold of h.mu and the    *)
(* connection's writer empties; Hub.Run registers, evicts and removes      *)
(* connections, and closes their queues, under a write hold.  An ordinary  *)
(* event that finds the queue full is dropped.  A critical one costs the   *)
(* client its connection.                                                  *)
(*                                                                         *)
(* An event is a number: 0 is an ordinary one, n the n-th critical one     *)
(* pushed to the connection.                                               *)
(***************************************************************************)
EXTENDS Naturals, Sequences

CONSTANTS
    Users, Conns,
    UserOf,         \* Conns -> Users: Client.UserID
    Run,            \* the goroutine of Hub.Run
    Others,         \* those that push beside it: SFU callbacks, searches, embeds
    NoConn,         \* no connection
    Capacity,       \* of Outbound (256 in the code)
    MaxEvents       \* bound: pushes

ASSUME DeliveryAssumption ==
    /\ UserOf \in [Conns -> Users]
    /\ NoConn \notin Conns /\ Run \notin Others
    /\ Capacity \in Nat \ {0} /\ MaxEvents \in Nat

VARIABLES
    client,         \* clientsByUser: Users -> Conns or NoConn
    outbound,       \* Conns -> the queue
    closed,         \* connections whose queue is closed
    link,           \* Conns -> the socket: "new", "open", "shut"
    reader,         \* Conns -> readMessage: "none", "joins" (at Register), "reads",
                    \*   "leaves" (at Unregister), "gone"
    writer,         \* Conns -> writeMessage: "none", "waits", "writes", "over"
    hand,           \* Conns -> the event its writer has taken
    run,            \* what Run is at: "idle", "register", "unregister" (both at
                    \*   h.mu.Lock), "greet", and the connection it is about
    push,           \* goroutine -> the push under way: critical or not, the
                    \*   connections still to get it, the one found full
    pushes,
    meant,          \* Conns -> how many critical events were meant for it
    seen            \* Conns -> the critical events that reached its client

pushVars == <<push, pushes, meant>>
deliveryVars == <<client, outbound, closed, link, reader, writer, hand, run, pushVars, seen>>

Pushers == Others \union {Run}
NoPush == [critical |-> FALSE, todo |-> {}, full |-> NoConn]

DeliveryInit ==
    /\ client = [u \in Users |-> NoConn]
    /\ outbound = [c \in Conns |-> <<>>] /\ closed = {}
    /\ link = [c \in Conns |-> "new"] /\ reader = [c \in Conns |-> "none"]
    /\ writer = [c \in Conns |-> "none"] /\ hand = [c \in Conns |-> 0]
    /\ run = [at |-> "idle", conn |-> NoConn]
    /\ push = [p \in Pushers |-> NoPush] /\ pushes = 0
    /\ meant = [c \in Conns |-> 0] /\ seen = [c \in Conns |-> {}]

-----------------------------------------------------------------------------
(* Pushing, under a read hold of h.mu *)

Holding == {p \in Pushers : push[p].todo # {}}
Registered == {client[u] : u \in Users} \ {NoConn}

\* Run at h.mu.Lock keeps new readers out (sync.RWMutex).
AtLock == run.at \in {"register", "unregister"}

\* RLock: the recipients that are registered.
BeginPush(p, critical, recipients) ==
    /\ push[p] = NoPush /\ ~AtLock /\ (p = Run => run.at = "idle")
    /\ pushes < MaxEvents /\ pushes' = pushes + 1
    /\ recipients # {} /\ recipients \subseteq Registered
    /\ push' = [push EXCEPT ![p] = [critical |-> critical, todo |-> recipients, full |-> NoConn]]
    /\ UNCHANGED <<client, outbound, closed, link, reader, writer, hand, run, meant, seen>>

\* The last recipient served, the hold ends.
Rest(p, c) == IF push[p].todo = {c} THEN NoPush
              ELSE [critical |-> push[p].critical, todo |-> push[p].todo \ {c}, full |-> NoConn]
Served(p, c) == push' = [push EXCEPT ![p] = Rest(p, c)]

IsFull(c) == Len(outbound[c]) >= Capacity

\* A critical event takes the connection's next number whether it gets in or not.
Numbered(p, c) ==
    IF push[p].critical THEN meant' = [meant EXCEPT ![c] = @ + 1] ELSE UNCHANGED meant

Enqueue(p, c) ==
    /\ c \in push[p].todo /\ push[p].full = NoConn /\ ~IsFull(c)
    /\ Numbered(p, c) /\ Served(p, c)
    /\ outbound' = [outbound EXCEPT ![c] = Append(@, IF push[p].critical THEN meant'[c] ELSE 0)]
    /\ UNCHANGED <<client, closed, link, reader, writer, hand, run, pushes, seen>>

Drop(p, c) ==
    /\ c \in push[p].todo /\ push[p].full = NoConn /\ IsFull(c) /\ ~push[p].critical
    /\ Served(p, c)
    /\ UNCHANGED <<client, outbound, closed, link, reader, writer, hand, run, pushes, meant, seen>>

\* Bug: the critical event is dropped like the others.
FindFullAndForget(p, c) ==
    /\ c \in push[p].todo /\ push[p].full = NoConn /\ IsFull(c) /\ push[p].critical
    /\ Numbered(p, c) /\ Served(p, c)
    /\ UNCHANGED <<client, outbound, closed, link, reader, writer, hand, run, pushes, seen>>

\* Between finding the queue full and closing the connection others go on.
FindFull(p, c) ==
    /\ c \in push[p].todo /\ push[p].full = NoConn /\ IsFull(c) /\ push[p].critical
    /\ Numbered(p, c)
    /\ push' = [push EXCEPT ![p].full = c]
    /\ UNCHANGED <<client, outbound, closed, link, reader, writer, hand, run, pushes, seen>>

CloseFull(p, c) ==
    /\ push[p].full = c /\ link' = [link EXCEPT ![c] = "shut"] /\ Served(p, c)
    /\ UNCHANGED <<client, outbound, closed, reader, writer, hand, run, pushes, meant, seen>>

-----------------------------------------------------------------------------
(* Hub.Run *)

RunIsFree == run.at = "idle" /\ push[Run] = NoPush

\* The handler goes on as soon as Run has taken its client.
TakeRegister(c) ==
    /\ RunIsFree /\ reader[c] = "joins" /\ run' = [at |-> "register", conn |-> c]
    /\ reader' = [reader EXCEPT ![c] = "reads"] /\ writer' = [writer EXCEPT ![c] = "waits"]
    /\ UNCHANGED <<client, outbound, closed, link, hand, pushVars, seen>>

\* registerClient's hold of h.mu: the connection it replaces is closed.
RegisterClient ==
    LET c == run.conn
        old == client[UserOf[c]]
    IN  /\ run.at = "register" /\ Holding = {}
        /\ client' = [client EXCEPT ![UserOf[c]] = c]
        /\ IF old = NoConn THEN UNCHANGED <<link, closed>>
           ELSE link' = [link EXCEPT ![old] = "shut"] /\ closed' = closed \union {old}
        /\ run' = [run EXCEPT !.at = "greet"]
        /\ UNCHANGED <<outbound, reader, writer, hand, pushVars, seen>>

\* ... after which it pushes "connected".
Greet ==
    /\ run.at = "greet" /\ run' = [at |-> "idle", conn |-> NoConn]
    /\ push' = [push EXCEPT ![Run] = [critical |-> FALSE, todo |-> {run.conn}, full |-> NoConn]]
    /\ UNCHANGED <<client, outbound, closed, link, reader, writer, hand, pushes, meant, seen>>

TakeUnregister(c) ==
    /\ RunIsFree /\ reader[c] = "leaves" /\ run' = [at |-> "unregister", conn |-> c]
    /\ reader' = [reader EXCEPT ![c] = "gone"]
    /\ UNCHANGED <<client, outbound, closed, link, writer, hand, pushVars, seen>>

\* unregisterClient's hold of h.mu: an evicted connection is closed already.
Removes(c) ==
    /\ IF client[UserOf[c]] = c
         THEN client' = [client EXCEPT ![UserOf[c]] = NoConn] /\ closed' = closed \union {c}
         ELSE UNCHANGED <<client, closed>>
    /\ run' = [at |-> "idle", conn |-> NoConn]
    /\ UNCHANGED <<outbound, link, reader, writer, hand, pushVars, seen>>

\* Bug: the queue is closed under no hold of h.mu that pushes exclude.
UnregisterUnlocked == run.at = "unregister" /\ Removes(run.conn)

UnregisterClient == run.at = "unregister" /\ Holding = {} /\ Removes(run.conn)

-----------------------------------------------------------------------------
(* The connection *)

Dial(c) ==
    /\ link[c] = "new" /\ link' = [link EXCEPT ![c] = "open"]
    /\ reader' = [reader EXCEPT ![c] = "joins"]
    /\ UNCHANGED <<client, outbound, closed, writer, hand, run, pushVars, seen>>

\* The client closes it, or the network does.
HangUp(c) ==
    /\ link[c] = "open" /\ link' = [link EXCEPT ![c] = "shut"]
    /\ UNCHANGED <<client, outbound, closed, reader, writer, hand, run, pushVars, seen>>

\* Bug: the reader ends and leaves the connection with the hub.
ReadEndsQuietly(c) ==
    /\ reader[c] = "reads" /\ reader' = [reader EXCEPT ![c] = "gone"]
    /\ UNCHANGED <<client, outbound, closed, link, writer, hand, run, pushVars, seen>>

\* readMessage ends: the socket is closed, or no pong came in time.
ReadEnds(c) ==
    /\ reader[c] = "reads" /\ reader' = [reader EXCEPT ![c] = "leaves"]
    /\ UNCHANGED <<client, outbound, closed, link, writer, hand, run, pushVars, seen>>

TakeEvent(c) ==
    /\ writer[c] = "waits" /\ outbound[c] # <<>>
    /\ hand' = [hand EXCEPT ![c] = Head(outbound[c])]
    /\ outbound' = [outbound EXCEPT ![c] = Tail(@)]
    /\ writer' = [writer EXCEPT ![c] = "writes"]
    /\ UNCHANGED <<client, closed, link, reader, run, pushVars, seen>>

Written(c) ==
    /\ writer[c] = "writes" /\ link[c] = "open"
    /\ seen' = [seen EXCEPT ![c] = @ \union ({hand[c]} \ {0})]
    /\ writer' = [writer EXCEPT ![c] = "waits"]
    /\ UNCHANGED <<client, outbound, closed, link, reader, hand, run, pushVars>>

\* A write or a ping fails, within its deadline, or the queue is closed and
\* empty: the writer ends and closes the socket.
WriterEnds(c) ==
    /\ writer[c] \in {"waits", "writes"}
    /\ writer' = [writer EXCEPT ![c] = "over"] /\ link' = [link EXCEPT ![c] = "shut"]
    /\ UNCHANGED <<client, outbound, closed, reader, hand, run, pushVars, seen>>

DeliveryNext ==
    \/ \E p \in Pushers :
          \/ \E critical \in BOOLEAN, recipients \in SUBSET Conns :
                BeginPush(p, critical, recipients)
          \/ \E c \in Conns : Enqueue(p, c) \/ Drop(p, c) \/ FindFull(p, c) \/ CloseFull(p, c)
    \/ RegisterClient \/ Greet \/ UnregisterClient
    \/ \E c \in Conns :
          \/ TakeRegister(c) \/ TakeUnregister(c) \/ Dial(c) \/ HangUp(c) \/ ReadEnds(c)
          \/ TakeEvent(c) \/ Written(c) \/ WriterEnds(c)

DeliverySpec == DeliveryInit /\ [][DeliveryNext]_deliveryVars

-----------------------------------------------------------------------------
(* Properties *)

\* What is still to be written to the client of c, in order.
Coming(c) == IF writer[c] = "writes" THEN <<hand[c]>> \o outbound[c] ELSE outbound[c]
OnTheWay(c) == {Coming(c)[i] : i \in DOMAIN Coming(c)} \ {0}

\* Nobody has closed the connection or is about to.
IsWhole(c) == link[c] = "open" /\ \A p \in Pushers : push[p].full # c

\* The client of a connection that nobody is cutting off has got or will get
\* every critical event ("their silent loss leaves a client in a state it
\* cannot recover from on its own"); and no client gets one after a later one.
NoSilentLoss ==
    \A c \in Conns :
        /\ IsWhole(c) => 1..meant[c] \subseteq seen[c] \union OnTheWay(c)
        /\ \A i, j \in DOMAIN Coming(c) : i < j /\ Coming(c)[j] # 0 => Coming(c)[i] < Coming(c)[j]
        /\ \A m \in seen[c], n \in OnTheWay(c) : m < n

\* No goroutine sends on a closed channel and Run closes none twice (hub.go
\* 848-854): whom a push under way is for, and who is registered, is open.
NeverPanics ==
    /\ Registered \intersect closed = {}
    /\ \A p \in Pushers : push[p].todo \intersect closed = {}

\* Whoever is registered still has a reader, which a closed socket ends, or
\* Run is about to remove it: no client that is cut off, evicted or lost stays
\* in the map, where its user would count as online and be pushed to for ever.
CutOffLeaves ==
    \A u \in Users : client[u] # NoConn =>
        reader[client[u]] \in {"reads", "leaves"} \/ run = [at |-> "unregister", conn |-> client[u]]

\* The map of clients and the goroutines that use its connections agree.
ClientsAreHeld == NeverPanics /\ CutOffLeaves

-----------------------------------------------------------------------------
(* The inductive invariant *)

Pushing == [critical : BOOLEAN, todo : SUBSET Conns, full : Conns \union {NoConn}]
DeliveryTypeOK ==
    /\ client \in [Users -> Conns \union {NoConn}]
    /\ outbound \in [Conns -> Seq(Nat)] /\ closed \subseteq Conns
    /\ link \in [Conns -> {"new", "open", "shut"}]
    /\ reader \in [Conns -> {"none", "joins", "reads", "leaves", "gone"}]
    /\ writer \in [Conns -> {"none", "waits", "writes", "over"}]
    /\ hand \in [Conns -> Nat]
    /\ run \in [at : {"idle", "register", "unregister", "greet"}, conn : Conns \union {NoConn}]
    /\ push \in [Pushers -> Pushing]
    /\ pushes \in Nat /\ meant \in [Conns -> Nat] /\ seen \in [Conns -> SUBSET Nat]

Met(c) == reader[c] \notin {"none", "joins"}

\* Who is registered is so for its own user, is open and has been read from.
RegisteredInv ==
    \A u \in Users : client[u] # NoConn =>
        /\ UserOf[client[u]] = u /\ client[u] \notin closed
        /\ Met(client[u])
UnreadInv ==
    \A c \in Conns :
        /\ ~Met(c) => c \notin closed /\ writer[c] = "none"
        /\ link[c] = "new" => reader[c] = "none"

\* Run pushes nothing while it registers; it registers a connection once.
RunInv ==
    /\ run.at # "idle" => push[Run] = NoPush /\ run.conn \in Conns
    /\ run.at = "register" =>
          run.conn \notin closed /\ run.conn \notin Registered /\ Met(run.conn)
    /\ run.at = "greet" => client[UserOf[run.conn]] = run.conn

\* A push under way is for registered connections.
PushInv ==
    \A p \in Pushers :
        /\ \A c \in push[p].todo : client[UserOf[c]] = c
        /\ push[p].full # NoConn => push[p].full \in push[p].todo

\* Numbers grow along the queue, and none is above the last one pushed.
Ordered(s) == \A i, j \in DOMAIN s : i < j /\ s[j] # 0 => s[i] < s[j]
InOrder(s, got, last) ==
    /\ Ordered(s) /\ \A i \in DOMAIN s : s[i] <= last
    /\ \A m \in got : m <= last /\ \A i \in DOMAIN s : s[i] # 0 => m < s[i]
Complete(s, got, last) == \A n \in 1..last : n \in got \/ \E i \in DOMAIN s : s[i] = n
Uncut(c) == link[c] # "shut" /\ \A p \in Pushers : push[p].full # c
QueueOf(c) == /\ InOrder(Coming(c), seen[c], meant[c])
              /\ Uncut(c) => Complete(Coming(c), seen[c], meant[c])
QueueInv == \A c \in Conns : QueueOf(c)

MeetingInv == RegisteredInv /\ UnreadInv /\ RunInv /\ PushInv
DeliveryInv == DeliveryTypeOK /\ MeetingInv /\ QueueInv

\* Nor does the reader leave unnoticed before its connection is registered.
HeldInv ==
    /\ CutOffLeaves
    /\ run.at = "register" => reader[run.conn] \in {"reads", "leaves"}
=============================================================================
