----------------------------- MODULE MessageView -----------------------------
(***************************************************************************)
(* The list of messages of one channel: hooks/useMessages.ts over the page *)
(* queries of the hub (hub.go, storage websocket.go).                      *)
(*                                                                         *)
(* The list is either the live tail, or a window opened around a found     *)
(* message and walked towards the tail page by page.  Live messages, pages *)
(* and the renders of React interleave.  The socket has one command in     *)
(* flight; the others wait in order (ChatSocket).                          *)
(***************************************************************************)
EXTENDS Naturals, Sequences, SequencesExt, FiniteSets

CONSTANTS
    History,        \* messages of the channel when the client starts
    MaxMessages,    \* bound: messages ever sent
    PageSize,       \* messages of a page (100, 50 and 25 in the code)
    MaxPending,     \* bound: commands waiting or in flight
    MaxDrops,       \* bound: connections lost
    MaxDeletes      \* bound: messages deleted, here or elsewhere

ASSUME MessageAssumption == PageSize \in Nat \ {0} /\ History \in Nat

VARIABLES
    saved,          \* ids in the messages table
    sentIds,        \* messages ever sent; ids are given in order
    pushing,        \* a message saved and not yet pushed, or 0
    online,         \* the socket is open
    inbox,          \* frames on their way to the client
    lost,           \* ids in inbox a full queue had no room for: only their
                    \* places are there
    pending,        \* commands; the head is at the server
    atServer,       \* "new", "read" (a page read off the Run loop), "done"
    snapshot,       \* that page
    list,           \* messagesByChannel[c]
    page,           \* paginationByChannel[c]
    loaded,         \* loadedChannels[c]
    pageSeen,       \* hasMoreNewer of paginationRef: page as of the last render
    drops, deletes,
    broken          \* something has cost the list its order since it was replaced

serverSide == <<saved, sentIds, pushing>>
wireSide == <<online, inbox, lost, pending, atServer, snapshot>>
listSide == <<list, page, loaded, pageSeen>>
messageVars == <<serverSide, wireSide, listSide, drops, deletes, broken>>

NoPage == [known |-> FALSE, cursor |-> 0, hasMore |-> FALSE, loadingMore |-> FALSE,
           newer |-> 0, hasMoreNewer |-> FALSE, loadingNewer |-> FALSE]

NoAnswer == [ids |-> <<>>, cursor |-> 0, hasMore |-> FALSE, newer |-> 0,
             hasMoreNewer |-> FALSE]

\* What the hub sends: a message by its id, or an answer.
Frame(kind, id, answer) == [kind |-> kind, id |-> id, answer |-> answer]

MessageInit ==
    /\ saved = 1..History /\ sentIds = History /\ pushing = 0
    /\ online = TRUE /\ inbox = <<>> /\ lost = {} /\ pending = <<>> /\ atServer = "new"
    /\ snapshot = NoAnswer
    /\ list = <<>> /\ page = NoPage /\ loaded = FALSE /\ pageSeen = FALSE
    /\ drops = 0 /\ deletes = 0 /\ broken = FALSE

\* The members of a finite set of numbers, in order: the k-th has k - 1 below it.
Ids(S) == [k \in 1..Cardinality(S) |->
             CHOOSE m \in S : Cardinality({x \in S : x < m}) = k - 1]
Newest(S) == {m \in S : Cardinality({x \in S : x > m}) < PageSize}
Oldest(S) == {m \in S : Cardinality({x \in S : x < m}) < PageSize}

\* A page backwards from the cursor, or from the tail when there is none.
GetMessages(cursor) ==
    LET older == {m \in saved : cursor = 0 \/ m < cursor}
        ids   == Ids(Newest(older))
        more  == Cardinality(older) > PageSize
    IN  [ids |-> ids, cursor |-> IF more THEN Head(ids) ELSE 0, hasMore |-> more,
         newer |-> 0, hasMoreNewer |-> FALSE]

\* A page forwards from the cursor.
GetMessagesAfter(cursor) ==
    LET newer == {m \in saved : m > cursor}
        ids   == Ids(Oldest(newer))
        more  == Cardinality(newer) > PageSize
    IN  [ids |-> ids, cursor |-> 0, hasMore |-> FALSE,
         newer |-> IF more THEN Last(ids) ELSE 0, hasMoreNewer |-> more]

\* A window: a page that ends with the anchor and one that follows it.
GetMessagesAround(anchor) ==
    LET upTo  == {m \in saved : m <= anchor}
        after == {m \in saved : m > anchor}
        old   == Ids(Newest(upTo))
        new   == Ids(Oldest(after))
    IN  [ids |-> old \o new,
         hasMore |-> Cardinality(upTo) > PageSize,
         cursor |-> IF Cardinality(upTo) > PageSize THEN Head(old) ELSE 0,
         hasMoreNewer |-> Cardinality(after) > PageSize,
         newer |-> IF Cardinality(after) > PageSize THEN Last(new) ELSE 0]

-----------------------------------------------------------------------------
(* The hub *)

\* sendMessage saves first and pushes at the end.  Both are on the Run loop;
\* what runs off the loop may read between them.
SaveMessage ==
    /\ sentIds < MaxMessages /\ pushing = 0
    /\ sentIds' = sentIds + 1 /\ saved' = saved \union {sentIds'} /\ pushing' = sentIds'
    /\ UNCHANGED <<wireSide, listSide, drops, deletes, broken>>

\* What the hub pushes to a client that is away is lost, and so is what finds
\* its queue full; nobody asks again.
PushMessage ==
    /\ pushing # 0 /\ pushing' = 0
    /\ inbox' = IF online THEN Append(inbox, Frame("message", pushing, NoAnswer))
                          ELSE inbox
    /\ \/ lost' = lost
       \/ online /\ lost' = lost \union {pushing}
    /\ broken' = (broken \/ ~online)
    /\ UNCHANGED <<saved, sentIds, online, pending, atServer, snapshot, listSide, drops,
                   deletes>>

\* Another member deletes a message: nothing is pushed.
DeletedElsewhere(m) ==
    /\ m \in saved /\ pushing = 0 /\ saved' = saved \ {m}
    /\ deletes < MaxDeletes /\ deletes' = deletes + 1
    /\ UNCHANGED <<sentIds, pushing, wireSide, listSide, drops, broken>>

Asked(op) == online /\ pending # <<>> /\ Head(pending).op = op

Answers(kind, answer) ==
    inbox' = Append(inbox, Frame(kind, 0, answer))

\* The commands the Run loop carries out itself.
ServeGetMessages ==
    /\ pending # <<>> /\ Head(pending).op \in {"first", "older", "tail", "reload"}
    /\ online /\ atServer = "new" /\ pushing = 0
    /\ Answers("page", GetMessages(Head(pending).arg)) /\ atServer' = "done"
    /\ UNCHANGED <<serverSide, online, lost, pending, snapshot, listSide, drops, deletes,
                   broken>>

\* deleteMessage: an error has an answer, a deletion has none.
ServeDelete ==
    /\ Asked("delete") /\ atServer = "new" /\ pushing = 0 /\ atServer' = "done"
    /\ IF Head(pending).arg \in saved
       THEN saved' = saved \ {Head(pending).arg} /\ inbox' = inbox
       ELSE saved' = saved /\ Answers("refusal", NoAnswer)
    /\ UNCHANGED <<sentIds, pushing, online, lost, pending, snapshot, listSide, drops, deletes,
                   broken>>

\* getMessagesAround and getMessagesAfter read on a goroutine ...
ReadAside ==
    /\ Asked("around") \/ Asked("after")
    /\ atServer = "new" /\ atServer' = "read"
    /\ snapshot' = IF Head(pending).op = "after" THEN GetMessagesAfter(Head(pending).arg)
                                                 ELSE GetMessagesAround(Head(pending).arg)
    /\ UNCHANGED <<serverSide, online, inbox, lost, pending, listSide, drops, deletes, broken>>

\* ... and answer when they get to it: a window whose anchor is gone is refused.
AnswerAside ==
    /\ atServer = "read" /\ atServer' = "done"
    /\ IF Asked("around") /\ ~Contains(snapshot.ids, Head(pending).arg)
       THEN Answers("refusal", NoAnswer)
       ELSE Answers("page", snapshot)
    /\ UNCHANGED <<serverSide, online, lost, pending, snapshot, listSide, drops, deletes,
                   broken>>

-----------------------------------------------------------------------------
(* What the client asks for *)

\* React has rendered what was set: the ref, the buttons and the observers of
\* MessageList show it.
Rendered == pageSeen = page.hasMoreNewer

Render ==
    /\ ~Rendered /\ pageSeen' = page.hasMoreNewer
    /\ UNCHANGED <<serverSide, wireSide, list, page, loaded, drops, deletes, broken>>

Requests(op, arg) ==
    /\ online /\ Rendered /\ Len(pending) < MaxPending
    /\ pending' = Append(pending, [op |-> op, arg |-> arg, stale |-> FALSE])

\* The lazy load of a channel opened for the first time.
LoadFirst ==
    /\ ~loaded /\ Requests("first", 0)
    /\ UNCHANGED <<serverSide, online, inbox, lost, atServer, snapshot, listSide, drops,
                   deletes, broken>>

LoadOlderMessages ==
    /\ page.hasMore /\ ~page.loadingMore /\ page.cursor # 0
    /\ Requests("older", page.cursor)
    /\ page' = [page EXCEPT !.loadingMore = TRUE]
    /\ UNCHANGED <<serverSide, online, inbox, lost, atServer, snapshot, list, loaded, pageSeen,
                   drops, deletes, broken>>

LoadNewerMessages ==
    /\ page.hasMoreNewer /\ ~page.loadingNewer /\ page.newer # 0
    /\ Requests("after", page.newer)
    /\ page' = [page EXCEPT !.loadingNewer = TRUE]
    /\ UNCHANGED <<serverSide, online, inbox, lost, atServer, snapshot, list, loaded, pageSeen,
                   drops, deletes, broken>>

\* A search hit, a reply or a notification that is not in the list.
JumpToMessage(m) ==
    /\ ~Contains(list, m) /\ Requests("around", m) /\ loaded' = TRUE
    /\ UNCHANGED <<serverSide, online, inbox, lost, atServer, snapshot, list, page, pageSeen,
                   drops, deletes, broken>>

\* The user comes back to a channel left in a window, or jumps to the latest.
ResetToLiveTail ==
    /\ page.hasMoreNewer /\ Requests("tail", 0)
    /\ UNCHANGED <<serverSide, online, inbox, lost, atServer, snapshot, listSide, drops,
                   deletes, broken>>

Without(s, m) ==
    LET kept == Ids({i \in 1..Len(s) : s[i] # m})
    IN  [k \in 1..Len(kept) |-> s[kept[k]]]

\* The message leaves the list before the server is asked.
HandleDeleteMessage(m) ==
    /\ Contains(list, m) /\ Requests("delete", m)
    /\ list' = Without(list, m)
    /\ deletes < MaxDeletes /\ deletes' = deletes + 1
    /\ UNCHANGED <<serverSide, online, inbox, lost, atServer, snapshot, page, loaded, pageSeen,
                   drops, broken>>

-----------------------------------------------------------------------------
(* What reaches the client *)

Arrives(kind) == inbox # <<>> /\ Head(inbox).kind = kind

\* Bug: a live message joins whatever is shown.
AppendMessageAlways(m) == list' = Append(list, m)

\* A window is not the live tail: the message waits for its page.
AppendMessage(m) == list' = IF pageSeen THEN list ELSE Append(list, m)

ReceiveMessage ==
    /\ Arrives("message") /\ Head(inbox).id \notin lost /\ inbox' = Tail(inbox)
    /\ AppendMessage(Head(inbox).id)
    /\ broken' = (broken \/ ~Rendered)
    /\ UNCHANGED <<serverSide, online, lost, pending, atServer, snapshot, page, loaded,
                   pageSeen, drops, deletes>>

\* The place of a message that is not there: a window can do without it.
MissMessage ==
    /\ Arrives("message") /\ Head(inbox).id \in lost /\ inbox' = Tail(inbox)
    /\ lost' = lost \ {Head(inbox).id} /\ list' = list
    /\ broken' = (broken \/ ~Rendered \/ ~pageSeen)
    /\ UNCHANGED <<serverSide, online, pending, atServer, snapshot, page, loaded, pageSeen,
                   drops, deletes>>

\* The head of the queue is settled; a page asked for against a list that has
\* been replaced since is out of place.
Settle(replaced) ==
    /\ inbox' = Tail(inbox) /\ atServer' = "new" /\ snapshot' = NoAnswer
    /\ pending' = [i \in 1..(Len(pending) - 1) |->
                     [pending[i + 1] EXCEPT !.stale = @ \/ replaced]]

\* Messages still to reach the list.
ToCome == {inbox[i].id : i \in {j \in 1..Len(inbox) : inbox[j].kind = "message"}}
              \union ({pushing} \ {0})

\* A page read aside that ends at the tail fits only if no message it holds is
\* still to come, and none it lacks has gone by.
FitsTail(ask, answer) ==
    \/ ask.op \notin {"around", "after"} \/ answer.hasMoreNewer
    \/ /\ ToSet(answer.ids) \intersect ToCome = {}
       /\ \A m \in saved \ ToCome : m > ask.arg => Contains(answer.ids, m)

\* The page read replaces the list and its pagination.
ReceiveWindow ==
    /\ Arrives("page") /\ Head(pending).op \in {"first", "tail", "around"}
    /\ LET answer == Head(inbox).answer
       IN  /\ list' = answer.ids
           /\ page' = [NoPage EXCEPT !.known = TRUE, !.cursor = answer.cursor,
                         !.hasMore = answer.hasMore, !.newer = answer.newer,
                         !.hasMoreNewer = answer.hasMoreNewer]
           /\ broken' = ~FitsTail(Head(pending), answer)
    /\ loaded' = TRUE /\ Settle(TRUE)
    /\ UNCHANGED <<serverSide, online, lost, pageSeen, drops, deletes>>

\* A page in front of the list.
ReceiveOlder ==
    /\ Arrives("page") /\ Asked("older")
    /\ LET answer == Head(inbox).answer
       IN  /\ list' = answer.ids \o list
           /\ page' = [page EXCEPT !.cursor = answer.cursor, !.hasMore = answer.hasMore,
                                   !.loadingMore = FALSE]
    /\ broken' = (broken \/ Head(pending).stale)
    /\ Settle(FALSE)
    /\ UNCHANGED <<serverSide, online, lost, loaded, pageSeen, drops, deletes>>

\* A page behind the window; it may reach the tail.
ReceiveNewer ==
    /\ Arrives("page") /\ Asked("after")
    /\ LET answer == Head(inbox).answer
       IN  /\ list' = list \o answer.ids
           /\ page' = [page EXCEPT !.newer = answer.newer,
                          !.hasMoreNewer = answer.hasMoreNewer, !.loadingNewer = FALSE]
           /\ broken' = (broken \/ Head(pending).stale
                            \/ ~FitsTail(Head(pending), answer))
    /\ Settle(FALSE)
    /\ UNCHANGED <<serverSide, online, lost, loaded, pageSeen, drops, deletes>>

\* A refused jump leaves the channel marked as loaded.
ReceiveNotFound ==
    /\ Arrives("refusal") /\ Asked("around") /\ Settle(FALSE)
    /\ UNCHANGED <<serverSide, online, lost, listSide, drops, deletes, broken>>

\* A delete that fails, or is answered by nothing for ten seconds, reloads the
\* list behind whatever else waits.
DeleteFails ==
    /\ Asked("delete") /\ atServer = "done"
    /\ \/ Arrives("refusal") /\ inbox' = Tail(inbox)
       \/ inbox' = inbox /\ \A i \in 1..Len(inbox) : inbox[i].kind # "refusal"
    /\ pending' = Append(Tail(pending), [op |-> "reload", arg |-> 0, stale |-> FALSE])
    /\ atServer' = "new"
    /\ UNCHANGED <<serverSide, online, lost, snapshot, listSide, drops, deletes, broken>>

\* The reload replaces the list and leaves the pagination of the old one.
ReceiveReload ==
    /\ Arrives("page") /\ Asked("reload")
    /\ list' = Head(inbox).answer.ids /\ broken' = TRUE
    /\ Settle(TRUE)
    /\ UNCHANGED <<serverSide, online, lost, page, loaded, pageSeen, drops, deletes>>

\* The connection is lost with all that was under way; the commands fail.
DropSocket ==
    /\ online /\ drops < MaxDrops /\ drops' = drops + 1 /\ online' = FALSE
    /\ inbox' = <<>> /\ lost' = {} /\ pending' = <<>> /\ atServer' = "new"
    /\ page' = [page EXCEPT !.loadingMore = FALSE, !.loadingNewer = FALSE]
    /\ broken' = (broken \/ ToCome \ {pushing} # {}
                     \/ \E i \in 1..Len(pending) : pending[i].op = "delete")
    /\ snapshot' = NoAnswer
    /\ UNCHANGED <<serverSide, list, loaded, pageSeen, deletes>>

RestoreSocket ==
    /\ ~online /\ online' = TRUE
    /\ UNCHANGED <<serverSide, inbox, lost, pending, atServer, snapshot, listSide, drops,
                   deletes, broken>>

MessageNext ==
    \/ SaveMessage \/ PushMessage \/ ServeGetMessages \/ ServeDelete
    \/ ReadAside \/ AnswerAside \/ Render
    \/ LoadFirst \/ LoadOlderMessages \/ LoadNewerMessages \/ ResetToLiveTail
    \/ \E m \in 1..MaxMessages :
          DeletedElsewhere(m) \/ (m <= sentIds /\ JumpToMessage(m)) \/ HandleDeleteMessage(m)
    \/ ReceiveMessage \/ MissMessage \/ ReceiveWindow \/ ReceiveOlder \/ ReceiveNewer
    \/ ReceiveNotFound \/ ReceiveReload \/ DeleteFails
    \/ DropSocket \/ RestoreSocket

-----------------------------------------------------------------------------
(* Properties *)

\* What the pagination says the list holds.
Covered ==
    {m \in 1..sentIds : /\ page.hasMore => m >= page.cursor
                        /\ IF page.hasMoreNewer THEN m <= page.newer ELSE m \notin ToCome}

BeingDeleted == {pending[i].arg : i \in {j \in 1..Len(pending) : pending[j].op = "delete"}}

\* The list is a stretch of the channel without a hole: in order, each message
\* once, every message between the two cursors, and the whole tail when no
\* newer page is announced (useMessages.ts).  Six things break that until the
\* list is replaced: a page that finds another list than it was asked for, a
\* page read off the Run loop that a live message passed, a message between an
\* answer and its render, one a full queue dropped, the reload after a delete,
\* and a lost connection.
Contiguous ==
    page.known /\ ~broken =>
        /\ \A i, j \in 1..Len(list) : i < j => list[i] < list[j]
        /\ ToSet(list) \subseteq Covered
        /\ (saved \intersect Covered) \ BeingDeleted \subseteq ToSet(list)

(***************************************************************************)
(* Why: what an answer on its way holds, when it was asked for and what is *)
(* still to come behind it.                                                *)
(***************************************************************************)

Answer == [ids : Seq(Nat), cursor : Nat, hasMore : BOOLEAN, newer : Nat, hasMoreNewer : BOOLEAN]
Command == [op : {"first", "older", "tail", "reload", "around", "after", "delete"},
            arg : Nat, stale : BOOLEAN]
Pagination == [known : BOOLEAN, cursor : Nat, hasMore : BOOLEAN, loadingMore : BOOLEAN,
               newer : Nat, hasMoreNewer : BOOLEAN, loadingNewer : BOOLEAN]

WireTypeOK ==
    /\ sentIds \in Nat /\ saved \subseteq 1..sentIds /\ pushing \in {0, sentIds}
    /\ online \in BOOLEAN /\ pending \in Seq(Command)
    /\ inbox \in Seq([kind : {"message", "page", "refusal"}, id : Nat, answer : Answer])
    /\ atServer \in {"new", "read", "done"} /\ snapshot \in Answer

ListTypeOK ==
    /\ list \in Seq(Nat) /\ page \in Pagination
    /\ loaded \in BOOLEAN /\ pageSeen \in BOOLEAN /\ broken \in BOOLEAN

MessageTypeOK == WireTypeOK /\ ListTypeOK

Rising(s) == \A i, j \in 1..Len(s) : i < j => s[i] < s[j]
IsMessage(i) == inbox[i].kind = "message"

\* Ids come in the order they were given, and none is skipped.
StreamInv ==
    /\ \A i \in 1..Len(inbox) : IsMessage(i) =>
          inbox[i].id \in 1..sentIds /\ (pushing # 0 => inbox[i].id < pushing)
    /\ \A i, j \in 1..Len(inbox) :
          i < j /\ IsMessage(i) /\ IsMessage(j) => inbox[i].id < inbox[j].id
    /\ \A m \in ToCome : m..sentIds \subseteq ToCome
    /\ ~online => inbox = <<>> /\ pending = <<>> /\ atServer = "new"

\* One answer at a time, to the head of the queue.
CommandInv ==
    /\ \A i \in 1..Len(pending) :
          LET ask == pending[i] IN
            /\ ask.arg <= sentIds
            /\ ask.op = "older" => ask.arg # 0
            /\ ask.op \in {"first", "tail", "reload"} => ask.arg = 0
    /\ atServer # "new" => pending # <<>>
    /\ atServer = "read" => Head(pending).op \in {"around", "after"}
    /\ \A i \in 1..Len(inbox) : ~IsMessage(i) =>
          /\ atServer = "done"
          /\ inbox[i].kind = "page" => Head(pending).op # "delete"
          /\ \A j \in 1..Len(inbox) : ~IsMessage(j) => i = j
    /\ Asked("delete") /\ atServer = "done" => Head(pending).arg \notin saved

\* Messages that reach the client after frame i.
Behind(i) == {inbox[j].id : j \in {k \in (i + 1)..Len(inbox) : IsMessage(k)}}
                 \union ({pushing} \ {0})

\* What answer a to ask claims to hold of the messages rows.
Spanned(a, ask, behind, rows) ==
    {m \in rows : /\ a.hasMore => a.cursor <= m
                  /\ a.hasMoreNewer => m <= a.newer
                  /\ ask.op \in {"first", "tail", "reload"} => m \notin behind
                  /\ ask.op = "older" => m < ask.arg
                  /\ ask.op = "after" => ask.arg < m /\ a.hasMoreNewer
                  /\ ask.op = "around" => m <= ask.arg \/ a.hasMoreNewer}

AnswerRight(a, ask, behind, rows, last) ==
    /\ Rising(a.ids) /\ ToSet(a.ids) \subseteq 1..last
    /\ Spanned(a, ask, behind, rows) \subseteq ToSet(a.ids)
    /\ a.hasMore => a.cursor \in ToSet(a.ids) /\ \A m \in ToSet(a.ids) : a.cursor <= m
    /\ a.hasMoreNewer =>
          /\ a.newer \in ToSet(a.ids) /\ \A m \in ToSet(a.ids) : m <= a.newer
          /\ \A m \in behind : a.newer < m
    /\ ask.op \in {"first", "tail", "reload"} =>
          ~a.hasMoreNewer /\ ToSet(a.ids) \intersect behind = {}
    /\ ask.op = "older" => ~a.hasMoreNewer /\ \A m \in ToSet(a.ids) : m < ask.arg
    /\ ask.op = "after" => ~a.hasMore /\ \A m \in ToSet(a.ids) : ask.arg < m

AnswersInv ==
    /\ \A i \in 1..Len(inbox) : inbox[i].kind = "page" =>
          AnswerRight(inbox[i].answer, Head(pending), Behind(i), saved, sentIds)
    /\ atServer = "read" =>
          AnswerRight(snapshot, Head(pending), {pushing} \ {0}, saved, sentIds)

\* The pagination of a list in order, and the pages asked for at its ends.
PageInv ==
    /\ ToSet(list) \subseteq 1..sentIds
    /\ page.hasMore => page.cursor <= sentIds
    /\ page.hasMoreNewer => page.newer <= sentIds /\ \A m \in ToCome : page.newer < m
    /\ page.known /\ ~broken /\ page.hasMore =>
          /\ page.cursor # 0 /\ \A m \in ToCome : page.cursor < m
          /\ page.hasMoreNewer => page.cursor <= page.newer

Standing(op) == {i \in 1..Len(pending) : pending[i].op = op /\ ~pending[i].stale}
AskedInv ==
    ~broken =>
        /\ \A i \in Standing("older") :
              /\ page.hasMore /\ page.loadingMore /\ pending[i].arg = page.cursor
              /\ \A j \in Standing("older") : i = j
        /\ \A i \in Standing("after") :
              /\ page.hasMoreNewer /\ page.loadingNewer /\ pending[i].arg = page.newer
              /\ \A j \in Standing("after") : i = j

WireInv == WireTypeOK /\ StreamInv /\ CommandInv /\ AnswersInv
ListInv == ListTypeOK /\ PageInv /\ AskedInv /\ Contiguous
MessageInv == WireInv /\ ListInv

\* A delete the hub has carried out is answered (docs/api.md: "ack").
DeleteIsAcked ==
    Asked("delete") /\ atServer = "done" =>
        \E i \in 1..Len(inbox) : inbox[i].kind # "message"
=============================================================================
