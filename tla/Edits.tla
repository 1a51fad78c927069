--------------------------------- MODULE Edits ---------------------------------
(***************************************************************************)
(* Correcting a message: the editor of components/MessageList.tsx, the     *)
(* hub's editMessage, and the list and the quotes of hooks/useMessages.ts, *)
(* which change only by the event message_edited.  Message 2 replies to    *)
(* message 1 and quotes it; both are the user's own.  A text is the number *)
(* of the save that wrote it.                                              *)
(*                                                                         *)
(* Pages of get_messages are read and pushed on the hub's Run loop like    *)
(* the edits; those of a jump or a scroll down are read beside it.         *)
(***************************************************************************)
EXTENDS Naturals, Sequences

CONSTANTS
    MaxSaves,       \* bound: texts saved
    MaxPages,       \* bound: pages asked for
    MaxCutOffs          \* bound: connections lost

Messages == {1, 2}
Unloaded == [text |-> 0, quote |-> 0, loaded |-> FALSE]

VARIABLES
    contents,       \* messages.content, by message
    rows,           \* the rows shown, by message
    editingId,      \* the message in the editor, or 0
    isSaving,       \* the save this editor waits for, or 0
    toEdit,         \* editMessage commands under way: [message, text]
    besides,        \* <<a page read beside the Run loop, not pushed yet>>, or <<>>
    editFrames,     \* events and answers on the way to the client
    acked,          \* the newest text acknowledged, by message
    saves, pages, cutOffs,
    doubtful        \* an edit was told to nobody, or not to this list

editVars == <<contents, rows, editingId, isSaving, toEdit, besides, editFrames, acked,
              saves, pages, cutOffs, doubtful>>

EditInit ==
    /\ contents = [m \in Messages |-> 0] /\ rows = [m \in Messages |-> Unloaded]
    /\ editingId = 0 /\ isSaving = 0 /\ toEdit = <<>> /\ besides = <<>> /\ editFrames = <<>>
    /\ acked = [m \in Messages |-> 0] /\ saves = 0 /\ pages = 0 /\ cutOffs = 0
    /\ doubtful = FALSE

Row(m) == [text |-> contents[m], quote |-> IF m = 2 THEN contents[1] ELSE 0, loaded |-> TRUE]
Page(ms, whole) ==
    [kind |-> "page", whole |-> whole,
     rows |-> [m \in Messages |-> IF m \in ms THEN Row(m) ELSE Unloaded]]

-----------------------------------------------------------------------------
(* The editor *)

\* The menu's item; another message's editor is replaced.
StartEditing(m) ==
    /\ rows[m].loaded /\ editingId # m
    /\ editingId' = m /\ isSaving' = 0
    /\ UNCHANGED <<contents, rows, toEdit, besides, editFrames, acked, saves, pages, cutOffs, doubtful>>

\* Esc, Cancel, and a save of the text as it was.
CloseEditor ==
    /\ editingId # 0 /\ isSaving = 0 /\ editingId' = 0
    /\ UNCHANGED <<contents, rows, isSaving, toEdit, besides, editFrames, acked, saves,
                   pages, cutOffs,
                   doubtful>>

\* save, handleEditMessage: the list is not touched.
Save ==
    /\ editingId # 0 /\ isSaving = 0
    /\ saves < MaxSaves /\ saves' = saves + 1 /\ isSaving' = saves'
    /\ toEdit' = Append(toEdit, [message |-> editingId, text |-> saves'])
    /\ UNCHANGED <<contents, rows, editingId, besides, editFrames, acked, pages, cutOffs,
                   doubtful>>

-----------------------------------------------------------------------------
(* The hub *)

\* Every refusal of editMessage and of the storage's EditMessage.
RefuseEdit ==
    /\ toEdit # <<>> /\ toEdit' = Tail(toEdit)
    /\ \E fatal \in BOOLEAN : editFrames' =
         Append(editFrames, [kind |-> "refused", fatal |-> fatal, of |-> Head(toEdit)])
    /\ UNCHANGED <<contents, rows, editingId, isSaving, besides, acked, saves, pages, cutOffs, doubtful>>

EditedEvent(e) == [kind |-> "edited", of |-> e]
Acked(e) == [kind |-> "ack", of |-> e]

\* Bug: the author's answer is pushed before the event.
TellAckFirst(e) == editFrames' = editFrames \o <<Acked(e), EditedEvent(e)>>

\* The members, the author among them, are told first.
Tell(e) == editFrames' = editFrames \o <<EditedEvent(e), Acked(e)>>

EditMessage ==
    /\ toEdit # <<>> /\ toEdit' = Tail(toEdit)
    /\ contents' = [contents EXCEPT ![Head(toEdit).message] = Head(toEdit).text]
    /\ \/ Tell(Head(toEdit)) /\ doubtful' = (doubtful \/ besides # <<>>)
       \/ editFrames' = Append(editFrames, Acked(Head(toEdit))) /\ doubtful' = TRUE
    /\ UNCHANGED <<rows, editingId, isSaving, besides, acked, saves, pages, cutOffs>>

\* getMessages: the tail, or the page above what is loaded.
GetPage(ms, whole) ==
    /\ pages < MaxPages /\ pages' = pages + 1
    /\ editFrames' = Append(editFrames, Page(ms, whole))
    /\ UNCHANGED <<contents, rows, editingId, isSaving, toEdit, besides, acked, saves,
                   cutOffs, doubtful>>

\* getMessagesAround, getMessagesAfter
ReadBesides(ms, whole) ==
    /\ besides = <<>> /\ pages < MaxPages /\ pages' = pages + 1
    /\ besides' = <<Page(ms, whole)>>
    /\ UNCHANGED <<contents, rows, editingId, isSaving, toEdit, editFrames, acked, saves,
                   cutOffs, doubtful>>
PushBesides ==
    /\ besides # <<>> /\ besides' = <<>> /\ editFrames' = Append(editFrames, Head(besides))
    /\ UNCHANGED <<contents, rows, editingId, isSaving, toEdit, acked, saves, pages, cutOffs, doubtful>>

-----------------------------------------------------------------------------
(* The client *)

\* onMessageEdited: the row, and the quotes of it.
PatchRow(e) ==
    [m \in Messages |->
       IF ~rows[m].loaded THEN rows[m]
       ELSE IF m = e.message THEN [rows[m] EXCEPT !.text = e.text]
       ELSE IF e.message = 1 THEN [rows[m] EXCEPT !.quote = e.text] ELSE rows[m]]

\* A window or the tail replaces the list; a page adds to it.
Place(p) ==
    IF p.whole THEN p.rows
    ELSE [m \in Messages |-> IF rows[m].loaded THEN rows[m] ELSE p.rows[m]]

\* The promise of one save settles.  onClose() closes what is open by then;
\* only the error stays with the editor it came from.
Arrive ==
    /\ editFrames # <<>> /\ editFrames' = Tail(editFrames)
    /\ LET e == Head(editFrames) IN
       \/ /\ e.kind = "edited" /\ rows' = PatchRow(e.of)
          /\ UNCHANGED <<editingId, isSaving, acked>>
       \/ /\ e.kind = "page" /\ rows' = Place(e)
          /\ editingId' = (IF editingId # 0 /\ rows'[editingId].loaded THEN editingId ELSE 0)
          /\ isSaving' = (IF editingId' = 0 THEN 0 ELSE isSaving) /\ UNCHANGED acked
       \/ /\ e.kind = "ack" /\ acked' = [acked EXCEPT ![e.of.message] = e.of.text]
          /\ editingId' = 0 /\ isSaving' = 0 /\ UNCHANGED rows
       \/ /\ e.kind = "refused" /\ e.fatal
          /\ editingId' = 0 /\ isSaving' = 0 /\ UNCHANGED <<rows, acked>>
       \/ /\ e.kind = "refused" /\ ~e.fatal
          /\ isSaving' = (IF isSaving = e.of.text THEN 0 ELSE isSaving)
          /\ UNCHANGED <<rows, editingId, acked>>
    /\ UNCHANGED <<contents, toEdit, besides, saves, pages, cutOffs, doubtful>>

\* The connection is lost and restored: a save under way is refused inline,
\* and may be stored; the list stays as it is.
LoseConnection ==
    /\ cutOffs < MaxCutOffs /\ cutOffs' = cutOffs + 1
    /\ toEdit' = <<>> /\ besides' = <<>> /\ editFrames' = <<>> /\ isSaving' = 0
    /\ \/ UNCHANGED contents
       \/ /\ toEdit # <<>>
          /\ contents' = [contents EXCEPT ![Head(toEdit).message] = Head(toEdit).text]
    /\ doubtful' = (\/ doubtful \/ contents' # contents
                    \/ \E i \in DOMAIN editFrames : editFrames[i].kind = "edited")
    /\ UNCHANGED <<rows, editingId, acked, saves, pages>>

EditNext ==
    \/ \E m \in Messages : StartEditing(m)
    \/ CloseEditor \/ Save \/ RefuseEdit \/ EditMessage
    \/ \E ms \in SUBSET Messages, whole \in BOOLEAN :
         GetPage(ms, whole) \/ ReadBesides(ms, whole)
    \/ PushBesides \/ Arrive \/ LoseConnection

-----------------------------------------------------------------------------
(* Properties *)

\* The editor of a saved message closes on the new text, never on the old
\* one (MessageList.tsx: "the event message_edited updates the content, the
\* editor just closes"), and with nothing on the way what is shown is what is
\* stored, in the row and in the quote beside it.  Except after a page read
\* beside the Run loop met an edit, an event was lost, or the hub could not
\* list the members: the list then keeps the old text until it is reloaded.
EditsAreShown ==
    ~doubtful => \A m \in Messages : rows[m].loaded =>
        /\ rows[m].text >= acked[m]
        /\ editFrames = <<>> => rows[m] = Row(m)
=============================================================================
