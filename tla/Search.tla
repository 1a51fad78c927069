------------------------------- MODULE Search --------------------------------
(***************************************************************************)
(* The results of a message search (hooks/useMessageSearch.ts,             *)
(* components/SearchPanel.tsx, ChatSocket.searchMessages).                 *)
(*                                                                         *)
(* The commands of one socket are answered in the order they are sent.     *)
(* A page of results is <<search, number>>: the hits the server has for    *)
(* that search behind as many pages; a cursor only says how far to skip.   *)
(***************************************************************************)
EXTENDS Naturals, Sequences

CONSTANTS
    Texts,          \* what the query and the filters may say
    Rooms,          \* channels of one server
    LastPage,       \* pages the server has for every search
    MaxSearches,    \* bound: commands sent
    MaxTurns        \* bound: changes of query, scope and channel

ASSUME SearchAssumption == LastPage \in Nat

VARIABLES
    query, scope, room,
    hits,           \* the pages shown
    cursor,         \* the page to ask for next, 0 for no cursor
    hasMore, searching, searchingMore,
    requestSeq,
    sent,           \* the commands not yet answered
    searches, turns,
    drifted         \* the inputs or the channel changed under the shown results

searchVars == <<query, scope, room, hits, cursor, hasMore, searching, searchingMore,
                requestSeq, sent, searches, turns, drifted>>

SearchInit ==
    /\ query \in Texts /\ scope = "channel" /\ room \in Rooms
    /\ hits = <<>> /\ cursor = 0 /\ hasMore = FALSE
    /\ searching = FALSE /\ searchingMore = FALSE /\ requestSeq = 0 /\ sent = <<>>
    /\ searches = 0 /\ turns = 0 /\ drifted = FALSE

Searched == [text |-> query, scope |-> scope, of |-> IF scope = "channel" THEN room ELSE 0]

\* A page that will be added to what is shown.
MoreComes(queue) == \E i \in DOMAIN queue : queue[i].kind = "more" /\ queue[i].seq = requestSeq

EditSearch ==
    /\ turns < MaxTurns /\ turns' = turns + 1
    /\ \/ query' \in Texts \ {query} /\ UNCHANGED scope
       \/ scope' \in {"channel", "server"} \ {scope} /\ UNCHANGED query
    /\ drifted' = (drifted \/ hits # <<>> \/ MoreComes(sent))
    /\ UNCHANGED <<room, hits, cursor, hasMore, searching, searchingMore, requestSeq, sent,
                   searches>>

\* The results of a channel are cleared with it; an answer that is on its way
\* is still taken.
SwitchChannel ==
    /\ turns < MaxTurns /\ turns' = turns + 1 /\ room' \in Rooms \ {room}
    /\ IF scope = "channel"
       THEN /\ hits' = <<>> /\ cursor' = 0 /\ hasMore' = FALSE
            /\ drifted' = MoreComes(sent)
       ELSE UNCHANGED <<hits, cursor, hasMore, drifted>>
    /\ UNCHANGED <<query, scope, searching, searchingMore, requestSeq, sent, searches>>

RequestPage(kind, page) ==
    /\ searches < MaxSearches /\ searches' = searches + 1
    /\ sent' = Append(sent, [kind |-> kind, seq |-> requestSeq',
                             search |-> Searched, page |-> page])

SubmitSearch ==
    /\ requestSeq' = requestSeq + 1 /\ RequestPage("submit", 1)
    /\ searching' = TRUE
    /\ UNCHANGED <<query, scope, room, hits, cursor, hasMore, searchingMore, turns,
                   drifted>>

\* The end of the list comes into view.  While another search is on its way
\* the page asked for is that search's, behind the cursor of the one shown.
LoadMore ==
    /\ ~searchingMore /\ hasMore /\ cursor # 0 /\ requestSeq' = requestSeq
    /\ RequestPage("more", cursor)
    /\ searchingMore' = TRUE /\ drifted' = (drifted \/ searching)
    /\ UNCHANGED <<query, scope, room, hits, cursor, hasMore, searching, turns>>

SearchSettled(r) ==
    /\ searching' = (searching /\ ~(r.kind = "submit" /\ r.seq = requestSeq))
    /\ searchingMore' = (searchingMore /\ ~(r.kind = "more" /\ r.seq = requestSeq))

\* Bug: the page of a search that another has replaced is shown as well.
ShownLate(r) ==
    /\ hits' = IF r.kind = "submit" THEN <<<<r.search, 1>>>>
               ELSE Append(hits, <<r.search, r.page>>)
    /\ hasMore' = (r.page < LastPage) /\ cursor' = IF r.page < LastPage THEN r.page + 1 ELSE 0

\* Only the answers of the newest search are shown.
Shown(r) ==
    IF r.seq # requestSeq
    THEN UNCHANGED <<hits, hasMore, cursor>>
    ELSE /\ hits' = IF r.kind = "submit" THEN <<<<r.search, 1>>>>
                    ELSE Append(hits, <<r.search, r.page>>)
         /\ hasMore' = (r.page < LastPage)
         /\ cursor' = IF r.page < LastPage THEN r.page + 1 ELSE 0

SearchAnswered ==
    /\ sent # <<>> /\ sent' = Tail(sent) /\ Shown(Head(sent)) /\ SearchSettled(Head(sent))
    /\ drifted' = IF Head(sent).kind = "submit" /\ Head(sent).seq = requestSeq
                  THEN Searched # Head(sent).search \/ MoreComes(Tail(sent))
                  ELSE drifted
    /\ UNCHANGED <<query, scope, room, requestSeq, searches, turns>>

SearchFails ==
    /\ sent # <<>> /\ sent' = Tail(sent) /\ SearchSettled(Head(sent))
    /\ UNCHANGED <<query, scope, room, hits, cursor, hasMore, requestSeq, searches, turns,
                   drifted>>

SearchNext ==
    EditSearch \/ SwitchChannel \/ SubmitSearch \/ LoadMore \/ SearchAnswered \/ SearchFails

-----------------------------------------------------------------------------
(* Properties *)

\* The results shown are those of one search, from its first page on with no
\* page left out or shown twice, and the next page asked for is the one that
\* follows, whatever searches overlapped and failed; only a change of the
\* inputs under shown results, or a page asked for while a new search was on
\* its way, may break that (useMessageSearch: "a response is applied only if
\* it's still current when it arrives").
ResultsAreOneSearch ==
    ~drifted => /\ \A i \in DOMAIN hits : hits[i] = <<hits[1][1], i>>
                /\ hasMore => cursor = Len(hits) + 1

(***************************************************************************)
(* Why the results are those of one search: at most one page is asked for  *)
(* behind them, and that page is the next one.                             *)
(***************************************************************************)

Wanted == [text : Texts, scope : {"channel", "server"}, of : Rooms \union {0}]
Sendings == [kind : {"submit", "more"}, seq : Nat, search : Wanted, page : Nat]

SearchTypeOK ==
    /\ query \in Texts /\ scope \in {"channel", "server"} /\ room \in Rooms
    /\ hits \in Seq(Wanted \X Nat) /\ cursor \in Nat /\ requestSeq \in Nat
    /\ {drifted, hasMore, searching, searchingMore} \subseteq BOOLEAN
    /\ sent \in Seq(Sendings)

\* The page asked for behind the results of the newest search.
NextPage(i) == sent[i].kind = "more" /\ sent[i].seq = requestSeq

OnePageOnItsWay ==
    /\ \A i \in DOMAIN sent : sent[i].seq <= requestSeq /\ (sent[i].kind = "submit" => sent[i].page = 1)
    /\ \A i \in DOMAIN sent : NextPage(i) => searchingMore
    /\ \A i, j \in DOMAIN sent : NextPage(i) /\ NextPage(j) => i = j

\* What is shown is the search that the inputs say, and continued by the page
\* on its way.
ShownAsWanted ==
    /\ \A i \in DOMAIN hits : hits[i] = <<Searched, i>>
    /\ hasMore => hits # <<>> /\ cursor = Len(hits) + 1
    /\ \A i \in DOMAIN sent : NextPage(i) =>
           hits # <<>> /\ sent[i].search = Searched /\ sent[i].page = Len(hits) + 1

SearchInv == SearchTypeOK /\ OnePageOnItsWay /\ (~drifted => ShownAsWanted)

=============================================================================
