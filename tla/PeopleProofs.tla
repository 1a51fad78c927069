---------------------------- MODULE PeopleProofs ----------------------------
(***************************************************************************)
(* What the frontend shows of people and conversations, for any number of  *)
(* them: the list of conversations, the results of a search, whose         *)
(* notifications reach the browser, who is typing, who is in a call and in *)
(* trouble there, the caller's servers and channels.  Each part has an     *)
(* inductive invariant of its own; what they share are queues that are     *)
(* filled at one end and emptied at the other.                             *)
(***************************************************************************)
EXTENDS ServerList, Conversations, Search, Account, Typing, VoiceRoster, SequenceTheorems,
        FiniteSetTheorems, TLAPS

-----------------------------------------------------------------------------
(* Queues *)

(* What is added goes last.                                                *)
LEMMA AppendFacts ==
  ASSUME NEW S, NEW s \in Seq(S), NEW x \in S
  PROVE  /\ Append(s, x) \in Seq(S) /\ Len(Append(s, x)) = Len(s) + 1
         /\ \A i \in DOMAIN s : i \in DOMAIN Append(s, x) /\ Append(s, x)[i] = s[i]
         /\ Len(s) + 1 \in DOMAIN Append(s, x) /\ Append(s, x)[Len(s) + 1] = x
         /\ \A i \in DOMAIN Append(s, x) : i \in Nat /\ (i \in DOMAIN s \/ i = Len(s) + 1)
         /\ \A i \in DOMAIN s : i \in Nat /\ i < Len(s) + 1
         /\ Append(s, x) # <<>>
OBVIOUS

(* What is taken is the first, and the rest keeps its order.               *)
LEMMA TailFacts ==
  ASSUME NEW S, NEW s \in Seq(S), s # <<>>
  PROVE  /\ Tail(s) \in Seq(S) /\ Head(s) = s[1] /\ 1 \in DOMAIN s /\ Head(s) \in S
         /\ Len(s) \in Nat /\ Len(Tail(s)) = Len(s) - 1
         /\ \A i \in DOMAIN Tail(s) : i \in Nat /\ i >= 1 /\ i + 1 \in DOMAIN s
              /\ Tail(s)[i] = s[i + 1]
         /\ \A i \in DOMAIN s : i \in Nat /\ (i = 1 \/ (i - 1 \in DOMAIN Tail(s)
              /\ Tail(s)[i - 1] = s[i]))
<1>1. Tail(s) \in Seq(S) /\ Head(s) \in S /\ Len(Tail(s)) = Len(s) - 1
      /\ \A i \in 1 .. Len(Tail(s)) : Tail(s)[i] = s[i+1]
  BY HeadTailProperties
<1>2. Len(s) \in Nat \ {0} /\ DOMAIN s = 1..Len(s) /\ Head(s) = s[1]
  BY EmptySeq
<1>3. DOMAIN Tail(s) = 1..(Len(s) - 1)
  BY <1>1, <1>2
<1> QED
  BY <1>1, <1>2, <1>3

-----------------------------------------------------------------------------
(* Search *)

SearchSpec == SearchInit /\ [][SearchNext]_searchVars

(* Nothing is shown and nothing asked for.                                 *)
LEMMA InitSearchInv == SearchInit => SearchInv
<1> SUFFICES ASSUME SearchInit PROVE SearchInv
  OBVIOUS
<1>1. hits = <<>> /\ sent = <<>> /\ hasMore = FALSE
  BY DEF SearchInit
<1>2. SearchTypeOK
  <2>1. hits \in Seq(Wanted \X Nat)
    BY <1>1, EmptySeq
  <2>2. sent \in Seq(Sendings)
    BY <1>1, EmptySeq
  <2> QED
    BY <2>1, <2>2 DEF SearchInit, SearchTypeOK
<1>3. OnePageOnItsWay /\ ShownAsWanted
  BY <1>1 DEF OnePageOnItsWay, ShownAsWanted
<1> QED
  BY <1>2, <1>3 DEF SearchInv

(* What the inputs say is a search.                                        *)
LEMMA SearchedIsWanted == SearchTypeOK => Searched \in Wanted
BY DEF SearchTypeOK, Searched, Wanted

(* Changing the query, the scope or the channel.                           *)
LEMMA TurnsKeepSearchInv ==
  ASSUME SearchInv, EditSearch \/ SwitchChannel
  PROVE  SearchInv'
<1> USE DEF SearchInv
<1>1. SearchTypeOK'
  <2>1. /\ query' \in Texts /\ scope' \in {"channel", "server"} /\ room' \in Rooms
        /\ hits' \in Seq(Wanted \X Nat) /\ cursor' \in Nat
        /\ UNCHANGED <<searching, searchingMore, requestSeq, sent>>
    <3>1. CASE EditSearch
      BY <3>1 DEF SearchTypeOK, EditSearch
    <3>2. CASE SwitchChannel
      <4>1. /\ query' \in Texts /\ scope' \in {"channel", "server"} /\ room' \in Rooms
            /\ UNCHANGED <<searching, searchingMore, requestSeq, sent>>
        BY <3>2 DEF SearchTypeOK, SwitchChannel
      <4>2. \/ hits' = hits /\ cursor' = cursor
            \/ hits' = <<>> /\ cursor' = 0
        BY <3>2 DEF SwitchChannel
      <4>3. hits' \in Seq(Wanted \X Nat)
        BY <4>2, EmptySeq DEF SearchTypeOK
      <4>4. cursor' \in Nat
        BY <4>2 DEF SearchTypeOK
      <4> QED
        BY <4>1, <4>3, <4>4
    <3> QED
      BY <3>1, <3>2
  <2>2. drifted' \in BOOLEAN /\ hasMore' \in BOOLEAN
    BY DEF SearchTypeOK, EditSearch, SwitchChannel, MoreComes
  <2> QED
    BY <2>1, <2>2 DEF SearchTypeOK
<1>2. OnePageOnItsWay'
  BY DEF OnePageOnItsWay, NextPage, EditSearch, SwitchChannel
<1>3. ASSUME EditSearch, ~drifted'
      PROVE  ShownAsWanted'
  <2>1. ~drifted /\ hits = <<>> /\ ~MoreComes(sent) /\ UNCHANGED <<hits, sent, requestSeq,
          hasMore>>
    BY <1>3 DEF EditSearch, SearchTypeOK
  <2>2. ~hasMore /\ \A i \in DOMAIN sent : ~NextPage(i)'
    BY <2>1 DEF ShownAsWanted, MoreComes, NextPage
  <2> QED
    BY <2>1, <2>2 DEF ShownAsWanted
<1>4. ASSUME SwitchChannel, ~drifted'
      PROVE  ShownAsWanted'
  <2>1. CASE scope = "channel"
    <3>1. /\ hits' = <<>> /\ hasMore' = FALSE /\ ~MoreComes(sent)
          /\ UNCHANGED <<sent, requestSeq>>
      BY <1>4, <2>1 DEF SwitchChannel
    <3>2. \A i \in DOMAIN sent' : ~NextPage(i)'
      BY <3>1 DEF MoreComes, NextPage
    <3> QED
      BY <3>1, <3>2 DEF ShownAsWanted
  <2>2. CASE scope # "channel"
    <3>1. UNCHANGED <<query, scope, hits, cursor, hasMore, sent, requestSeq, drifted>>
      BY <1>4, <2>2 DEF SwitchChannel
    <3>2. Searched' = Searched
      BY <2>2, <3>1 DEF Searched
    <3> QED
      BY <1>4, <3>1, <3>2 DEF ShownAsWanted, NextPage
  <2> QED
    BY <2>1, <2>2
<1> QED
  BY <1>1, <1>2, <1>3, <1>4

(* What RequestPage puts behind the commands on their way.                 *)
LEMMA RequestAdds ==
  ASSUME SearchTypeOK, requestSeq' \in Nat, NEW kind \in {"submit", "more"},
         NEW page \in Nat, RequestPage(kind, page)
  PROVE  /\ sent' \in Seq(Sendings)
         /\ \A i \in DOMAIN sent : i \in DOMAIN sent' /\ sent'[i] = sent[i]
         /\ Len(sent) + 1 \in DOMAIN sent' /\ sent'[Len(sent) + 1].kind = kind
         /\ sent'[Len(sent) + 1].seq = requestSeq' /\ sent'[Len(sent) + 1].page = page
         /\ sent'[Len(sent) + 1].search = Searched
         /\ \A i \in DOMAIN sent' : i \in Nat /\ (i \in DOMAIN sent \/ i = Len(sent) + 1)
<1> DEFINE r == [kind |-> kind, seq |-> requestSeq', search |-> Searched, page |-> page]
<1>1. sent \in Seq(Sendings) /\ r \in Sendings
  BY SearchedIsWanted DEF SearchTypeOK, Sendings
<1>2. sent' = Append(sent, r)
  BY DEF RequestPage
<1>3. r.kind = kind /\ r.seq = requestSeq' /\ r.page = page /\ r.search = Searched
  OBVIOUS
<1> HIDE DEF r
<1>4. /\ sent' \in Seq(Sendings)
      /\ \A i \in DOMAIN sent : i \in DOMAIN sent' /\ sent'[i] = sent[i]
      /\ Len(sent) + 1 \in DOMAIN sent' /\ sent'[Len(sent) + 1] = r
      /\ \A i \in DOMAIN sent' : i \in Nat /\ (i \in DOMAIN sent \/ i = Len(sent) + 1)
  BY <1>1, <1>2, AppendFacts
<1> QED
  BY <1>3, <1>4

(* A new search outdates the page on its way.                              *)
LEMMA SubmitKeepsSearchInv ==
  ASSUME SearchInv, SubmitSearch
  PROVE  SearchInv'
<1> USE DEF SearchInv
<1>1. requestSeq \in Nat /\ requestSeq' = requestSeq + 1 /\ RequestPage("submit", 1)
      /\ UNCHANGED <<query, scope, room, hits, cursor, hasMore, searchingMore, drifted>>
      /\ searching' = TRUE
  BY DEF SubmitSearch, SearchTypeOK
<1>2. /\ sent' \in Seq(Sendings)
      /\ \A i \in DOMAIN sent : i \in DOMAIN sent' /\ sent'[i] = sent[i]
      /\ sent'[Len(sent) + 1].kind = "submit" /\ sent'[Len(sent) + 1].seq = requestSeq'
      /\ sent'[Len(sent) + 1].page = 1
      /\ \A i \in DOMAIN sent' : i \in DOMAIN sent \/ i = Len(sent) + 1
  BY <1>1, RequestAdds
<1>3. \A i \in DOMAIN sent : sent[i].seq \in Nat /\ sent[i].seq <= requestSeq
                            /\ (sent[i].kind = "submit" => sent[i].page = 1)
  <2>1. \A i \in DOMAIN sent : sent[i] \in Sendings
    BY DEF SearchTypeOK
  <2> QED
    BY <2>1 DEF Sendings, OnePageOnItsWay
<1>4. \A i \in DOMAIN sent' : sent'[i].seq <= requestSeq' /\ ~NextPage(i)'
      /\ (sent'[i].kind = "submit" => sent'[i].page = 1)
  BY <1>1, <1>2, <1>3 DEF NextPage
<1>5. SearchTypeOK'
  BY <1>1, <1>2 DEF SearchTypeOK, Sendings
<1>6. OnePageOnItsWay'
  BY <1>4 DEF OnePageOnItsWay
<1>7. ~drifted' => ShownAsWanted'
  <2>1. Searched' = Searched
    BY <1>1 DEF Searched
  <2> QED
    BY <1>1, <1>4, <2>1 DEF ShownAsWanted
<1> QED
  BY <1>5, <1>6, <1>7

(* The next page is asked for once.                                        *)
LEMMA LoadMoreKeepsSearchInv ==
  ASSUME SearchInv, LoadMore
  PROVE  SearchInv'
<1> USE DEF SearchInv
<1>1. requestSeq \in Nat /\ requestSeq' = requestSeq /\ cursor \in Nat
        /\ RequestPage("more", cursor)
      /\ UNCHANGED <<query, scope, room, hits, cursor, hasMore, searching>>
      /\ searchingMore = FALSE /\ searchingMore' = TRUE /\ hasMore = TRUE
      /\ drifted' = (drifted \/ searching)
  BY DEF LoadMore, SearchTypeOK
<1> DEFINE n == Len(sent) + 1
<1>2. /\ sent' \in Seq(Sendings) /\ n \in DOMAIN sent'
      /\ \A i \in DOMAIN sent : i \in DOMAIN sent' /\ sent'[i] = sent[i]
      /\ sent'[n].kind = "more" /\ sent'[n].search = Searched /\ sent'[n].page = cursor
           /\ sent'[n].seq = requestSeq
      /\ \A i \in DOMAIN sent' : i \in DOMAIN sent \/ i = n
  BY <1>1, RequestAdds
<1> HIDE DEF n
<1>3. \A i \in DOMAIN sent : sent[i].seq <= requestSeq /\ ~NextPage(i)
                            /\ (sent[i].kind = "submit" => sent[i].page = 1)
  BY <1>1 DEF OnePageOnItsWay
<1>4. \A i \in DOMAIN sent' : sent'[i].seq <= requestSeq' /\ (NextPage(i)' => i = n)
      /\ (sent'[i].kind = "submit" => sent'[i].page = 1)
  BY <1>1, <1>2, <1>3 DEF NextPage
<1>5. SearchTypeOK'
  BY <1>1, <1>2 DEF SearchTypeOK, Sendings
<1>6. OnePageOnItsWay'
  BY <1>1, <1>4 DEF OnePageOnItsWay
<1>7. ~drifted' => ShownAsWanted'
  <2>1. Searched' = Searched
    BY <1>1 DEF Searched
  <2>2. ~drifted' => ~drifted
    BY <1>1 DEF SearchTypeOK
  <2> QED
    BY <1>1, <1>2, <1>4, <2>1, <2>2 DEF ShownAsWanted
<1> QED
  BY <1>5, <1>6, <1>7

(* What is left on its way when the first command is settled.              *)
LEMMA SettledLeaves ==
  ASSUME SearchInv, sent # <<>>, sent' = Tail(sent), requestSeq' = requestSeq,
         SearchSettled(Head(sent))
  PROVE  /\ sent[1] \in Sendings /\ Head(sent) = sent[1] /\ sent' \in Seq(Sendings)
         /\ searching' \in BOOLEAN /\ searchingMore' \in BOOLEAN
         /\ OnePageOnItsWay'
         /\ \A i \in DOMAIN sent' : i + 1 \in DOMAIN sent /\ sent'[i] = sent[i + 1]
         /\ \A i \in DOMAIN sent' : NextPage(i)' => NextPage(i + 1) /\ ~NextPage(1)
<1> USE DEF SearchInv
<1>1. /\ sent[1] \in Sendings /\ Head(sent) = sent[1] /\ sent' \in Seq(Sendings)
           /\ 1 \in DOMAIN sent
      /\ \A i \in DOMAIN sent' : i \in Nat /\ i >= 1 /\ i + 1 \in DOMAIN sent
           /\ sent'[i] = sent[i + 1]
  BY TailFacts DEF SearchTypeOK
<1>2. searching' \in BOOLEAN /\ searchingMore' \in BOOLEAN
  BY DEF SearchSettled
<1>3. ASSUME NEW i \in DOMAIN sent', NextPage(i)'
      PROVE  NextPage(i + 1) /\ ~NextPage(1)
  <2>1. NextPage(i + 1) /\ i + 1 # 1
    BY <1>1, <1>3 DEF NextPage
  <2> QED
    BY <1>1, <2>1 DEF OnePageOnItsWay
<1>4. OnePageOnItsWay'
  <2>1. \A i \in DOMAIN sent' : /\ sent'[i].seq <= requestSeq'
                                /\ sent'[i].kind = "submit" => sent'[i].page = 1
    BY <1>1 DEF OnePageOnItsWay
  <2>2. ASSUME NEW i \in DOMAIN sent', NextPage(i)'
        PROVE  searchingMore'
    <3>1. searchingMore /\ ~(sent[1].kind = "more" /\ sent[1].seq = requestSeq)
      BY <1>1, <1>3, <2>2 DEF OnePageOnItsWay, NextPage
    <3> QED
      BY <1>1, <3>1 DEF SearchSettled
  <2>3. ASSUME NEW i \in DOMAIN sent', NEW j \in DOMAIN sent', NextPage(i)', NextPage(j)'
        PROVE  i = j
    <3>1. i + 1 = j + 1
      BY <1>1, <1>3, <2>3 DEF OnePageOnItsWay
    <3> QED
      BY <1>1, <3>1
  <2> QED
    BY <2>1, <2>2, <2>3 DEF OnePageOnItsWay
<1> QED
  BY <1>1, <1>2, <1>3, <1>4

(* A command that fails leaves what is shown.                              *)
LEMMA FailingKeepsSearchInv ==
  ASSUME SearchInv, SearchFails
  PROVE  SearchInv'
<1> USE DEF SearchInv
<1>1. /\ sent # <<>> /\ sent' = Tail(sent) /\ SearchSettled(Head(sent))
      /\ UNCHANGED <<query, scope, room, hits, cursor, hasMore, requestSeq, drifted>>
  BY DEF SearchFails
<1>2. /\ sent' \in Seq(Sendings) /\ searching' \in BOOLEAN /\ searchingMore' \in BOOLEAN
      /\ OnePageOnItsWay'
      /\ \A i \in DOMAIN sent' : i + 1 \in DOMAIN sent /\ sent'[i] = sent[i + 1]
      /\ \A i \in DOMAIN sent' : NextPage(i)' => NextPage(i + 1) /\ ~NextPage(1)
  BY <1>1, SettledLeaves
<1>3. SearchTypeOK'
  BY <1>1, <1>2 DEF SearchTypeOK
<1>4. Searched' = Searched
  BY <1>1 DEF Searched
<1>5. ~drifted => ShownAsWanted'
  BY <1>1, <1>2, <1>4 DEF ShownAsWanted
<1> QED
  BY <1>1, <1>2, <1>3, <1>5

(* The answer to the newest search, or to its next page, is shown.         *)
LEMMA AnswerKeepsSearchInv ==
  ASSUME SearchInv, SearchAnswered
  PROVE  SearchInv'
<1> USE DEF SearchInv
<1> DEFINE r == sent[1]
<1>1. /\ sent # <<>> /\ sent' = Tail(sent) /\ Shown(Head(sent)) /\ SearchSettled(Head(sent))
      /\ UNCHANGED <<query, scope, room, requestSeq>>
      /\ drifted' = IF Head(sent).kind = "submit" /\ Head(sent).seq = requestSeq
                    THEN Searched # Head(sent).search \/ MoreComes(Tail(sent))
                    ELSE drifted
  BY DEF SearchAnswered
<1>2. /\ r \in Sendings /\ Head(sent) = r /\ 1 \in DOMAIN sent
      /\ sent' \in Seq(Sendings) /\ searching' \in BOOLEAN /\ searchingMore' \in BOOLEAN
      /\ OnePageOnItsWay'
      /\ \A i \in DOMAIN sent' : i + 1 \in DOMAIN sent /\ sent'[i] = sent[i + 1]
      /\ \A i \in DOMAIN sent' : NextPage(i)' => NextPage(i + 1) /\ ~NextPage(1)
  <2>1. 1 \in DOMAIN sent
    BY <1>1, TailFacts DEF SearchTypeOK
  <2> QED
    BY <1>1, <2>1, SettledLeaves
<1>3. Searched' = Searched
  BY <1>1 DEF Searched
<1>4. r.search \in Wanted /\ r.page \in Nat /\ r.kind \in {"submit", "more"}
  BY <1>2 DEF Sendings
<1>5. drifted' \in BOOLEAN
  BY <1>1 DEF SearchTypeOK, MoreComes
<1>6. CASE r.seq # requestSeq
  <2>1. UNCHANGED <<hits, hasMore, cursor, drifted>>
    BY <1>1, <1>2, <1>6 DEF Shown
  <2>2. SearchTypeOK'
    BY <1>1, <1>2, <2>1 DEF SearchTypeOK
  <2>3. ~drifted => ShownAsWanted'
    BY <1>1, <1>2, <1>3, <2>1 DEF ShownAsWanted
  <2> QED
    BY <1>2, <2>1, <2>2, <2>3
<1>7. CASE r.seq = requestSeq /\ r.kind = "submit"
  <2>1. /\ hits' = <<<<r.search, 1>>>> /\ hasMore' = (r.page < LastPage)
        /\ cursor' = IF r.page < LastPage THEN r.page + 1 ELSE 0
        /\ drifted' = (Searched # r.search \/ MoreComes(sent'))
    BY <1>1, <1>2, <1>7 DEF Shown
  <2>2. LastPage \in Nat
    BY SearchAssumption
  <2>3. <<r.search, 1>> \in Wanted \X Nat
    BY <1>4
  <2>4. hits' \in Seq(Wanted \X Nat) /\ Len(hits') = 1 /\ DOMAIN hits' = {1}
          /\ hits'[1] = <<r.search, 1>>
    BY <2>1, <2>3
  <2>5. cursor' \in Nat /\ hasMore' \in BOOLEAN /\ (hasMore' => cursor' = r.page + 1)
    <3>1. r.page \in Nat /\ (r.page < LastPage) \in BOOLEAN /\ r.page + 1 \in Nat
      BY <1>4, <2>2
    <3> HIDE DEF r
    <3>2. CASE r.page < LastPage
      BY <2>1, <3>1, <3>2
    <3>3. CASE ~(r.page < LastPage)
      BY <2>1, <3>1, <3>3
    <3> QED
      BY <3>2, <3>3
  <2>6. SearchTypeOK'
    BY <1>1, <1>2, <1>5, <2>4, <2>5 DEF SearchTypeOK
  <2>7. ASSUME ~drifted'
        PROVE  ShownAsWanted'
    <3>1. Searched = r.search /\ ~MoreComes(sent')
      BY <2>1, <2>7
    <3>2. \A i \in DOMAIN sent' : ~NextPage(i)'
      BY <1>1, <3>1 DEF MoreComes, NextPage
    <3>3. \A i \in DOMAIN hits' : hits'[i] = <<Searched', i>>
      BY <1>3, <2>4, <3>1
    <3>4. hits' # <<>>
      BY <2>4, EmptySeq
    <3>5. hasMore' => cursor' = Len(hits') + 1
      <4>1. r.page = 1
        BY <1>2, <1>7 DEF OnePageOnItsWay
      <4> QED
        BY <2>4, <2>5, <4>1
    <3> QED
      BY <3>2, <3>3, <3>4, <3>5 DEF ShownAsWanted
  <2> QED
    BY <1>2, <2>6, <2>7
<1>8. CASE r.seq = requestSeq /\ r.kind = "more"
  <2>1. /\ hits' = Append(hits, <<r.search, r.page>>) /\ hasMore' = (r.page < LastPage)
        /\ cursor' = IF r.page < LastPage THEN r.page + 1 ELSE 0
        /\ drifted' = drifted
    BY <1>1, <1>2, <1>8 DEF Shown
  <2>2. LastPage \in Nat
    BY SearchAssumption
  <2>3. <<r.search, r.page>> \in Wanted \X Nat /\ hits \in Seq(Wanted \X Nat)
    BY <1>4 DEF SearchTypeOK
  <2>4. /\ hits' \in Seq(Wanted \X Nat) /\ Len(hits') = Len(hits) + 1 /\ Len(hits) \in Nat
        /\ \A i \in DOMAIN hits : hits'[i] = hits[i]
        /\ hits'[Len(hits) + 1] = <<r.search, r.page>>
        /\ \A i \in DOMAIN hits' : i \in DOMAIN hits \/ i = Len(hits) + 1
        /\ hits' # <<>>
    BY <2>1, <2>3, AppendFacts
  <2>5. cursor' \in Nat /\ hasMore' \in BOOLEAN /\ (hasMore' => cursor' = r.page + 1)
    <3>1. r.page \in Nat /\ (r.page < LastPage) \in BOOLEAN /\ r.page + 1 \in Nat
      BY <1>4, <2>2
    <3> HIDE DEF r
    <3>2. CASE r.page < LastPage
      BY <2>1, <3>1, <3>2
    <3>3. CASE ~(r.page < LastPage)
      BY <2>1, <3>1, <3>3
    <3> QED
      BY <3>2, <3>3
  <2>6. SearchTypeOK'
    BY <1>1, <1>2, <1>5, <2>4, <2>5 DEF SearchTypeOK
  <2>7. NextPage(1)
    BY <1>8 DEF NextPage
  <2>8. ASSUME ~drifted
        PROVE  ShownAsWanted'
    <3>1. r.search = Searched /\ r.page = Len(hits) + 1
            /\ \A i \in DOMAIN hits : hits[i] = <<Searched, i>>
      BY <1>2, <2>7, <2>8 DEF ShownAsWanted
    <3>2. \A i \in DOMAIN sent' : ~NextPage(i)'
      BY <1>2, <2>7
    <3>3. \A i \in DOMAIN hits' : hits'[i] = <<Searched', i>>
      BY <1>3, <2>4, <3>1
    <3> QED
      BY <2>4, <2>5, <3>1, <3>2, <3>3 DEF ShownAsWanted
  <2> QED
    BY <1>2, <2>1, <2>6, <2>8
<1> QED
  BY <1>4, <1>6, <1>7, <1>8

(* Every step of the search panel keeps the invariant.                     *)
LEMMA NextSearchInv == SearchInv /\ [SearchNext]_searchVars => SearchInv'
<1> SUFFICES ASSUME SearchInv, [SearchNext]_searchVars PROVE SearchInv'
  OBVIOUS
<1>1. CASE UNCHANGED searchVars
  BY <1>1 DEF searchVars, SearchInv, SearchTypeOK, OnePageOnItsWay, NextPage,
       ShownAsWanted, Searched
<1> QED
  BY <1>1, TurnsKeepSearchInv, SubmitKeepsSearchInv, LoadMoreKeepsSearchInv,
     AnswerKeepsSearchInv, FailingKeepsSearchInv DEF SearchNext

(* Of the pages of a search at most the next one is asked for, and it goes *)
(* behind those of the same search (useMessageSearch.ts).                  *)
THEOREM SearchInvHolds == SearchSpec => []SearchInv
BY InitSearchInv, NextSearchInv, PTL DEF SearchSpec

(* Until the inputs change under them, the results shown are the first     *)
(* pages of one search, none left out and none twice.                      *)
THEOREM OneSearchIsShown == SearchSpec => []ResultsAreOneSearch
<1>1. SearchInv => ResultsAreOneSearch
  <2> SUFFICES ASSUME SearchInv, ~drifted PROVE ResultsAreOneSearch
    BY DEF ResultsAreOneSearch
  <2>1. ShownAsWanted /\ hits \in Seq(Wanted \X Nat)
    BY DEF SearchInv, SearchTypeOK
  <2>2. ASSUME NEW i \in DOMAIN hits
        PROVE  hits[i] = <<hits[1][1], i>>
    <3>1. hits # <<>>
      BY <2>2
    <3>2. 1 \in DOMAIN hits
      BY <2>1, <3>1, TailFacts
    <3>3. hits[1] = <<Searched, 1>> /\ hits[i] = <<Searched, i>>
      BY <2>1, <3>2 DEF ShownAsWanted
    <3> QED
      BY <3>3
  <2> QED
    BY <2>1, <2>2 DEF ResultsAreOneSearch, ShownAsWanted
<1> QED
  BY <1>1, SearchInvHolds, PTL

-----------------------------------------------------------------------------
(* Accounts and the browser's push subscription *)

AccountSpec == AccountInit /\ [][AccountNext]_accountVars

(* Nobody is signed in and nothing under way.                              *)
LEMMA InitAccountInv == AccountInit => AccountInv
<1> SUFFICES ASSUME AccountInit PROVE AccountInv
  OBVIOUS
<1>1. owner \in [Endpoints -> Accounts \union {Nobody}] /\ flows = {} /\ assured = Nobody
  BY DEF AccountInit
<1>2. /\ token = Nobody /\ inChat = FALSE /\ granted \in BOOLEAN /\ browserSub = 0
      /\ endpoints = 0 /\ pushCalls = 0 /\ crossed = FALSE
  BY DEF AccountInit
<1>3. endpoints \in 0..MaxEndpoints
  BY <1>2, AccountAssumption
<1>4. AccountTypeOK
  BY <1>1, <1>2, <1>3 DEF AccountTypeOK
<1> QED
  BY <1>1, <1>4 DEF AccountInv, GrantedFirst, OneEnd, Assured

(* Calls that begin together serve one end; crossed says whether they      *)
(* serve another one than those under way.                                 *)
LEMMA BeginKeepsOneEnd ==
  ASSUME AccountInv, NEW new \in SUBSET Calls, Begin(new), UNCHANGED browserSub,
         \A f \in new : f.at = "browser" /\ f.as = Nobody,
         \A f, g \in new : f.kind = g.kind /\ f.for = g.for,
         new # {},
         token' # Nobody => \A f \in new : f.kind = "subscribe" => f.for = token'
  PROVE  /\ flows' \subseteq Calls /\ crossed' \in BOOLEAN /\ flows' = flows \union new
         /\ ~crossed' => OneEnd'
<1> USE DEF AccountInv
<1>1. flows' = flows \union new /\ flows' \subseteq Calls /\ crossed' \in BOOLEAN
  BY DEF Begin, AccountTypeOK
<1>2. ASSUME ~crossed', flows = {}
      PROVE  OneEnd'
  BY <1>1, <1>2 DEF OneEnd
<1>3. ASSUME ~crossed', flows # {}
      PROVE  OneEnd'
  <2>1. /\ ~crossed /\ OneEnd
        /\ \A f \in flows, g \in new : f.kind = g.kind /\ f.for = g.for
    BY <1>3 DEF Begin, AccountTypeOK
  <2>2. \A f, g \in flows' : f.kind = g.kind /\ f.for = g.for
    BY <1>1, <2>1 DEF OneEnd
  <2>3. PICK n \in new : TRUE
    OBVIOUS
  <2>4. ASSUME NEW f \in flows', f.kind = "subscribe"
        PROVE  /\ token' # Nobody => f.for = token'
               /\ f.as # Nobody => f.as = f.for
               /\ f.at = "server" => f.endpoint = browserSub' /\ browserSub' # 0
    <3>1. CASE f \in new
      BY <2>4, <3>1
    <3>2. CASE f \in flows
      BY <2>1, <2>3, <2>4, <3>2 DEF OneEnd
    <3> QED
      BY <1>1, <3>1, <3>2
  <2> QED
    BY <2>2, <2>4 DEF OneEnd
<1> QED
  BY <1>1, <1>2, <1>3

(* Signing in starts a subscription for the account, with the permission.  *)
LEMMA SignInKeepsAccountInv ==
  ASSUME AccountInv, NEW u \in Accounts, SignIn(u)
  PROVE  AccountInv'
<1> USE DEF AccountInv
<1>1. /\ token' = u /\ assured' = Nobody /\ inChat' = TRUE /\ token = Nobody
      /\ UNCHANGED <<granted, browserSub, endpoints, owner>>
  BY DEF SignIn
<1>2. CASE granted
  <2> DEFINE c == [Call(pushCalls + 1, "subscribe") EXCEPT !.for = u]
  <2>1. c \in Calls /\ c.at = "browser" /\ c.as = Nobody /\ c.for = u
          /\ c.kind = "subscribe"
    BY DEF Call, Calls, AccountTypeOK
  <2>2. Begin({c})
    BY <1>2 DEF SignIn
  <2> HIDE DEF c
  <2>3. /\ flows' \subseteq Calls /\ crossed' \in BOOLEAN /\ (~crossed' => OneEnd')
    BY <1>1, <2>1, <2>2, BeginKeepsOneEnd
  <2>4. pushCalls' \in Nat
    <3>1. Cardinality({c}) = 1
      BY FS_Singleton
    <3> QED
      BY <2>2, <3>1 DEF Begin, AccountTypeOK
  <2>5. AccountTypeOK'
    BY <1>1, <2>3, <2>4 DEF AccountTypeOK
  <2>6. GrantedFirst' /\ Assured'
    BY <1>1, <1>2 DEF GrantedFirst, Assured
  <2> QED
    BY <2>3, <2>5, <2>6
<1>3. CASE ~granted
  <2>1. UNCHANGED <<flows, pushCalls, crossed>>
    BY <1>3 DEF SignIn
  <2>2. \A f \in flows : f.kind # "subscribe"
    BY <1>3 DEF GrantedFirst
  <2>3. AccountTypeOK'
    BY <1>1, <2>1 DEF AccountTypeOK
  <2>4. GrantedFirst' /\ Assured' /\ (~crossed' => OneEnd')
    BY <1>1, <2>1, <2>2 DEF GrantedFirst, Assured, OneEnd
  <2> QED
    BY <2>3, <2>4
<1> QED
  BY <1>2, <1>3

(* Two subscriptions begin with the permission, an unsubscription with the *)
(* logout.                                                                 *)
LEMMA HandlersKeepAccountInv ==
  ASSUME AccountInv, EnableNotifications \/ Logout
  PROVE  AccountInv'
<1> USE DEF AccountInv
<1>1. CASE EnableNotifications
  <2> DEFINE c == Call(pushCalls + 1, "subscribe")
  <2> DEFINE d == Call(pushCalls + 2, "subscribe")
  <2>1. /\ c \in Calls /\ c.at = "browser" /\ c.as = Nobody /\ c.for = token
             /\ c.kind = "subscribe"
        /\ d \in Calls /\ d.at = "browser" /\ d.as = Nobody /\ d.for = token
             /\ d.kind = "subscribe"
    BY DEF Call, Calls, AccountTypeOK
  <2>2. /\ Begin({c, d}) /\ granted' = TRUE /\ ~granted
        /\ UNCHANGED <<token, inChat, browserSub, endpoints, owner, logins, assured>>
    BY <1>1 DEF EnableNotifications
  <2> HIDE DEF c, d
  <2>3. /\ flows' \subseteq Calls /\ crossed' \in BOOLEAN /\ (~crossed' => OneEnd')
    BY <2>1, <2>2, BeginKeepsOneEnd
  <2>4. pushCalls' \in Nat
    <3>1. Cardinality({c, d}) \in Nat
      <4>1. IsFiniteSet({c}) /\ {c, d} = {c} \union {d}
        BY FS_Singleton
      <4>2. IsFiniteSet({c, d})
        BY <4>1, FS_AddElement
      <4> QED
        BY <4>2, FS_CardinalityType
    <3> QED
      BY <2>2, <3>1 DEF Begin, AccountTypeOK
  <2>5. AccountTypeOK'
    BY <2>2, <2>3, <2>4 DEF AccountTypeOK
  <2>6. assured = Nobody
    BY <2>2 DEF GrantedFirst
  <2>7. GrantedFirst' /\ Assured'
    BY <2>2, <2>6 DEF GrantedFirst, Assured
  <2> QED
    BY <2>3, <2>5, <2>7
<1>2. CASE Logout
  <2> DEFINE c == Call(pushCalls + 1, "unsubscribe")
  <2>1. c \in Calls /\ c.at = "browser" /\ c.as = Nobody /\ c.kind = "unsubscribe"
    BY DEF Call, Calls, AccountTypeOK
  <2>2. /\ Begin({c}) /\ token' = Nobody /\ inChat' = FALSE /\ assured' = Nobody
        /\ UNCHANGED <<granted, browserSub, endpoints, owner>>
    BY <1>2 DEF Logout
  <2> HIDE DEF c
  <2>3. /\ flows' \subseteq Calls /\ crossed' \in BOOLEAN /\ (~crossed' => OneEnd')
        /\ flows' = flows \union {c}
    BY <2>1, <2>2, BeginKeepsOneEnd
  <2>4. pushCalls' \in Nat
    <3>1. Cardinality({c}) = 1
      BY FS_Singleton
    <3> QED
      BY <2>2, <3>1 DEF Begin, AccountTypeOK
  <2>5. AccountTypeOK'
    BY <2>2, <2>3, <2>4 DEF AccountTypeOK
  <2>6. GrantedFirst' /\ Assured'
    BY <2>1, <2>2, <2>3 DEF GrantedFirst, Assured
  <2> QED
    BY <2>3, <2>5, <2>6
<1> QED
  BY <1>1, <1>2

(* A call that returns leaves the others as they were; one that goes on    *)
(* keeps its kind and the account it was made for.                         *)
LEMMA FlowFacts ==
  ASSUME AccountTypeOK, NEW f \in flows
  PROVE  /\ f \in Calls
         /\ [f EXCEPT !.at = "grant"] \in Calls
         /\ [f EXCEPT !.at = "grant"].kind = f.kind /\ [f EXCEPT !.at = "grant"].for = f.for
         /\ [f EXCEPT !.at = "grant"].at = "grant" /\ [f EXCEPT !.at = "grant"].as = f.as
         /\ \A e \in Endpoints \union {0} :
               /\ Request(f, e) \in Calls
               /\ Request(f, e).kind = f.kind /\ Request(f, e).for = f.for
               /\ Request(f, e).at = "server" /\ Request(f, e).as = token
               /\ Request(f, e).endpoint = e
<1>1. f \in Calls /\ token \in Accounts \union {Nobody}
  BY DEF AccountTypeOK
<1> QED
  BY <1>1 DEF Request, Calls

(* Who is signed in changes under the calls.                               *)
LEMMA LeavingKeepsAccountInv ==
  ASSUME AccountInv, SignedOutOtherwise \/ Expires
  PROVE  AccountInv'
<1>1. /\ token' = Nobody /\ assured' = Nobody /\ inChat' \in BOOLEAN
      /\ UNCHANGED <<granted, browserSub, endpoints, owner, flows, pushCalls, crossed>>
  BY DEF SignedOutOtherwise, Expires, AccountInv, AccountTypeOK
<1>2. AccountTypeOK'
  BY <1>1 DEF AccountInv, AccountTypeOK
<1> QED
  BY <1>1, <1>2 DEF AccountInv, GrantedFirst, OneEnd, Assured

(* A call that comes to nothing assures nobody.                            *)
LEMMA FailureKeepsAccountInv ==
  ASSUME AccountInv, NEW f \in flows, GivesUp(f) \/ RequestFails(f)
  PROVE  AccountInv'
<1>1. /\ flows' = flows \ {f} /\ assured' = assured
      /\ UNCHANGED <<token, inChat, granted, browserSub, endpoints, owner, pushCalls,
           crossed>>
  BY DEF GivesUp, RequestFails, Return
<1>2. AccountTypeOK'
  BY <1>1 DEF AccountInv, AccountTypeOK
<1>3. GrantedFirst'
  BY <1>1 DEF AccountInv, GrantedFirst
<1>4. ~crossed => OneEnd'
  BY <1>1 DEF AccountInv, OneEnd
<1> QED
  BY <1>1, <1>2, <1>3, <1>4 DEF AccountInv, Assured

(* A subscription goes to the server with the endpoint the browser has.    *)
LEMMA LookingKeepsAccountInv ==
  ASSUME AccountInv, NEW f \in flows, Looks(f)
  PROVE  AccountInv'
<1>1. /\ f.kind = "subscribe" /\ AccountTypeOK /\ GrantedFirst
      /\ UNCHANGED <<token, inChat, granted, browserSub, endpoints, owner, pushCalls,
           crossed, assured>>
      /\ \/ browserSub # 0 /\ flows' = (flows \ {f}) \union {Request(f, browserSub)}
         \/ browserSub = 0 /\ flows' = (flows \ {f}) \union {[f EXCEPT !.at = "grant"]}
  BY DEF Looks, RegisterFound, Move, AccountInv
<1>2. PICK g \in Calls :
        /\ flows' = (flows \ {f}) \union {g} /\ g.kind = f.kind /\ g.for = f.for
        /\ \/ g.at = "server" /\ g.as = token /\ g.endpoint = browserSub /\ browserSub # 0
           \/ g.at = "grant" /\ g.as = f.as
  <2>1. browserSub \in Endpoints \union {0}
    BY <1>1 DEF AccountTypeOK
  <2>2. CASE browserSub # 0
    <3> DEFINE g == Request(f, browserSub)
    <3>1. /\ g \in Calls /\ g.kind = f.kind /\ g.for = f.for /\ g.at = "server"
               /\ g.as = token
          /\ g.endpoint = browserSub
      BY <1>1, <2>1, FlowFacts
    <3>2. flows' = (flows \ {f}) \union {g}
      BY <1>1, <2>2
    <3> HIDE DEF g
    <3> QED
      BY <2>2, <3>1, <3>2
  <2>3. CASE browserSub = 0
    <3> DEFINE g == [f EXCEPT !.at = "grant"]
    <3>1. /\ g \in Calls /\ g.kind = f.kind /\ g.for = f.for /\ g.at = "grant"
               /\ g.as = f.as
      BY <1>1, FlowFacts
    <3>2. flows' = (flows \ {f}) \union {g}
      BY <1>1, <2>3
    <3> HIDE DEF g
    <3> QED
      BY <3>1, <3>2
  <2> QED
    BY <2>2, <2>3
<1>3. AccountTypeOK'
  BY <1>1, <1>2 DEF AccountTypeOK
<1>4. GrantedFirst'
  BY <1>1, <1>2 DEF GrantedFirst
<1>5. ASSUME ~crossed
      PROVE  OneEnd'
  BY <1>1, <1>2, <1>5 DEF AccountInv, OneEnd
<1>6. ASSUME ~crossed
      PROVE  Assured'
  BY <1>1, <1>2, <1>6 DEF AccountInv, Assured
<1> QED
  BY <1>1, <1>3, <1>4, <1>5, <1>6 DEF AccountInv

(* A new subscription is made only when the browser has none.              *)
LEMMA SubscribingKeepsAccountInv ==
  ASSUME AccountInv, NEW f \in flows, BrowserSubscribes(f)
  PROVE  AccountInv'
<1>1. /\ AccountTypeOK /\ GrantedFirst /\ browserSub \in Endpoints \union {0}
      /\ UNCHANGED <<token, inChat, granted, owner, pushCalls, crossed, assured>>
      /\ flows' = (flows \ {f}) \union {Request(f, browserSub')}
      /\ browserSub # 0 => browserSub' = browserSub
  BY DEF BrowserSubscribes, Move, AccountInv, AccountTypeOK
<1>2. browserSub' \in Endpoints /\ endpoints' \in 0..MaxEndpoints /\ browserSub' # 0
  <2>1. CASE browserSub # 0
    BY <1>1, <2>1 DEF BrowserSubscribes, AccountTypeOK
  <2>2. CASE browserSub = 0
    BY <1>1, <2>2, AccountAssumption DEF BrowserSubscribes, AccountTypeOK, Endpoints
  <2> QED
    BY <2>1, <2>2
<1>3. PICK g \in Calls :
        /\ flows' = (flows \ {f}) \union {g} /\ g.kind = f.kind /\ g.for = f.for
        /\ g.at = "server" /\ g.as = token /\ g.endpoint = browserSub'
  <2>1. \A e \in Endpoints \union {0} :
          /\ Request(f, e) \in Calls /\ Request(f, e).kind = f.kind /\ Request(f,
               e).for = f.for
          /\ Request(f, e).at = "server" /\ Request(f, e).as = token /\ Request(f,
               e).endpoint = e
    BY <1>1, FlowFacts
  <2> QED
    BY <1>1, <1>2, <2>1
<1>4. AccountTypeOK'
  BY <1>1, <1>2, <1>3 DEF AccountTypeOK
<1>5. GrantedFirst'
  BY <1>1, <1>3 DEF GrantedFirst
<1>6. ASSUME ~crossed
      PROVE  OneEnd'
  <2>1. OneEnd
    BY <1>6 DEF AccountInv
  <2> QED
    BY <1>1, <1>2, <1>3, <2>1 DEF OneEnd
<1>7. ASSUME ~crossed
      PROVE  Assured'
  BY <1>1, <1>3, <1>7 DEF AccountInv, Assured
<1> QED
  BY <1>1, <1>4, <1>5, <1>6, <1>7 DEF AccountInv

(* While an unsubscription is under way nobody is assured of anything.     *)
LEMMA UnsubscribingKeepsAccountInv ==
  ASSUME AccountInv, NEW f \in flows, Deletes(f)
           \/ \E ok \in BOOLEAN : BrowserUnsubscribes(f, ok)
  PROVE  AccountInv'
<1>1. /\ AccountTypeOK /\ GrantedFirst /\ f.kind = "unsubscribe"
      /\ UNCHANGED <<token, inChat, granted, endpoints, pushCalls, crossed, assured>>
  BY DEF BrowserUnsubscribes, Deletes, Move, Return, AccountInv
<1>2. owner' \in [Endpoints -> Accounts \union {Nobody}]
        /\ browserSub' \in Endpoints \union {0}
  BY DEF BrowserUnsubscribes, Deletes, AccountInv, AccountTypeOK
<1>3. /\ flows' \subseteq Calls
      /\ \A h \in flows' : \E g \in flows : h.kind = g.kind /\ h.for = g.for
  <2>1. CASE Deletes(f)
    BY <1>1, <2>1 DEF Deletes, Return, AccountTypeOK
  <2>2. ASSUME NEW ok \in BOOLEAN, BrowserUnsubscribes(f, ok)
        PROVE  /\ flows' \subseteq Calls
               /\ \A h \in flows' : \E g \in flows : h.kind = g.kind /\ h.for = g.for
    <3>1. flows' = (flows \ {f}) \union {Request(f, browserSub)}
            /\ browserSub \in Endpoints \union {0}
      BY <1>1, <2>2 DEF BrowserUnsubscribes, Move, AccountTypeOK
    <3>2. /\ Request(f, browserSub) \in Calls
          /\ Request(f, browserSub).kind = f.kind /\ Request(f, browserSub).for = f.for
      BY <1>1, <3>1, FlowFacts
    <3> QED
      BY <1>1, <3>1, <3>2 DEF AccountTypeOK
  <2> QED
    BY <2>1, <2>2
<1>4. AccountTypeOK'
  BY <1>1, <1>2, <1>3 DEF AccountTypeOK
<1>5. GrantedFirst'
  BY <1>1, <1>3 DEF GrantedFirst
<1>6. ASSUME ~crossed
      PROVE  OneEnd' /\ Assured'
  <2>1. /\ \A g \in flows : g.kind = "unsubscribe" /\ g.for = f.for
        /\ assured = Nobody
    BY <1>1, <1>6 DEF AccountInv, OneEnd, Assured
  <2>2. \A h \in flows' : h.kind = "unsubscribe" /\ h.for = f.for
    BY <1>3, <2>1
  <2> QED
    BY <1>1, <2>1, <2>2 DEF OneEnd, Assured
<1> QED
  BY <1>1, <1>4, <1>5, <1>6 DEF AccountInv

(* The row written is that of the browser's endpoint, for the account      *)
(* signed in.                                                              *)
LEMMA UpsertKeepsAccountInv ==
  ASSUME AccountInv, NEW f \in flows, Upserts(f)
  PROVE  AccountInv'
<1>1. /\ AccountTypeOK /\ GrantedFirst /\ f.kind = "subscribe" /\ f.at = "server"
           /\ f.as # Nobody
      /\ f \in Calls /\ flows' = flows \ {f}
      /\ UNCHANGED <<token, inChat, granted, browserSub, endpoints, pushCalls, crossed>>
      /\ owner' = [owner EXCEPT ![f.endpoint] = f.as]
      /\ assured' = assured \/ (f.as = token /\ assured' = token)
  BY DEF Upserts, Return, AccountInv, AccountTypeOK
<1>2. f.as \in Accounts \union {Nobody}
  BY <1>1 DEF Calls
<1>3. AccountTypeOK'
  BY <1>1, <1>2 DEF AccountTypeOK
<1>4. GrantedFirst'
  BY <1>1 DEF GrantedFirst
<1>5. ASSUME ~crossed
      PROVE  OneEnd'
  <2>1. OneEnd
    BY <1>5 DEF AccountInv
  <2> QED
    BY <1>1, <2>1 DEF OneEnd
<1>6. ASSUME ~crossed
      PROVE  Assured'
  <2>1. OneEnd
    BY <1>6 DEF AccountInv
  <2>2. /\ f.endpoint = browserSub /\ browserSub # 0 /\ f.as = f.for
        /\ token # Nobody => f.for = token
        /\ \A g \in flows : g.kind = "subscribe"
    BY <1>1, <2>1 DEF OneEnd
  <2>3. browserSub \in Endpoints /\ owner'[browserSub] = f.as
    BY <1>1, <2>2 DEF AccountTypeOK
  <2>4. assured' # Nobody => token # Nobody
    BY <1>1 DEF AccountTypeOK
  <2> QED
    BY <1>1, <2>2, <2>3, <2>4 DEF Assured
<1> QED
  BY <1>1, <1>3, <1>4, <1>5, <1>6 DEF AccountInv

(* Every step of a browser and its accounts keeps the invariant.           *)
LEMMA NextAccountInv == AccountInv /\ [AccountNext]_accountVars => AccountInv'
<1> SUFFICES ASSUME AccountInv, [AccountNext]_accountVars PROVE AccountInv'
  OBVIOUS
<1>1. CASE UNCHANGED accountVars
  BY <1>1 DEF accountVars, AccountInv, AccountTypeOK, GrantedFirst, OneEnd, Assured
<1>2. ASSUME NEW e \in Endpoints, PushFindsGone(e)
      PROVE  AccountInv'
  <2>1. /\ browserSub # e /\ owner' = [owner EXCEPT ![e] = Nobody] /\ AccountTypeOK
        /\ UNCHANGED <<token, inChat, granted, browserSub, endpoints, flows, pushCalls,
             assured, crossed>>
    BY <1>2 DEF PushFindsGone, AccountInv
  <2>2. AccountTypeOK' /\ (browserSub # 0 => owner'[browserSub] = owner[browserSub])
    BY <2>1 DEF AccountTypeOK
  <2> QED
    BY <2>1, <2>2 DEF AccountInv, GrantedFirst, OneEnd, Assured
<1>3. ASSUME NEW f \in flows,
             \/ Looks(f) \/ GivesUp(f) \/ BrowserSubscribes(f)
             \/ \E ok \in BOOLEAN : BrowserUnsubscribes(f, ok)
             \/ Upserts(f) \/ Deletes(f) \/ RequestFails(f)
      PROVE  AccountInv'
  BY <1>3, FailureKeepsAccountInv, LookingKeepsAccountInv, SubscribingKeepsAccountInv,
     UnsubscribingKeepsAccountInv, UpsertKeepsAccountInv
<1> QED
  BY <1>1, <1>2, <1>3, SignInKeepsAccountInv, HandlersKeepAccountInv, LeavingKeepsAccountInv
     DEF AccountNext

(* While the calls under way serve one end, they are for whoever is signed *)
(* in, and name the browser's endpoint (push.ts).                          *)
THEOREM AccountInvHolds == AccountSpec => []AccountInv
BY InitAccountInv, NextAccountInv, PTL DEF AccountSpec

(* Whoever was told that notifications are on has the browser's endpoint,  *)
(* however the accounts before left (push.ts, UpsertPushSubscription).     *)
THEOREM PushIsOnesOwn == AccountSpec => []PushIsOwn
<1>1. AccountInv => PushIsOwn
  BY DEF AccountInv, Assured, PushIsOwn
<1> QED
  BY <1>1, AccountInvHolds, PTL

-----------------------------------------------------------------------------
(* Typing *)

TypingSpec == TypingInit /\ [][TypingNext]_typingVars

(* Two connections one behind the other: what is added to the first goes   *)
(* last of all, what is passed on keeps its place, what is taken is first. *)
LEMMA TwoQueues ==
  ASSUME NEW S, NEW s \in Seq(S), NEW t \in Seq(S)
  PROVE  /\ s \o t \in Seq(S)
         /\ \A x \in S : s \o Append(t, x) = Append(s \o t, x)
         /\ t # <<>> => Append(s, Head(t)) \o Tail(t) = s \o t
         /\ s # <<>> => s \o t # <<>> /\ Head(s \o t) = Head(s)
              /\ Tail(s \o t) = Tail(s) \o t
<1>1. s \o t \in Seq(S) /\ Len(s \o t) = Len(s) + Len(t) /\ Len(s) \in Nat /\ Len(t) \in Nat
      /\ \A i \in 1..(Len(s) + Len(t)) : (s \o t)[i] = IF i <= Len(s) THEN s[i] ELSE t[i - Len(s)]
  BY ConcatProperties, LenProperties
<1>2. ASSUME NEW x \in S
      PROVE  s \o Append(t, x) = Append(s \o t, x)
  <2>1. Append(t, x) = t \o <<x>> /\ Append(s \o t, x) = (s \o t) \o <<x>>
    BY <1>1, AppendIsConcat
  <2>2. <<x>> \in Seq(S)
    OBVIOUS
  <2> QED
    BY <2>1, <2>2, ConcatAssociative
<1>3. ASSUME t # <<>>
      PROVE  Append(s, Head(t)) \o Tail(t) = s \o t
  <2>1. Head(t) \in S /\ Tail(t) \in Seq(S) /\ <<Head(t)>> \in Seq(S)
    BY <1>3, HeadTailProperties
  <2>2. Append(s, Head(t)) = s \o <<Head(t)>>
    BY <2>1, AppendIsConcat
  <2>3. t = <<Head(t)>> \o Tail(t)
    <3>1. Len(t) \in Nat \ {0}
      BY <1>3, EmptySeq
    <3>2. SubSeq(t, 1, Len(t)) = <<t[1]>> \o SubSeq(t, 2, Len(t))
      BY <3>1, SubSeqRecursiveFirst
    <3> QED
      BY <1>3, <3>1, <3>2, SubSeqFull, TailIsSubSeq, TailFacts
  <2> QED
    BY <2>1, <2>2, <2>3, ConcatAssociative
<1>4. ASSUME s # <<>>
      PROVE  s \o t # <<>> /\ Head(s \o t) = Head(s) /\ Tail(s \o t) = Tail(s) \o t
  <2>1. /\ Tail(s) \in Seq(S) /\ Len(Tail(s)) = Len(s) - 1 /\ Len(s) # 0
        /\ \A i \in 1..Len(Tail(s)) : Tail(s)[i] = s[i + 1]
    BY <1>4, HeadTailProperties, EmptySeq
  <2>2. s \o t # <<>>
    BY <1>1, <2>1
  <2>3. /\ Tail(s \o t) \in Seq(S) /\ Len(Tail(s \o t)) = Len(s) + Len(t) - 1
        /\ \A i \in 1..(Len(s) + Len(t) - 1) : Tail(s \o t)[i] = (s \o t)[i + 1]
    <3>1. /\ Tail(s \o t) \in Seq(S) /\ Len(Tail(s \o t)) = Len(s \o t) - 1
          /\ \A i \in 1..Len(Tail(s \o t)) : Tail(s \o t)[i] = (s \o t)[i + 1]
      BY <1>1, <2>2, HeadTailProperties
    <3> QED
      BY <1>1, <3>1
  <2>4. /\ Tail(s) \o t \in Seq(S) /\ Len(Tail(s) \o t) = Len(s) + Len(t) - 1
        /\ \A i \in 1..(Len(s) + Len(t) - 1) :
              (Tail(s) \o t)[i] = IF i <= Len(s) - 1 THEN Tail(s)[i] ELSE t[i - (Len(s) - 1)]
    <3>1. /\ Tail(s) \o t \in Seq(S) /\ Len(Tail(s) \o t) = Len(Tail(s)) + Len(t)
          /\ \A i \in 1..(Len(Tail(s)) + Len(t)) :
                (Tail(s) \o t)[i] = IF i <= Len(Tail(s)) THEN Tail(s)[i] ELSE t[i - Len(Tail(s))]
      BY <2>1, ConcatProperties
    <3>2. Len(Tail(s)) + Len(t) = Len(s) + Len(t) - 1
      BY <1>1, <2>1
    <3> QED
      BY <2>1, <3>1, <3>2
  <2>5. ASSUME NEW i \in 1..(Len(s) + Len(t) - 1)
        PROVE  Tail(s \o t)[i] = (Tail(s) \o t)[i]
    <3>1. CASE i <= Len(s) - 1
      <4>1. i \in 1..Len(Tail(s)) /\ i + 1 \in 1..(Len(s) + Len(t)) /\ i + 1 <= Len(s)
        BY <1>1, <2>1, <3>1
      <4> QED
        BY <1>1, <2>1, <2>3, <2>4, <3>1, <4>1
    <3>2. CASE ~(i <= Len(s) - 1)
      <4>1. /\ i + 1 \in 1..(Len(s) + Len(t)) /\ ~(i + 1 <= Len(s))
            /\ i + 1 - Len(s) = i - (Len(s) - 1)
        BY <1>1, <2>1, <3>2
      <4> QED
        BY <1>1, <2>3, <2>4, <3>2, <4>1
    <3> QED
      BY <3>1, <3>2
  <2>6. Tail(s \o t) = Tail(s) \o t
    <3>1. Len(Tail(s \o t)) = Len(Tail(s) \o t)
      BY <2>3, <2>4
    <3>2. \A i \in 1..Len(Tail(s \o t)) : Tail(s \o t)[i] = (Tail(s) \o t)[i]
      BY <2>3, <2>5
    <3> QED
      BY <2>3, <2>4, <3>1, <3>2, SeqEqual
  <2>7. Head(s \o t) = Head(s)
    <3>1. Head(s \o t) = (s \o t)[1] /\ Head(s) = s[1]
      BY <1>1, <1>4, <2>2, TailFacts
    <3>2. 1 \in 1..(Len(s) + Len(t)) /\ 1 <= Len(s)
      BY <1>1, <2>1
    <3> QED
      BY <1>1, <3>1, <3>2
  <2> QED
    BY <2>2, <2>6, <2>7
<1> QED
  BY <1>1, <1>2, <1>3, <1>4

(* Nobody types, and nothing is on its way.                                *)
LEMMA InitTypingInv == TypingInit => TypingInv
<1> SUFFICES ASSUME TypingInit PROVE TypingInv
  OBVIOUS
<1>1. emitted \in Seq(TypingEvents) /\ pushed \in Seq(TypingEvents)
  BY EmptySeq DEF TypingInit
<1>2. sinceInput \in 0..Inactivity /\ sinceSent \in 0..Throttle
        /\ age \in [Channels -> 0..Ttl]
  BY TypingAssumption DEF TypingInit
<1> QED
  BY <1>1, <1>2 DEF TypingInit, TypingInv, TypingTypeOK

(* An author says something: it goes last.                                 *)
LEMMA SayingFacts ==
  ASSUME TypingTypeOK, NEW start \in BOOLEAN, selected # 0, SendTyping(selected, start)
  PROVE  /\ emitted' \in Seq(TypingEvents)
         /\ online => OnTheWay' = pushed' \o Append(emitted, TypingEvent(selected, start))
         /\ online /\ pushed' = pushed
               => OnTheWay' = Append(OnTheWay, TypingEvent(selected, start))
         /\ OnTheWay \in Seq(TypingEvents) /\ TypingEvent(selected, start) \in TypingEvents
<1>1. TypingEvent(selected, start) \in TypingEvents
  BY DEF TypingTypeOK, TypingEvent, TypingEvents
<1>2. emitted \in Seq(TypingEvents) /\ pushed \in Seq(TypingEvents)
  BY DEF TypingTypeOK
<1>3. emitted' = IF online THEN Append(emitted, TypingEvent(selected, start)) ELSE emitted
  BY DEF SendTyping
<1> HIDE DEF TypingEvent
<1>4. Append(emitted, TypingEvent(selected, start)) \in Seq(TypingEvents)
  BY <1>1, <1>2, AppendFacts
<1>5. /\ pushed \o emitted \in Seq(TypingEvents)
      /\ pushed \o Append(emitted, TypingEvent(selected, start))
            = Append(pushed \o emitted, TypingEvent(selected, start))
  BY <1>1, <1>2, TwoQueues
<1> QED
  BY <1>1, <1>2, <1>3, <1>4, <1>5 DEF OnTheWay

(* The last word on a channel is what was added, there, and what it was    *)
(* before, elsewhere.                                                      *)
LEMMA AppendedWord ==
  ASSUME NEW way \in Seq(TypingEvents), NEW e \in TypingEvents
  PROVE  /\ \A i \in DOMAIN Append(way, e) :
              LastOf(Append(way, e)[i].channel, i, Append(way, e)) =>
                 \/ Append(way, e)[i] = e
                 \/ /\ i \in DOMAIN way /\ Append(way, e)[i] = way[i]
                    /\ way[i].channel # e.channel /\ LastOf(way[i].channel, i, way)
         /\ \A c : Untold(c, Append(way, e)) => Untold(c, way) /\ c # e.channel
<1> DEFINE W == Append(way, e)
<1>1. /\ \A i \in DOMAIN way : i \in DOMAIN W /\ W[i] = way[i] /\ i \in Nat
           /\ i < Len(way) + 1
      /\ Len(way) + 1 \in DOMAIN W /\ W[Len(way) + 1] = e
      /\ \A i \in DOMAIN W : i \in Nat /\ (i \in DOMAIN way \/ i = Len(way) + 1)
      /\ Len(way) \in Nat
  BY AppendFacts, LenProperties
<1> HIDE DEF W
<1>2. ASSUME NEW i \in DOMAIN W, LastOf(W[i].channel, i, W), W[i] # e
      PROVE  /\ i \in DOMAIN way /\ W[i] = way[i] /\ way[i].channel # e.channel
             /\ LastOf(way[i].channel, i, way)
  <2>1. i \in DOMAIN way /\ W[i] = way[i] /\ i < Len(way) + 1 /\ i \in Nat
    BY <1>1, <1>2
  <2>2. way[i].channel # e.channel
    <3> SUFFICES ASSUME way[i].channel = e.channel PROVE FALSE
      OBVIOUS
    <3>1. Len(way) + 1 <= i
      BY <1>1, <1>2, <2>1 DEF LastOf
    <3> QED
      BY <1>1, <2>1, <3>1
  <2>3. LastOf(way[i].channel, i, way)
    BY <1>1, <1>2, <2>1 DEF LastOf
  <2> QED
    BY <2>1, <2>2, <2>3
<1>3. ASSUME NEW c, Untold(c, W)
      PROVE  Untold(c, way) /\ c # e.channel
  BY <1>1, <1>3 DEF Untold
<1> QED
  BY <1>2, <1>3 DEF W

(* The author stops.                                                       *)
LEMMA StoppingIsSaid ==
  ASSUME TypingInv, StopEmitting, heard', UNCHANGED pushed, UNCHANGED ticking,
           UNCHANGED shownIn
  PROVE  LastWord(OnTheWay)' /\ ToldAlready(OnTheWay)'
<1>1. /\ TypingTypeOK /\ heard /\ online /\ composing /\ composing' = FALSE /\ selected # 0
      /\ SendTyping(selected, FALSE) /\ LastWord(OnTheWay) /\ ToldAlready(OnTheWay)
  BY DEF TypingInv, TypingTypeOK, StopEmitting
<1>2. PICK e \in TypingEvents : e = TypingEvent(selected, FALSE)
  BY <1>1, SayingFacts
<1>3. PICK way \in Seq(TypingEvents) : way = OnTheWay
  BY <1>1, SayingFacts
<1>4. OnTheWay' = Append(way, e)
  BY <1>1, <1>2, <1>3, SayingFacts
<1>5. e.channel = selected /\ e.start = FALSE
  BY <1>2 DEF TypingEvent
<1>6. PICK W : W = Append(way, e)
  OBVIOUS
<1>7. LastWord(W)'
  <2> SUFFICES ASSUME NEW i \in DOMAIN W, LastOf(W[i].channel, i, W)
               PROVE  W[i].start = FALSE
    BY <1>1 DEF LastWord, LastOf
  <2>1. W[i] = e \/ (i \in DOMAIN way /\ W[i] = way[i] /\ way[i].channel # selected
                     /\ LastOf(way[i].channel, i, way))
    BY <1>5, <1>6, AppendedWord
  <2> QED
    BY <1>1, <1>3, <1>5, <2>1 DEF LastWord
<1>8. ToldAlready(W)'
  <2>1. ASSUME NEW c \in Channels, Untold(c, W)
        PROVE  Untold(c, way) /\ c # selected
    BY <1>5, <1>6, <2>1, AppendedWord
  <2>2. \A c \in Channels : Untold(c, W) => ~(c \in shownIn /\ c \in ticking)
    BY <1>1, <1>3, <2>1 DEF ToldAlready, Shows
  <2> QED
    BY <1>1, <2>2 DEF ToldAlready, Shows, Untold
<1> QED
  BY <1>4, <1>6, <1>7, <1>8 DEF LastWord, ToldAlready

(* The author goes on typing.                                              *)
LEMMA InputIsSaid ==
  ASSUME TypingInv, OnInput, heard'
  PROVE  LastWord(OnTheWay)' /\ ToldAlready(OnTheWay)'
<1>1. /\ TypingTypeOK /\ selected # 0 /\ composing' = TRUE /\ sinceInput' = 0
      /\ UNCHANGED <<selected, pushed, watching, shownIn, ticking, age>>
      /\ sinceSent \in 0..Throttle /\ Throttle \in Nat \ {0}
  BY TypingAssumption DEF TypingInv, TypingTypeOK, OnInput, viewerVars
<1>2. CASE ~composing \/ sinceSent = Throttle
  <2>1. /\ SendTyping(selected, TRUE) /\ sinceSent' = 0 /\ online /\ watching
        /\ heard \/ ShownNowhere
    BY <1>2 DEF OnInput
  <2>2. PICK e \in TypingEvents : e = TypingEvent(selected, TRUE)
    BY <1>1, <2>1, SayingFacts
  <2>3. PICK way \in Seq(TypingEvents) : way = OnTheWay
    BY <1>1, <2>1, SayingFacts
  <2>4. OnTheWay' = Append(way, e)
    BY <1>1, <2>1, <2>2, <2>3, SayingFacts
  <2>5. e.channel = selected /\ e.start = TRUE
    BY <2>2 DEF TypingEvent
  <2>6. PICK W : W = Append(way, e)
    OBVIOUS
  <2>7. ASSUME NEW i \in DOMAIN way, LastOf(way[i].channel, i, way),
                 way[i].channel # selected
        PROVE  way[i].start = FALSE
    <3>1. CASE heard
      BY <1>1, <2>3, <2>7, <3>1 DEF TypingInv, LastWord
    <3>2. CASE ShownNowhere
      <4>1. way = <<>>
        BY <2>3, <3>2 DEF ShownNowhere, OnTheWay
      <4> QED
        BY <2>7, <4>1
    <3> QED
      BY <2>1, <3>1, <3>2
  <2>8. ASSUME NEW c \in Channels, Untold(c, way), c # selected
        PROVE  ~(c \in shownIn /\ c \in ticking)
    <3>1. CASE heard
      BY <1>1, <2>3, <2>8, <3>1 DEF TypingInv, ToldAlready, Shows
    <3>2. CASE ShownNowhere
      BY <3>2 DEF ShownNowhere
    <3> QED
      BY <2>1, <3>1, <3>2
  <2>9. LastWord(W)'
    <3> SUFFICES ASSUME NEW i \in DOMAIN W, LastOf(W[i].channel, i, W)
                 PROVE  W[i].start = (selected = W[i].channel)
      BY <1>1 DEF LastWord, LastOf
    <3>1. W[i] = e \/ (i \in DOMAIN way /\ W[i] = way[i] /\ way[i].channel # selected
                       /\ LastOf(way[i].channel, i, way))
      BY <2>5, <2>6, AppendedWord
    <3> QED
      BY <2>5, <2>7, <3>1
  <2>10. ToldAlready(W)'
    <3>1. \A c \in Channels : Untold(c, W) => ~(c \in shownIn /\ c \in ticking)
      BY <2>5, <2>6, <2>8, AppendedWord
    <3>2. ~Untold(selected, W)
      BY <2>5, <2>6, AppendedWord
    <3> QED
      BY <1>1, <3>1, <3>2 DEF ToldAlready, Shows, Untold
  <2> QED
    BY <2>4, <2>6, <2>9, <2>10 DEF LastWord, ToldAlready
<1>3. CASE ~(~composing \/ sinceSent = Throttle)
  <2>1. composing = TRUE /\ sinceSent < Throttle /\ heard /\ UNCHANGED <<sinceSent,
          emitted>>
    <3>1. composing /\ UNCHANGED <<sinceSent, emitted, heard>>
      BY <1>3 DEF OnInput
    <3>2. composing = TRUE
      BY <1>1, <3>1 DEF TypingTypeOK
    <3>3. sinceSent < Throttle
      BY <1>1, <1>3
    <3> QED
      BY <3>1, <3>2, <3>3
  <2>2. OnTheWay' = OnTheWay /\ LastWord(OnTheWay) /\ ToldAlready(OnTheWay)
    BY <1>1, <2>1 DEF OnTheWay, TypingInv
  <2>3. PICK W : W = OnTheWay
    OBVIOUS
  <2>4. LastWord(W)'
    BY <1>1, <2>1, <2>2, <2>3 DEF LastWord
  <2>5. ToldAlready(W)'
    <3>1. Untold(selected, W) => Shows(selected) /\ age[selected] <= sinceSent
      BY <2>1, <2>2, <2>3 DEF ToldAlready
    <3>2. Untold(selected, W) => age[selected] < 0 + Throttle
      <4>1. selected \in Channels /\ age[selected] \in 0..Ttl
        BY <1>1 DEF TypingTypeOK
      <4> QED
        BY <1>1, <2>1, <3>1, <4>1, TypingAssumption
    <3>3. \A c \in Channels : Untold(c, W) /\ Shows(c) => c = selected
      BY <2>2, <2>3 DEF ToldAlready
    <3> QED
      BY <1>1, <2>1, <3>1, <3>2, <3>3 DEF ToldAlready, Shows, Untold
  <2> QED
    BY <2>2, <2>3, <2>4, <2>5 DEF LastWord, ToldAlready
<1> QED
  BY <1>2, <1>3

(* The first is taken: what it says is shown.                              *)
LEMMA TakingIsShown ==
  ASSUME TypingInv, OnTyping, heard'
  PROVE  LastWord(OnTheWay)' /\ ToldAlready(OnTheWay)'
<1>1. /\ TypingTypeOK /\ heard /\ LastWord(OnTheWay) /\ ToldAlready(OnTheWay)
      /\ UNCHANGED <<selected, composing, sinceInput, sinceSent, emitted>>
      /\ pushed # <<>> /\ pushed' = Tail(pushed)
      /\ pushed \in Seq(TypingEvents) /\ emitted \in Seq(TypingEvents)
  BY DEF OnTyping, TypingInv, TypingTypeOK, authorVars
<1>2. /\ OnTheWay \in Seq(TypingEvents) /\ OnTheWay # <<>> /\ Head(OnTheWay) = Head(pushed)
      /\ OnTheWay' = Tail(OnTheWay)
  BY <1>1, TwoQueues DEF OnTheWay
<1>3. PICK way \in Seq(TypingEvents) : way = OnTheWay
  BY <1>2
<1>4. PICK W : W = Tail(way)
  OBVIOUS
<1>5. way # <<>>
  BY <1>2, <1>3
<1>6. /\ Head(way) = way[1] /\ 1 \in DOMAIN way /\ way[1] \in TypingEvents
      /\ \A i \in DOMAIN W : i \in Nat /\ i >= 1 /\ i + 1 \in DOMAIN way
           /\ W[i] = way[i + 1]
      /\ \A i \in DOMAIN way : i \in Nat /\ (i = 1 \/ (i - 1 \in DOMAIN W
           /\ W[i - 1] = way[i]))
  BY <1>4, <1>5, TailFacts
<1>7. PICK e \in TypingEvents : e = way[1] /\ e = Head(pushed)
  BY <1>2, <1>3, <1>6
<1>8. /\ e.start => shownIn' = shownIn \union {e.channel}
           /\ ticking' = ticking \union {e.channel}
      /\ ~e.start => shownIn' = shownIn \ {e.channel} /\ ticking' = ticking \ {e.channel}
      /\ age' = [age EXCEPT ![e.channel] = 0]
      /\ e.start \in BOOLEAN /\ e.channel \in Channels
  BY <1>7 DEF OnTyping, Show, ClearUser, TypingEvents
<1>9. LastWord(W)'
  <2> SUFFICES ASSUME NEW i \in DOMAIN W, LastOf(W[i].channel, i, W)
               PROVE  W[i].start = (composing /\ selected = W[i].channel)
    BY <1>1 DEF LastWord, LastOf
  <2>1. i + 1 \in DOMAIN way /\ W[i] = way[i + 1] /\ i \in Nat /\ i >= 1
    BY <1>6
  <2>2. LastOf(way[i + 1].channel, i + 1, way)
    <3> SUFFICES ASSUME NEW j \in DOMAIN way, way[j].channel = way[i + 1].channel
                 PROVE  j <= i + 1
      BY DEF LastOf
    <3>1. CASE j = 1
      BY <2>1, <3>1
    <3>2. CASE j # 1
      <4>1. j \in Nat /\ j - 1 \in DOMAIN W /\ W[j - 1] = way[j]
        BY <1>6, <3>2
      <4>2. j - 1 <= i
        BY <2>1, <4>1 DEF LastOf
      <4> QED
        BY <2>1, <4>1, <4>2
    <3> QED
      BY <3>1, <3>2
  <2> QED
    BY <1>1, <1>3, <2>1, <2>2 DEF LastWord
<1>10. ASSUME NEW c \in Channels, Untold(c, W), c # e.channel
       PROVE  Untold(c, way)
  BY <1>6, <1>7, <1>10 DEF Untold
<1>11. Untold(e.channel, W) => e.start = (composing /\ selected = e.channel)
  <2> SUFFICES ASSUME Untold(e.channel, W)
               PROVE  e.start = (composing /\ selected = e.channel)
    OBVIOUS
  <2>1. LastOf(e.channel, 1, way)
    <3>1. ASSUME NEW j \in DOMAIN way, way[j].channel = e.channel
          PROVE  j = 1
      <4> SUFFICES ASSUME j # 1 PROVE FALSE
        OBVIOUS
      <4>1. j - 1 \in DOMAIN W /\ W[j - 1] = way[j]
        BY <1>6
      <4> QED
        BY <3>1, <4>1 DEF Untold
    <3> QED
      BY <1>7, <3>1 DEF LastOf
  <2> QED
    BY <1>1, <1>3, <1>6, <1>7, <2>1 DEF LastWord
<1>12. ASSUME NEW c \in Channels, Untold(c, W), c \in shownIn', c \in ticking'
       PROVE  composing /\ c = selected
  <2>1. CASE c = e.channel
    BY <1>8, <1>11, <1>12, <2>1
  <2>2. CASE c # e.channel
    <3>1. Untold(c, way) /\ c \in shownIn /\ c \in ticking
      BY <1>8, <1>10, <1>12, <2>2
    <3> QED
      BY <1>1, <1>3, <3>1 DEF ToldAlready, Shows
  <2> QED
    BY <2>1, <2>2
<1>13. ASSUME composing, Untold(selected, W)
       PROVE  /\ sinceSent < Throttle =>
                    selected \in shownIn' /\ selected \in ticking'
                        /\ age'[selected] <= sinceSent
              /\ sinceInput < Ttl - Throttle =>
                    /\ selected \in shownIn' /\ selected \in ticking'
                    /\ age'[selected] < sinceInput + Throttle
  <2>0. /\ selected \in Channels /\ sinceSent \in 0..Throttle
             /\ sinceInput \in 0..Inactivity
        /\ age \in [Channels -> 0..Ttl]
    BY <1>1, <1>13 DEF TypingTypeOK
  <2>1. CASE selected = e.channel
    <3>1. e.start
      BY <1>11, <1>13, <2>1
    <3>2. selected \in shownIn' /\ selected \in ticking' /\ age'[selected] = 0
      BY <1>8, <2>0, <2>1, <3>1
    <3>3. 0 <= sinceSent /\ 0 < sinceInput + Throttle
      BY <2>0, TypingAssumption
    <3> QED
      BY <3>2, <3>3
  <2>2. CASE selected # e.channel
    <3>1. Untold(selected, way)
      BY <1>10, <1>13, <2>0, <2>2
    <3>2. /\ selected \in shownIn' <=> selected \in shownIn
          /\ selected \in ticking' <=> selected \in ticking
          /\ age'[selected] = age[selected]
      BY <1>8, <2>0, <2>2
    <3> QED
      BY <1>1, <1>3, <1>13, <3>1, <3>2 DEF ToldAlready, Shows
  <2> QED
    BY <2>1, <2>2
<1>14. ToldAlready(W)'
  BY <1>1, <1>12, <1>13 DEF ToldAlready, Shows, Untold
<1> QED
  BY <1>2, <1>3, <1>4, <1>9, <1>14 DEF LastWord, ToldAlready

(* The hub passes the command on, and nothing changes for the viewer.      *)
LEMMA PassingOnKeepsTold ==
  ASSUME TypingInv, HandleTyping, heard'
  PROVE  LastWord(OnTheWay)' /\ ToldAlready(OnTheWay)'
<1>1. /\ TypingTypeOK /\ heard /\ watching /\ LastWord(OnTheWay) /\ ToldAlready(OnTheWay)
      /\ UNCHANGED <<selected, composing, sinceInput, sinceSent, shownIn, ticking, age>>
      /\ emitted # <<>> /\ emitted' = Tail(emitted)
      /\ pushed \in Seq(TypingEvents) /\ emitted \in Seq(TypingEvents)
  BY DEF HandleTyping, TypingInv, TypingTypeOK, authorVars, viewerVars
<1>2. pushed' = Append(pushed, Head(emitted))
  BY <1>1 DEF HandleTyping, Push
<1>3. OnTheWay' = OnTheWay
  BY <1>1, <1>2, TwoQueues DEF OnTheWay
<1>4. PICK W : W = OnTheWay
  OBVIOUS
<1>5. LastWord(W)' /\ ToldAlready(W)'
  BY <1>1, <1>4 DEF LastWord, ToldAlready, Shows, Untold, LastOf
<1> QED
  BY <1>3, <1>4, <1>5 DEF LastWord, ToldAlready

(* A timer that runs out is not one the author keeps alive.                *)
LEMMA TimersKeepTold ==
  ASSUME TypingInv, NEW c \in Channels, ShownLongEnough(c), heard'
  PROVE  LastWord(OnTheWay)' /\ ToldAlready(OnTheWay)'
<1>1. /\ TypingTypeOK /\ heard /\ LastWord(OnTheWay) /\ ToldAlready(OnTheWay)
      /\ UNCHANGED <<selected, composing, sinceInput, sinceSent, emitted, pushed>>
      /\ shownIn' = shownIn \ {c} /\ ticking' = ticking \ {c}
           /\ age' = [age EXCEPT ![c] = 0]
      /\ age[c] = Ttl
  BY DEF ShownLongEnough, ClearUser, TypingInv, authorVars
<1>2. OnTheWay' = OnTheWay
  BY <1>1 DEF OnTheWay
<1>3. PICK W : W = OnTheWay
  OBVIOUS
<1>4. LastWord(W)'
  BY <1>1, <1>3 DEF LastWord
<1>5. ToldAlready(W)'
  <2>1. ASSUME composing, Untold(selected, W)
        PROVE  /\ sinceSent < Throttle =>
                     selected \in shownIn' /\ selected \in ticking'
                         /\ age'[selected] <= sinceSent
               /\ sinceInput < Ttl - Throttle =>
                     /\ selected \in shownIn' /\ selected \in ticking'
                     /\ age'[selected] < sinceInput + Throttle
    <3>1. /\ selected \in Channels /\ sinceSent \in 0..Throttle
               /\ sinceInput \in 0..Inactivity
          /\ age \in [Channels -> 0..Ttl]
      BY <1>1, <2>1 DEF TypingTypeOK
    <3>2. /\ sinceSent < Throttle => Shows(selected) /\ age[selected] <= sinceSent
          /\ sinceInput < Ttl - Throttle => Shows(selected)
               /\ age[selected] < sinceInput + Throttle
      BY <1>1, <1>3, <2>1 DEF ToldAlready
    <3>3. CASE c = selected
      <4>1. ~(sinceSent < Throttle) /\ ~(sinceInput < Ttl - Throttle)
        BY <1>1, <3>1, <3>2, <3>3, TypingAssumption
      <4> QED
        BY <4>1
    <3>4. CASE c # selected
      <4>1. age'[selected] = age[selected]
        BY <1>1, <3>1, <3>4
      <4> QED
        BY <1>1, <3>2, <3>4, <4>1 DEF Shows
    <3> QED
      BY <3>3, <3>4
  <2>2. \A d \in Channels : Untold(d, W) /\ d \in shownIn' /\ d \in ticking'
          => composing /\ d = selected
    BY <1>1, <1>3 DEF ToldAlready, Shows
  <2> QED
    BY <1>1, <2>1, <2>2 DEF ToldAlready, Shows, Untold
<1> QED
  BY <1>2, <1>3, <1>4, <1>5 DEF LastWord, ToldAlready

(* A second is one for every timer.                                        *)
LEMMA SecondsKeepTold ==
  ASSUME TypingInv, Second, heard'
  PROVE  LastWord(OnTheWay)' /\ ToldAlready(OnTheWay)'
<1>1. /\ TypingTypeOK /\ heard /\ LastWord(OnTheWay) /\ ToldAlready(OnTheWay)
      /\ UNCHANGED <<selected, composing, emitted, pushed, shownIn, ticking>>
      /\ sinceInput' = AtMost(Inactivity, sinceInput) /\ sinceSent' = AtMost(Throttle,
           sinceSent)
      /\ age' = [c \in Channels |-> IF c \in ticking THEN AtMost(Ttl, age[c]) ELSE 0]
  BY DEF Second, TypingInv
<1>2. OnTheWay' = OnTheWay
  BY <1>1 DEF OnTheWay
<1>3. PICK W : W = OnTheWay
  OBVIOUS
<1>4. LastWord(W)'
  BY <1>1, <1>3 DEF LastWord
<1>5. ASSUME composing, Untold(selected, W)
      PROVE  /\ sinceSent' < Throttle => Shows(selected) /\ age'[selected] <= sinceSent'
             /\ sinceInput' < Ttl - Throttle =>
                   Shows(selected) /\ age'[selected] < sinceInput' + Throttle
  <2>1. /\ selected \in Channels /\ sinceSent \in 0..Throttle
             /\ sinceInput \in 0..Inactivity
        /\ age[selected] \in 0..Ttl
    BY <1>1, <1>5 DEF TypingTypeOK
  <2>2. /\ sinceSent < Throttle => Shows(selected) /\ age[selected] <= sinceSent
        /\ sinceInput < Ttl - Throttle => Shows(selected)
             /\ age[selected] < sinceInput + Throttle
    BY <1>1, <1>3, <1>5 DEF ToldAlready
  <2>3. ASSUME Shows(selected)
        PROVE  age'[selected] <= age[selected] + 1 /\ age'[selected] \in Nat
    <3>1. age'[selected] = AtMost(Ttl, age[selected])
      BY <1>1, <2>1, <2>3 DEF Shows
    <3> QED
      BY <2>1, <3>1, TypingAssumption DEF AtMost
  <2>4. ASSUME sinceSent' < Throttle
        PROVE  Shows(selected) /\ age'[selected] <= sinceSent'
    <3>1. sinceSent < Throttle /\ sinceSent' = sinceSent + 1
      BY <1>1, <2>1, <2>4, TypingAssumption DEF AtMost
    <3> QED
      BY <2>1, <2>2, <2>3, <3>1
  <2>5. ASSUME sinceInput' < Ttl - Throttle
        PROVE  Shows(selected) /\ age'[selected] < sinceInput' + Throttle
    <3>1. sinceInput < Ttl - Throttle /\ sinceInput' = sinceInput + 1
      BY <1>1, <2>1, <2>5, TypingAssumption DEF AtMost
    <3> QED
      BY <2>1, <2>2, <2>3, <3>1, TypingAssumption
  <2> QED
    BY <2>4, <2>5
<1>6. ToldAlready(W)'
  <2>1. \A c \in Channels : Untold(c, W) /\ Shows(c) => composing /\ c = selected
    BY <1>1, <1>3 DEF ToldAlready
  <2> QED
    BY <1>1, <1>5, <2>1 DEF ToldAlready, Shows, Untold
<1> QED
  BY <1>2, <1>3, <1>4, <1>6 DEF LastWord, ToldAlready

(* What no step can do is lose a type.                                     *)
LEMMA AuthorKeepsTypes ==
  ASSUME TypingTypeOK, StopTyping \/ OnInput
           \/ \E c \in Channels \union {0} : ChangeChannel(c)
  PROVE  TypingTypeOK'
<1>1. /\ UNCHANGED <<online, watching, typing, pushed, shownIn, ticking, age>>
      /\ selected' \in Channels \union {0}
  BY DEF StopTyping, OnInput, ChangeChannel, TypingTypeOK, viewerVars
<1>2. sinceInput' \in 0..Inactivity /\ sinceSent' \in 0..Throttle
  <2>1. sinceInput' = sinceInput \/ sinceInput' = 0
    BY DEF StopTyping, OnInput, ChangeChannel
  <2>2. sinceSent' = sinceSent \/ sinceSent' = 0 \/ sinceSent' = Throttle
    BY DEF StopTyping, OnInput, ChangeChannel, StopEmitting
  <2>3. sinceInput \in 0..Inactivity /\ sinceSent \in 0..Throttle
    BY DEF TypingTypeOK
  <2> QED
    BY <2>1, <2>2, <2>3, TypingAssumption
<1>3. emitted' \in Seq(TypingEvents)
  <2>1. CASE UNCHANGED emitted
    BY <2>1 DEF TypingTypeOK
  <2>2. ASSUME NEW start \in BOOLEAN, selected # 0, SendTyping(selected, start)
        PROVE  emitted' \in Seq(TypingEvents)
    BY <2>2, SayingFacts
  <2>3. UNCHANGED emitted \/ (selected # 0 /\ \E start \in BOOLEAN : SendTyping(selected,
          start))
    BY DEF StopTyping, OnInput, ChangeChannel, StopEmitting, TypingTypeOK
  <2> QED
    BY <2>1, <2>2, <2>3
<1>4. composing' \in BOOLEAN /\ (composing' => selected' # 0) /\ heard' \in BOOLEAN
  <2>1. CASE StopTyping
    BY <2>1 DEF StopTyping, StopEmitting, TypingTypeOK
  <2>2. CASE OnInput
    <3>1. composing' = TRUE /\ selected' # 0
      BY <2>2 DEF OnInput
    <3>2. heard' = heard \/ heard' = (online /\ watching /\ (heard \/ ShownNowhere))
      BY <2>2 DEF OnInput
    <3>3. heard' \in BOOLEAN
      BY <3>2 DEF TypingTypeOK
    <3> QED
      BY <3>1, <3>3
  <2>3. ASSUME NEW c \in Channels \union {0}, ChangeChannel(c)
        PROVE  composing' \in BOOLEAN /\ (composing' => selected' # 0) /\ heard' \in BOOLEAN
    <3>1. CASE composing
      <4>1. composing' = FALSE /\ heard' = (heard /\ online)
        BY <2>3, <3>1 DEF ChangeChannel, StopEmitting
      <4>2. heard' \in BOOLEAN
        BY <4>1 DEF TypingTypeOK
      <4> QED
        BY <4>1, <4>2
    <3>2. CASE ~composing
      <4>1. composing' = composing /\ heard' = heard
        BY <2>3, <3>2 DEF ChangeChannel
      <4> QED
        BY <3>2, <4>1 DEF TypingTypeOK
    <3> QED
      BY <3>1, <3>2
  <2> QED
    BY <2>1, <2>2, <2>3
<1> QED
  BY <1>1, <1>2, <1>3, <1>4 DEF TypingTypeOK

(* An event the hub pushes goes last, or to nobody.                        *)
LEMMA PushingFacts ==
  ASSUME TypingTypeOK, NEW e \in TypingEvents, Push(e)
  PROVE  pushed' \in Seq(TypingEvents)
<1>1. pushed \in Seq(TypingEvents) /\ (pushed' = Append(pushed, e) \/ pushed' = pushed)
  BY DEF Push, TypingTypeOK
<1> QED
  BY <1>1, AppendFacts

LEMMA HubKeepsTypes ==
  ASSUME TypingTypeOK, HandleTyping \/ LoseAuthor \/ Unregister \/ AuthorReturns
  PROVE  TypingTypeOK'
<1>1. /\ UNCHANGED <<selected, composing, sinceInput, sinceSent, watching, shownIn,
           ticking, age>>
      /\ online' \in BOOLEAN /\ heard' \in BOOLEAN
  BY DEF HandleTyping, LoseAuthor, Unregister, AuthorReturns, TypingTypeOK, authorVars,
       viewerVars
<1>2. emitted \in Seq(TypingEvents) /\ pushed \in Seq(TypingEvents)
        /\ typing \in Channels \union {0}
  BY DEF TypingTypeOK
<1>3. emitted' \in Seq(TypingEvents) /\ pushed' \in Seq(TypingEvents)
        /\ typing' \in Channels \union {0}
  <2>1. CASE HandleTyping
    <3>1. /\ emitted # <<>> /\ emitted' = Tail(emitted) /\ Push(Head(emitted))
          /\ typing' = Head(emitted).channel \/ typing' = 0
      BY <2>1 DEF HandleTyping
    <3>2. Tail(emitted) \in Seq(TypingEvents) /\ Head(emitted) \in TypingEvents
      BY <1>2, <3>1, TailFacts
    <3>3. Head(emitted).channel \in Channels
      BY <3>2 DEF TypingEvents
    <3> QED
      BY <3>1, <3>2, <3>3, PushingFacts
  <2>2. CASE LoseAuthor
    <3>1. PICK n \in 0..Len(emitted) : emitted' = SubSeq(emitted, 1, n)
      BY <2>2 DEF LoseAuthor
    <3>2. Len(emitted) \in Nat /\ \A i \in 1..Len(emitted) : emitted[i] \in TypingEvents
      BY <1>2, LenProperties, ElementOfSeq
    <3>3. n \in Int /\ \A i \in 1..n : emitted[i] \in TypingEvents
      BY <3>2
    <3>4. SubSeq(emitted, 1, n) \in Seq(TypingEvents)
      BY <3>3, SubSeqProperties
    <3> QED
      BY <1>2, <2>2, <3>1, <3>4 DEF LoseAuthor
  <2>3. CASE Unregister
    <3>1. typing' = 0 /\ UNCHANGED emitted
          /\ \/ typing # 0 /\ Push(TypingEvent(typing, FALSE))
             \/ UNCHANGED pushed
      BY <2>3 DEF Unregister
    <3>2. typing # 0 => TypingEvent(typing, FALSE) \in TypingEvents
      BY <1>2 DEF TypingEvent, TypingEvents
    <3> QED
      BY <1>2, <3>1, <3>2, PushingFacts
  <2>4. CASE AuthorReturns
    BY <1>2, <2>4 DEF AuthorReturns
  <2> QED
    BY <2>1, <2>2, <2>3, <2>4
<1> QED
  BY <1>1, <1>3 DEF TypingTypeOK

LEMMA ViewerKeepsTypes ==
  ASSUME TypingTypeOK,
         \/ OnTyping \/ LoseViewer \/ ViewerReturns \/ Second
         \/ \E c \in Channels : ShownLongEnough(c)
  PROVE  TypingTypeOK'
<1>1. /\ selected \in Channels \union {0} /\ sinceInput \in 0..Inactivity
           /\ sinceSent \in 0..Throttle
      /\ pushed \in Seq(TypingEvents) /\ shownIn \subseteq Channels
           /\ ticking \subseteq Channels
      /\ age \in [Channels -> 0..Ttl] /\ 0 \in 0..Ttl
  BY TypingAssumption DEF TypingTypeOK
<1>2. /\ UNCHANGED <<selected, composing, emitted, typing, online>>
      /\ heard' \in BOOLEAN /\ watching' \in BOOLEAN
  BY DEF OnTyping, LoseViewer, ViewerReturns, ShownLongEnough, Second, TypingTypeOK,
       authorVars
<1>3. sinceInput' \in 0..Inactivity /\ sinceSent' \in 0..Throttle
  <2>1. \/ UNCHANGED <<sinceInput, sinceSent>>
        \/ /\ sinceInput' = AtMost(Inactivity, sinceInput)
           /\ sinceSent' = AtMost(Throttle, sinceSent)
    BY DEF OnTyping, LoseViewer, ViewerReturns, ShownLongEnough, Second, authorVars
  <2> QED
    BY <1>1, <2>1, TypingAssumption DEF AtMost
<1>4. pushed' \in Seq(TypingEvents)
  <2>1. pushed' = pushed \/ pushed' = <<>> \/ (pushed # <<>> /\ pushed' = Tail(pushed))
    BY DEF OnTyping, LoseViewer, ViewerReturns, ShownLongEnough, Second
  <2> QED
    BY <1>1, <2>1, TailFacts, EmptySeq
<1>5. shownIn' \subseteq Channels /\ ticking' \subseteq Channels
        /\ age' \in [Channels -> 0..Ttl]
  <2>1. ASSUME NEW c \in Channels, Show(c) \/ ClearUser(c)
        PROVE  shownIn' \subseteq Channels /\ ticking' \subseteq Channels
                 /\ age' \in [Channels -> 0..Ttl]
    BY <1>1, <2>1 DEF Show, ClearUser
  <2>2. CASE OnTyping
    <3>1. Head(pushed) \in TypingEvents
      BY <1>1, <2>2, TailFacts DEF OnTyping
    <3>2. Head(pushed).channel \in Channels
      BY <3>1 DEF TypingEvents
    <3>3. Show(Head(pushed).channel) \/ ClearUser(Head(pushed).channel)
      BY <2>2 DEF OnTyping
    <3> QED
      BY <2>1, <3>2, <3>3
  <2>3. CASE LoseViewer
    BY <1>1, <2>3 DEF LoseViewer
  <2>4. CASE ViewerReturns
    BY <1>1, <2>4 DEF ViewerReturns
  <2>5. CASE Second
    <3>1. UNCHANGED <<shownIn, ticking>>
          /\ age' = [c \in Channels |-> IF c \in ticking THEN AtMost(Ttl, age[c]) ELSE 0]
      BY <2>5 DEF Second
    <3>2. \A c \in Channels : AtMost(Ttl, age[c]) \in 0..Ttl
      BY <1>1, TypingAssumption DEF AtMost
    <3> QED
      BY <1>1, <3>1, <3>2
  <2>6. ASSUME NEW c \in Channels, ShownLongEnough(c)
        PROVE  shownIn' \subseteq Channels /\ ticking' \subseteq Channels
                 /\ age' \in [Channels -> 0..Ttl]
    BY <2>1, <2>6 DEF ShownLongEnough
  <2> QED
    BY <2>2, <2>3, <2>4, <2>5, <2>6
<1> QED
  BY <1>2, <1>1, <1>3, <1>4, <1>5 DEF TypingTypeOK

(* Every step of an author, the hub and a viewer keeps the invariant.      *)
LEMMA NextTypingInv == TypingInv /\ [TypingNext]_typingVars => TypingInv'
<1> SUFFICES ASSUME TypingInv, [TypingNext]_typingVars PROVE TypingInv'
  OBVIOUS
<1>1. CASE UNCHANGED typingVars
  <2>1. UNCHANGED <<selected, composing, sinceInput, sinceSent, online, registered,
          emitted, typing,
                    pushed, watching, shownIn, ticking, age, heard>>
    BY <1>1 DEF typingVars, authorVars, viewerVars
  <2> QED
    BY <2>1 DEF TypingInv, TypingTypeOK, LastWord, ToldAlready, Shows, OnTheWay
<1>2. CASE TypingNext
  <2>1. TypingTypeOK
    BY DEF TypingInv
  <2>2. TypingTypeOK'
    BY <1>2, <2>1, AuthorKeepsTypes, HubKeepsTypes, ViewerKeepsTypes DEF TypingNext
  <2>3. ASSUME heard'
        PROVE  online' /\ watching'
    <3>1. online \in BOOLEAN /\ watching \in BOOLEAN /\ (heard => online /\ watching)
      BY DEF TypingInv, TypingTypeOK
    <3>2. CASE OnInput
      BY <2>3, <3>1, <3>2 DEF OnInput, viewerVars
    <3>3. CASE ~OnInput
      <4>1. heard
        BY <1>2, <2>3, <3>3 DEF TypingNext, StopTyping, StopEmitting, ChangeChannel,
             HandleTyping,
           LoseAuthor, Unregister, AuthorReturns, OnTyping, LoseViewer, ViewerReturns,
           ShownLongEnough, Second
      <4>2. UNCHANGED <<online, watching>> \/ LoseAuthor \/ LoseViewer \/ AuthorReturns
              \/ ViewerReturns
        BY <1>2, <3>3 DEF TypingNext, StopTyping, ChangeChannel, HandleTyping, Unregister,
             OnTyping,
           ShownLongEnough, Second, viewerVars
      <4> QED
        BY <2>3, <3>1, <4>1, <4>2 DEF LoseAuthor, LoseViewer, AuthorReturns, ViewerReturns
    <3> QED
      BY <3>2, <3>3
  <2>4. ASSUME heard'
        PROVE  LastWord(OnTheWay)' /\ ToldAlready(OnTheWay)'
    <3>1. CASE StopTyping
      BY <2>4, <3>1, StoppingIsSaid DEF StopTyping, viewerVars
    <3>2. CASE OnInput
      BY <2>4, <3>2, InputIsSaid
    <3>3. ASSUME NEW c \in Channels \union {0}, ChangeChannel(c)
          PROVE  LastWord(OnTheWay)' /\ ToldAlready(OnTheWay)'
      <4>1. CASE composing
        BY <2>4, <3>3, <4>1, StoppingIsSaid DEF ChangeChannel, viewerVars
      <4>2. CASE ~composing
        <5>1. /\ UNCHANGED <<composing, sinceSent, emitted, heard, sinceInput, pushed,
                   shownIn, ticking, age>>
              /\ LastWord(OnTheWay) /\ ToldAlready(OnTheWay) /\ composing = FALSE
          BY <2>1, <2>4, <3>3, <4>2 DEF ChangeChannel, viewerVars, TypingInv, TypingTypeOK
        <5>2. OnTheWay' = OnTheWay
          BY <5>1 DEF OnTheWay
        <5>3. PICK W : W = OnTheWay
          OBVIOUS
        <5>4. LastWord(W)' /\ ToldAlready(W)'
          BY <5>1, <5>3 DEF LastWord, LastOf, ToldAlready, Shows, Untold
        <5> QED
          BY <5>2, <5>3, <5>4 DEF LastWord, ToldAlready
      <4> QED
        BY <4>1, <4>2
    <3>4. CASE HandleTyping
      BY <2>4, <3>4, PassingOnKeepsTold
    <3>5. CASE OnTyping
      BY <2>4, <3>5, TakingIsShown
    <3>6. ASSUME NEW c \in Channels, ShownLongEnough(c)
          PROVE  LastWord(OnTheWay)' /\ ToldAlready(OnTheWay)'
      BY <2>4, <3>6, TimersKeepTold
    <3>7. CASE Second
      BY <2>4, <3>7, SecondsKeepTold
    <3>8. ~LoseAuthor /\ ~Unregister /\ ~AuthorReturns /\ ~LoseViewer /\ ~ViewerReturns
      BY <2>4 DEF TypingInv, LoseAuthor, Unregister, AuthorReturns, LoseViewer,
           ViewerReturns
    <3> QED
      BY <1>2, <3>1, <3>2, <3>3, <3>4, <3>5, <3>6, <3>7, <3>8 DEF TypingNext
  <2> QED
    BY <2>2, <2>3, <2>4 DEF TypingInv
<1> QED
  BY <1>1, <1>2

(* Until a connection is lost the last word on its way on every channel is *)
(* what the author does there (useTypingEmitter, handleTyping,             *)
(* useTypingIndicator).                                                    *)
THEOREM TypingInvHolds == TypingSpec => []TypingInv
BY InitTypingInv, NextTypingInv, PTL DEF TypingSpec

(* An author who typed a moment ago is shown, and nowhere but where he     *)
(* types, with the delays of services/typing.ts or any like them.          *)
THEOREM WhoTypesIsShown == TypingSpec => []TypingIsTold
<1>1. TypingInv => TypingIsTold
  <2> SUFFICES ASSUME TypingInv, heard, emitted = <<>>, pushed = <<>> PROVE TypingIsTold
    BY DEF TypingIsTold
  <2>1. OnTheWay = <<>>
    BY DEF OnTheWay
  <2>2. ToldAlready(<<>>)
    BY <2>1 DEF TypingInv
  <2>3. \A c \in Channels \union {0} : Untold(c, <<>>)
    BY DEF Untold
  <2> QED
    BY <2>2, <2>3 DEF TypingInv, TypingTypeOK, ToldAlready, TypingIsTold, Shows
<1> QED
  BY <1>1, TypingInvHolds, PTL

-----------------------------------------------------------------------------
(* Conversations *)

DMSpec == DMInit /\ [][DMNext]_dmVars

(* What a command and a frame are made of.                                 *)
LEMMA CommandFacts ==
  ASSUME NEW o \in Commands
  PROVE  /\ o.kind \in {"open", "close", "list"} /\ o.id \in Nat /\ o.listed \subseteq Peers
         /\ o.peer \in Peers \union {NoPeer} /\ (o.kind # "list" => o.peer \in Peers)
BY DEF Commands, ListCommands, PeerCommands

LEMMA QueueElements ==
  ASSUME DMTypeOK
  PROVE  /\ \A i \in DOMAIN orders : i \in Nat /\ orders[i] \in Commands
              /\ orders[i].id \in Nat
         /\ \A i \in DOMAIN atHub : i \in Nat /\ atHub[i] \in Commands
              /\ atHub[i].id \in Nat
         /\ \A i \in DOMAIN arriving : i \in Nat /\ arriving[i] \in Frames
              /\ arriving[i].id \in Nat
<1>1. orders \in Seq(Commands) /\ atHub \in Seq(Commands) /\ arriving \in Seq(Frames)
  BY DEF DMTypeOK
<1>2. /\ \A i \in DOMAIN orders : i \in Nat /\ orders[i] \in Commands
      /\ \A i \in DOMAIN atHub : i \in Nat /\ atHub[i] \in Commands
      /\ \A i \in DOMAIN arriving : i \in Nat /\ arriving[i] \in Frames
  BY <1>1
<1>3. \A f \in Frames : f.id \in Nat
  BY DEF Frames, NewsFrames, AnswerFrames
<1> QED
  BY <1>2, <1>3, CommandFacts

(* The only command there is, on a new connection.                         *)
ListCommand == [kind |-> "list", peer |-> NoPeer, id |-> 0, selected |-> NoPeer,
    listed |-> {}]

LEMMA FirstList ==
  ASSUME NEW o, o = ListCommand
  PROVE  /\ o \in Commands /\ o.id = 0 /\ o.kind = "list"
         /\ <<o>> \in Seq(Commands) /\ DOMAIN <<o>> = {1} /\ <<o>>[1] = o /\ <<o>> # <<>>
<1>1. o \in Commands /\ o.id = 0 /\ o.kind = "list"
  BY DEF Commands, ListCommands, ListCommand
<1> QED
  BY <1>1

(* A new connection asks for the list and has heard nothing.               *)
LEMMA FreshConnection ==
  ASSUME given \in Nat, NEW o, o = ListCommand,
         orders = <<o>>, atHub = <<o>>, arriving = <<>>
  PROVE  DMInOrder /\ DMAwaited /\ DMFollows
<1>1. o.id = 0 /\ o.kind = "list" /\ DOMAIN orders = {1} /\ DOMAIN atHub = {1}
      /\ orders[1] = o /\ atHub[1] = o
  BY FirstList
<1>2. DOMAIN arriving = {} /\ 0 <= given
  OBVIOUS
<1>3. DMInOrder
  BY <1>1, <1>2 DEF DMInOrder, Increasing
<1>4. DMAwaited
  BY <1>1, <1>2 DEF DMAwaited
<1>5. DMFollows
  BY <1>1, <1>2 DEF DMFollows, LastSays, ListAsked
<1> QED
  BY <1>3, <1>4, <1>5

LEMMA InitDMInv == DMInit => DMInv
<1> SUFFICES ASSUME DMInit PROVE DMInv
  OBVIOUS
<1>1. PICK o : o = ListCommand
  OBVIOUS
<1>2. /\ orders = <<o>> /\ atHub = <<o>> /\ arriving = <<>> /\ given = 0 /\ dmOnline = TRUE
      /\ created \in SUBSET Peers /\ unhidden = created /\ dmList = {} /\ current = NoPeer
      /\ unrevealed = {} /\ unsure = FALSE
  BY <1>1 DEF DMInit, ListCommand
<1>3. <<o>> \in Seq(Commands) /\ arriving \in Seq(Frames)
  BY <1>1, <1>2, FirstList, EmptySeq
<1>4. DMTypeOK
  BY <1>2, <1>3 DEF DMTypeOK
<1>5. DMInOrder /\ DMAwaited /\ DMFollows
  BY <1>1, <1>2, FreshConnection
<1> QED
  BY <1>2, <1>4, <1>5 DEF DMInv

(* Once a close or a list is answered, the hub has no command left.        *)
LEMMA NothingAtHub ==
  ASSUME DMTypeOK, DMInOrder, DMAwaited, NEW i \in DOMAIN arriving,
         arriving[i].kind \in {"closed", "listed"}
  PROVE  DOMAIN atHub = {}
<1> SUFFICES ASSUME NEW j \in DOMAIN atHub PROVE FALSE
  OBVIOUS
<1>1. orders # <<>> /\ orders[1].id = arriving[i].id /\ IsAnswer(arriving[i])
  BY DEF DMAwaited, Settles, IsAnswer
<1>2. atHub[j].id <= orders[1].id /\ arriving[i].id < atHub[j].id
  BY <1>1 DEF DMInOrder
<1> QED
  BY <1>1, <1>2, QueueElements

-----------------------------------------------------------------------------
(* Conversations: the order of commands and answers *)

(* The hub answers the first of its commands.                              *)
LEMMA AnsweringKeepsOrder ==
  ASSUME DMTypeOK, DMInOrder, DMAwaited, NEW f \in Frames, atHub # <<>>,
         atHub' = Tail(atHub), arriving' = Append(arriving, f), f.id = Head(atHub).id,
         UNCHANGED <<orders, given>>,
         f.kind \in {"closed", "listed"} => Settles(f, Head(atHub))
             /\ Head(atHub).kind # "open"
  PROVE  DMInOrder' /\ DMAwaited'
<1>0. atHub \in Seq(Commands) /\ arriving \in Seq(Frames)
  BY DEF DMTypeOK
<1>1. /\ \A i \in DOMAIN arriving : i \in DOMAIN arriving' /\ arriving'[i] = arriving[i]
      /\ \A i \in DOMAIN arriving' : i \in Nat /\ (i \in DOMAIN arriving
           \/ i = Len(arriving) + 1)
      /\ arriving'[Len(arriving) + 1] = f
           /\ \A i \in DOMAIN arriving : i < Len(arriving) + 1
  BY <1>0, AppendFacts
<1>2. /\ Head(atHub) = atHub[1] /\ 1 \in DOMAIN atHub
      /\ \A j \in DOMAIN atHub' : j \in Nat /\ j >= 1 /\ j + 1 \in DOMAIN atHub
           /\ atHub'[j] = atHub[j + 1]
  BY <1>0, TailFacts
<1>3. \A i \in DOMAIN arriving' : \/ i \in DOMAIN arriving /\ arriving'[i] = arriving[i]
                                  \/ i = Len(arriving) + 1 /\ arriving'[i] = f
  BY <1>1
<1>4. /\ \A i \in DOMAIN atHub, j \in DOMAIN atHub : i < j => atHub[i].id < atHub[j].id
      /\ \A j \in DOMAIN atHub : atHub[j].id <= given /\ (orders # <<>>
           => atHub[j].id <= orders[1].id)
      /\ \A i \in DOMAIN arriving : IsAnswer(arriving[i]) =>
             /\ arriving[i].id <= given /\ (orders # <<>> => arriving[i].id <= orders[1].id)
             /\ \A j \in DOMAIN atHub : arriving[i].id < atHub[j].id
             /\ \A j \in DOMAIN arriving : IsAnswer(arriving[j]) /\ i < j
                  => arriving[i].id < arriving[j].id
  BY DEF DMInOrder, Increasing
<1>5. ASSUME NEW j \in DOMAIN atHub'
      PROVE  /\ \A k \in DOMAIN atHub' : j < k => atHub'[j].id < atHub'[k].id
             /\ atHub'[j].id <= given /\ (orders # <<>> => atHub'[j].id <= orders[1].id)
             /\ f.id < atHub'[j].id
             /\ \A i \in DOMAIN arriving : IsAnswer(arriving[i])
                  => arriving[i].id < atHub'[j].id
  <2>1. j + 1 \in DOMAIN atHub /\ atHub'[j] = atHub[j + 1] /\ 1 < j + 1 /\ j \in Nat
    BY <1>2
  <2>2. \A k \in DOMAIN atHub' : j < k => k + 1 \in DOMAIN atHub
          /\ atHub'[k] = atHub[k + 1] /\ j + 1 < k + 1
    BY <1>2, <2>1
  <2> QED
    BY <1>2, <1>4, <2>1, <2>2
<1>6. ASSUME NEW i \in DOMAIN arriving', IsAnswer(arriving'[i])
      PROVE  /\ arriving'[i].id <= given /\ (orders # <<>>
                  => arriving'[i].id <= orders[1].id)
             /\ \A j \in DOMAIN atHub' : arriving'[i].id < atHub'[j].id
             /\ \A j \in DOMAIN arriving' : IsAnswer(arriving'[j]) /\ i < j
                  => arriving'[i].id < arriving'[j].id
  <2>1. CASE i \in DOMAIN arriving /\ arriving'[i] = arriving[i]
    <3>1. ASSUME NEW j \in DOMAIN arriving', IsAnswer(arriving'[j]), i < j
          PROVE  arriving'[i].id < arriving'[j].id
      <4>1. CASE j \in DOMAIN arriving /\ arriving'[j] = arriving[j]
        BY <1>4, <1>6, <2>1, <3>1, <4>1
      <4>2. CASE arriving'[j] = f
        BY <1>2, <1>4, <1>6, <2>1, <4>2
      <4> QED
        BY <1>3, <4>1, <4>2
    <3> QED
      BY <1>4, <1>5, <1>6, <2>1, <3>1
  <2>2. CASE i = Len(arriving) + 1 /\ arriving'[i] = f
    <3>1. \A j \in DOMAIN arriving' : ~(i < j)
      BY <1>0, <1>1, <2>2, LenProperties
    <3> QED
      BY <1>2, <1>4, <1>5, <2>2, <3>1
  <2> QED
    BY <1>3, <2>1, <2>2
<1>7. DMInOrder'
  BY <1>5, <1>6 DEF DMInOrder, Increasing
<1>8. ASSUME NEW i \in DOMAIN arriving', arriving'[i].kind \in {"closed", "listed"}
      PROVE  orders # <<>> /\ Settles(arriving'[i], orders[1])
  <2>1. CASE i \in DOMAIN arriving /\ arriving'[i] = arriving[i]
    BY <1>8, <2>1 DEF DMAwaited
  <2>2. CASE arriving'[i] = f
    BY <1>2, <1>8, <2>2 DEF DMAwaited
  <2> QED
    BY <1>3, <2>1, <2>2
<1>9. DMAwaited'
  BY <1>2, <1>8 DEF DMAwaited
<1> QED
  BY <1>7, <1>9

(* The news of a message or an open_dm answers no command.                 *)
LEMMA NewsKeepsOrder ==
  ASSUME DMTypeOK, DMInOrder, DMAwaited, NEW f \in Frames, ~IsAnswer(f),
         arriving' = Append(arriving, f), UNCHANGED <<orders, atHub, given>>
  PROVE  DMInOrder' /\ DMAwaited'
<1>1. arriving \in Seq(Frames)
  BY DEF DMTypeOK
<1>2. /\ \A i \in DOMAIN arriving' : i \in DOMAIN arriving \/ i = Len(arriving) + 1
      /\ \A i \in DOMAIN arriving : arriving'[i] = arriving[i]
      /\ arriving'[Len(arriving) + 1] = f
  BY <1>1, AppendFacts
<1>3. \A i \in DOMAIN arriving' : \/ i \in DOMAIN arriving /\ arriving'[i] = arriving[i]
                                  \/ arriving'[i] = f
  BY <1>2
<1>4. DMInOrder'
  BY <1>3 DEF DMInOrder
<1>5. DMAwaited'
  BY <1>3 DEF DMAwaited, IsAnswer
<1> QED
  BY <1>4, <1>5

(* A frame is taken and leaves the commands as they are.                   *)
LEMMA TakingKeepsOrder ==
  ASSUME DMTypeOK, DMInOrder, DMAwaited, arriving # <<>>, arriving' = Tail(arriving),
         UNCHANGED <<orders, atHub, given>>
  PROVE  DMInOrder' /\ DMAwaited'
<1>1. arriving \in Seq(Frames)
  BY DEF DMTypeOK
<1>2. \A i \in DOMAIN arriving' : i \in Nat /\ i + 1 \in DOMAIN arriving
        /\ arriving'[i] = arriving[i + 1]
  BY <1>1, TailFacts
<1>3. ASSUME NEW i \in DOMAIN arriving', IsAnswer(arriving'[i])
      PROVE  /\ arriving'[i].id <= given /\ (orders # <<>>
                  => arriving'[i].id <= orders[1].id)
             /\ \A j \in DOMAIN atHub : arriving'[i].id < atHub[j].id
             /\ \A j \in DOMAIN arriving' : IsAnswer(arriving'[j]) /\ i < j
                  => arriving'[i].id < arriving'[j].id
  <2>1. i \in Nat /\ i + 1 \in DOMAIN arriving /\ arriving'[i] = arriving[i + 1]
    BY <1>2
  <2>2. \A j \in DOMAIN arriving' : i < j => j + 1 \in DOMAIN arriving /\ i + 1 < j + 1
          /\ arriving'[j] = arriving[j + 1]
    BY <1>2, <2>1
  <2> QED
    BY <1>3, <2>1, <2>2 DEF DMInOrder
<1>4. DMInOrder'
  BY <1>3 DEF DMInOrder
<1>5. DMAwaited'
  BY <1>2 DEF DMAwaited
<1> QED
  BY <1>4, <1>5

(* A frame is taken and settles the first command: the next one is sent.   *)
LEMMA SettlingKeepsOrder ==
  ASSUME DMTypeOK, DMInOrder, DMAwaited, arriving # <<>>, arriving' = Tail(arriving),
         orders # <<>>, SettleOrder, UNCHANGED given,
         \A j \in DOMAIN atHub : atHub[j].kind = "open",
         \A i \in DOMAIN arriving' : arriving'[i].kind \notin {"closed", "listed"}
  PROVE  DMInOrder' /\ DMAwaited'
<1>1. arriving \in Seq(Frames) /\ orders \in Seq(Commands) /\ atHub \in Seq(Commands)
  BY DEF DMTypeOK
<1>2. \A i \in DOMAIN arriving' : i \in Nat /\ i + 1 \in DOMAIN arriving
        /\ arriving'[i] = arriving[i + 1]
  BY <1>1, TailFacts
<1>3. /\ orders' = Tail(orders) /\ orders' \in Seq(Commands) /\ 1 \in DOMAIN orders
      /\ \A i \in DOMAIN orders' : i \in Nat /\ i >= 1 /\ i + 1 \in DOMAIN orders
           /\ orders'[i] = orders[i + 1]
  BY <1>1, TailFacts DEF SettleOrder
<1>4. orders' # <<>> => 1 \in DOMAIN orders' /\ orders'[1] \in Commands
        /\ Head(orders') = orders'[1]
  BY <1>3, TailFacts
<1>5. orders' # <<>> => atHub' = Append(atHub, orders'[1])
  BY <1>3, <1>4 DEF SettleOrder
<1>6. orders' = <<>> => atHub' = atHub
  BY <1>3 DEF SettleOrder
<1>7. ASSUME NEW j \in DOMAIN atHub'
      PROVE  \/ j \in DOMAIN atHub /\ atHub'[j] = atHub[j]
             \/ orders' # <<>> /\ j = Len(atHub) + 1 /\ atHub'[j] = orders'[1]
  <2>1. CASE orders' = <<>>
    BY <1>6, <1>7, <2>1
  <2>2. CASE orders' # <<>>
    BY <1>1, <1>4, <1>5, <1>7, <2>2, AppendFacts
  <2> QED
    BY <2>1, <2>2
<1>8. \A j \in DOMAIN atHub : j \in Nat /\ j < Len(atHub) + 1
  BY <1>1, AppendFacts, LenProperties
<1>9. ASSUME orders' # <<>>
      PROVE  /\ orders[1].id < orders'[1].id /\ orders'[1].id <= given
             /\ orders[1].id \in Nat /\ orders'[1].id \in Nat
  <2>1. 2 \in DOMAIN orders /\ orders'[1] = orders[2]
    BY <1>3, <1>4, <1>9
  <2> QED
    BY <1>3, <2>1, QueueElements DEF DMInOrder, Increasing
<1>10. Increasing(orders')
  <2> SUFFICES ASSUME NEW i \in DOMAIN orders', NEW j \in DOMAIN orders', i < j
               PROVE  orders'[i].id < orders'[j].id
    BY DEF Increasing
  <2>1. /\ i + 1 \in DOMAIN orders /\ j + 1 \in DOMAIN orders /\ i + 1 < j + 1
        /\ orders'[i] = orders[i + 1] /\ orders'[j] = orders[j + 1]
    BY <1>3
  <2> QED
    BY <2>1 DEF DMInOrder, Increasing
<1>11. ASSUME NEW j \in DOMAIN atHub'
       PROVE  /\ atHub'[j].id <= given /\ (orders' # <<>> => atHub'[j].id <= orders'[1].id)
              /\ \A k \in DOMAIN atHub' : j < k => atHub'[j].id < atHub'[k].id
  <2>1. CASE j \in DOMAIN atHub /\ atHub'[j] = atHub[j]
    <3>1. atHub[j].id <= given /\ atHub[j].id <= orders[1].id /\ atHub[j].id \in Nat
      BY <2>1, QueueElements DEF DMInOrder
    <3>2. orders' # <<>> => atHub[j].id < orders'[1].id
      BY <1>9, <3>1
    <3>3. ASSUME NEW k \in DOMAIN atHub', j < k
          PROVE  atHub'[j].id < atHub'[k].id
      <4>1. CASE k \in DOMAIN atHub /\ atHub'[k] = atHub[k]
        BY <2>1, <3>3, <4>1 DEF DMInOrder, Increasing
      <4>2. CASE orders' # <<>> /\ atHub'[k] = orders'[1]
        BY <2>1, <3>2, <4>2
      <4> QED
        BY <1>7, <4>1, <4>2
    <3>4. orders' # <<>> => atHub[j].id <= orders'[1].id
      BY <1>9, <3>1, <3>2
    <3> QED
      BY <2>1, <3>1, <3>3, <3>4
  <2>2. CASE orders' # <<>> /\ j = Len(atHub) + 1 /\ atHub'[j] = orders'[1]
    <3>1. ASSUME NEW k \in DOMAIN atHub', j < k
          PROVE  FALSE
      BY <1>7, <1>8, <2>2, <1>1, LenProperties, <3>1
    <3>2. orders'[1].id <= orders'[1].id
      BY <1>9, <2>2
    <3> QED
      BY <1>9, <2>2, <3>1, <3>2
  <2> QED
    BY <1>7, <2>1, <2>2
<1>12. ASSUME NEW i \in DOMAIN arriving', IsAnswer(arriving'[i])
       PROVE  /\ arriving'[i].id <= given /\ (orders' # <<>>
                   => arriving'[i].id <= orders'[1].id)
              /\ \A j \in DOMAIN atHub' : arriving'[i].id < atHub'[j].id
              /\ \A j \in DOMAIN arriving' : IsAnswer(arriving'[j]) /\ i < j
                   => arriving'[i].id < arriving'[j].id
  <2>1. i \in Nat /\ i + 1 \in DOMAIN arriving /\ arriving'[i] = arriving[i + 1]
          /\ arriving[i + 1].id \in Nat
    BY <1>2, QueueElements
  <2>2. \A j \in DOMAIN arriving' : i < j => j + 1 \in DOMAIN arriving /\ i + 1 < j + 1
          /\ arriving'[j] = arriving[j + 1]
    BY <1>2, <2>1
  <2>3. /\ arriving[i + 1].id <= given /\ arriving[i + 1].id <= orders[1].id
        /\ \A j \in DOMAIN atHub : arriving[i + 1].id < atHub[j].id
        /\ \A j \in DOMAIN arriving : IsAnswer(arriving[j]) /\ i + 1 < j
             => arriving[i + 1].id < arriving[j].id
    BY <1>12, <2>1 DEF DMInOrder
  <2>4. orders' # <<>> => arriving'[i].id < orders'[1].id
          /\ arriving'[i].id <= orders'[1].id
    BY <1>9, <2>1, <2>3
  <2>5. \A j \in DOMAIN atHub' : arriving'[i].id < atHub'[j].id
    BY <1>7, <2>1, <2>3, <2>4
  <2> QED
    BY <2>1, <2>2, <2>3, <2>4, <2>5
<1>13. \A i \in DOMAIN orders' : orders'[i].id <= given
  BY <1>3 DEF DMInOrder
<1>14. DMInOrder'
  BY <1>10, <1>11, <1>12, <1>13 DEF DMInOrder, Increasing
<1>15. DMAwaited'
  BY <1>7 DEF DMAwaited
<1> QED
  BY <1>14, <1>15

(* A new command is sent at once only when nothing else waits for one.     *)
LEMMA GivingKeepsOrder ==
  ASSUME DMTypeOK, DMInOrder, DMAwaited, NEW o \in PeerCommands, given' = given + 1,
           o.id = given',
         orders' = Append(orders, o), UNCHANGED arriving,
         atHub' = IF orders = <<>> THEN Append(atHub, Head(orders')) ELSE atHub
  PROVE  DMInOrder' /\ DMAwaited' /\ orders' \in Seq(Commands) /\ atHub' \in Seq(Commands)
<1>1. /\ arriving \in Seq(Frames) /\ orders \in Seq(Commands) /\ atHub \in Seq(Commands)
      /\ given \in Nat /\ o \in Commands /\ o.kind # "list"
  BY DEF DMTypeOK, Commands, PeerCommands
<1>2. /\ orders' \in Seq(Commands) /\ orders' # <<>>
      /\ \A i \in DOMAIN orders : i \in DOMAIN orders' /\ orders'[i] = orders[i]
           /\ i < Len(orders) + 1
      /\ \A i \in DOMAIN orders' : i \in Nat /\ (i \in DOMAIN orders
           \/ (i = Len(orders) + 1 /\ orders'[i] = o))
      /\ Len(orders) \in Nat
  BY <1>1, AppendFacts, LenProperties
<1>3. orders = <<>> => orders'[1] = o /\ Head(orders') = o
  BY <1>1, <1>2
<1>4. orders # <<>> => orders'[1] = orders[1]
  BY <1>1, <1>2, TailFacts
<1>5. ASSUME NEW j \in DOMAIN atHub'
      PROVE  \/ j \in DOMAIN atHub /\ atHub'[j] = atHub[j]
             \/ orders = <<>> /\ j = Len(atHub) + 1 /\ atHub'[j] = o
  BY <1>1, <1>3, AppendFacts
<1>6. atHub' \in Seq(Commands)
  BY <1>1, <1>3, AppendFacts
<1>7. \A j \in DOMAIN atHub : j \in Nat /\ j < Len(atHub) + 1
  BY <1>1, AppendFacts, LenProperties
<1>8. /\ \A i \in DOMAIN orders : orders[i].id \in Nat /\ orders[i].id < o.id
      /\ \A j \in DOMAIN atHub : atHub[j].id \in Nat /\ atHub[j].id < o.id
      /\ \A i \in DOMAIN arriving : IsAnswer(arriving[i]) => arriving[i].id < o.id
      /\ o.id \in Nat /\ given' = o.id
  BY <1>1, QueueElements DEF DMInOrder
<1>9. Increasing(orders')
  <2> SUFFICES ASSUME NEW i \in DOMAIN orders', NEW j \in DOMAIN orders', i < j
               PROVE  orders'[i].id < orders'[j].id
    BY DEF Increasing
  <2>1. CASE j \in DOMAIN orders
    <3>1. i \in DOMAIN orders
      BY <1>2, <2>1
    <3> QED
      BY <1>2, <2>1, <3>1 DEF DMInOrder, Increasing
  <2>2. CASE j = Len(orders) + 1 /\ orders'[j] = o
    <3>1. i \in DOMAIN orders
      BY <1>2, <2>2
    <3> QED
      BY <1>2, <1>8, <2>2, <3>1
  <2> QED
    BY <1>2, <2>1, <2>2
<1>10. Increasing(atHub')
  <2> SUFFICES ASSUME NEW i \in DOMAIN atHub', NEW j \in DOMAIN atHub', i < j
               PROVE  atHub'[i].id < atHub'[j].id
    BY DEF Increasing
  <2>1. i \in DOMAIN atHub /\ atHub'[i] = atHub[i]
    BY <1>1, <1>5, <1>7, LenProperties
  <2> QED
    BY <1>5, <1>8, <2>1 DEF DMInOrder, Increasing
<1>11. \A i \in DOMAIN orders' : orders'[i].id <= given'
  BY <1>2, <1>8
<1>12. ASSUME NEW j \in DOMAIN atHub'
       PROVE  atHub'[j].id <= given' /\ atHub'[j].id <= orders'[1].id
  <2>1. CASE j \in DOMAIN atHub /\ atHub'[j] = atHub[j]
    <3>1. CASE orders = <<>>
      BY <1>3, <1>8, <2>1, <3>1
    <3>2. CASE orders # <<>>
      BY <1>4, <1>8, <2>1, <3>2 DEF DMInOrder
    <3> QED
      BY <3>1, <3>2
  <2>2. CASE orders = <<>> /\ atHub'[j] = o
    BY <1>3, <1>8, <2>2
  <2> QED
    BY <1>5, <2>1, <2>2
<1>13. ASSUME NEW i \in DOMAIN arriving, IsAnswer(arriving[i])
       PROVE  /\ arriving[i].id <= given' /\ arriving[i].id <= orders'[1].id
              /\ \A j \in DOMAIN atHub' : arriving[i].id < atHub'[j].id
  <2>1. arriving[i].id < o.id /\ arriving[i].id \in Nat
    BY <1>8, <1>13, QueueElements
  <2>2. arriving[i].id <= orders'[1].id
    <3>1. CASE orders = <<>>
      BY <1>3, <1>8, <2>1, <3>1
    <3>2. CASE orders # <<>>
      BY <1>4, <1>13, <3>2 DEF DMInOrder
    <3> QED
      BY <3>1, <3>2
  <2>3. \A j \in DOMAIN atHub' : arriving[i].id < atHub'[j].id
    BY <1>5, <1>13, <2>1 DEF DMInOrder
  <2> QED
    BY <1>8, <2>1, <2>2, <2>3
<1>14. DMInOrder'
  <2>1. \A i \in DOMAIN arriving : IsAnswer(arriving[i]) =>
           \A j \in DOMAIN arriving : IsAnswer(arriving[j]) /\ i < j
               => arriving[i].id < arriving[j].id
    BY DEF DMInOrder
  <2> QED
    BY <1>9, <1>10, <1>11, <1>12, <1>13, <2>1 DEF DMInOrder
<1>15. DMAwaited'
  <2>1. ASSUME NEW j \in DOMAIN atHub', atHub'[j].kind # "open"
        PROVE  orders'[1] = atHub'[j]
    <3>1. CASE j \in DOMAIN atHub /\ atHub'[j] = atHub[j]
      BY <1>4, <2>1, <3>1 DEF DMAwaited
    <3>2. CASE orders = <<>> /\ atHub'[j] = o
      BY <1>3, <3>2
    <3> QED
      BY <1>5, <3>1, <3>2
  <2>2. \A i \in DOMAIN arriving : arriving[i].kind \in {"closed", "listed"} =>
           orders # <<>> /\ Settles(arriving[i], orders[1])
    BY DEF DMAwaited
  <2> QED
    BY <1>2, <1>4, <2>1, <2>2 DEF DMAwaited
<1> QED
  BY <1>2, <1>6, <1>14, <1>15

-----------------------------------------------------------------------------
(* Conversations: what the last word says *)

(* What is added is the last word on what it is about.                     *)
LEMMA AddedIsLast ==
  ASSUME DMTypeOK, NEW f \in Frames, arriving' = Append(arriving, f)
  PROVE  /\ arriving' \in Seq(Frames)
         /\ \A p \in Peers : NoWordOn(p)' => NoWordOn(p) /\ ~About(f, p)
         /\ \A i \in DOMAIN arriving' : \/ arriving'[i] = f
                                        \/ /\ i \in DOMAIN arriving
                                            /\ arriving'[i] = arriving[i]
                                           /\ \A p \in Peers :
                                                (\A j \in DOMAIN arriving' : j > i
                                                    => ~About(arriving'[j], p))
                                                   => /\ ~About(f, p)
                                                      /\ \A j \in DOMAIN arriving : j > i => ~About(arriving[j], p)
<1>1. arriving \in Seq(Frames)
  BY DEF DMTypeOK
<1>2. /\ arriving' \in Seq(Frames)
      /\ \A i \in DOMAIN arriving : i \in DOMAIN arriving' /\ arriving'[i] = arriving[i]
      /\ \A i \in DOMAIN arriving' : i \in DOMAIN arriving \/ i = Len(arriving) + 1
      /\ Len(arriving) + 1 \in DOMAIN arriving' /\ arriving'[Len(arriving) + 1] = f
      /\ \A i \in DOMAIN arriving : i \in Nat /\ Len(arriving) + 1 > i
  BY <1>1, AppendFacts, LenProperties
<1> QED
  BY <1>2 DEF NoWordOn

(* An answer is, when no close and no list was answered before.            *)
LEMMA AnswerIsLastWord ==
  ASSUME DMTypeOK, DMInOrder, DMAwaited, NEW f \in Frames, arriving' = Append(arriving, f),
         atHub # <<>>, \A p \in Peers : About(f, p) => Says(f, p, unhidden')
  PROVE  LastSays(arriving, unhidden)'
<1>1. 1 \in DOMAIN atHub
  BY TailFacts DEF DMTypeOK
<1>2. \A i \in DOMAIN arriving : arriving[i].kind \notin {"closed", "listed"}
  BY <1>1, NothingAtHub
<1>3. \A i \in DOMAIN arriving' : arriving'[i] = f \/ arriving'[i].kind \notin {"closed",
        "listed"}
  BY <1>2, AddedIsLast
<1> QED
  BY <1>3 DEF LastSays, Says

(* What is taken was a last word or not the last one.                      *)
LEMMA TakenWasAWord ==
  ASSUME DMTypeOK, LastSays(arriving, unhidden), arriving # <<>>,
           arriving' = Tail(arriving),
         unhidden' = unhidden
  PROVE  /\ arriving' \in Seq(Frames) /\ LastSays(arriving, unhidden)'
         /\ \A p \in Peers : NoWordOn(p)' => \/ NoWordOn(p)
                                             \/ About(arriving[1], p) /\ Says(arriving[1],
                                                 p, unhidden)
<1>1. arriving \in Seq(Frames)
  BY DEF DMTypeOK
<1>2. /\ arriving' \in Seq(Frames) /\ 1 \in DOMAIN arriving
      /\ \A i \in DOMAIN arriving' : i \in Nat /\ i >= 1 /\ i + 1 \in DOMAIN arriving
           /\ arriving'[i] = arriving[i + 1]
      /\ \A i \in DOMAIN arriving : i \in Nat /\ (i = 1 \/ (i - 1 \in DOMAIN arriving'
           /\ arriving'[i - 1] = arriving[i]))
  BY <1>1, TailFacts
<1>3. ASSUME NEW p \in Peers, NEW i \in DOMAIN arriving',
             \A j \in DOMAIN arriving' : j > i => ~About(arriving'[j], p)
      PROVE  \A j \in DOMAIN arriving : j > i + 1 => ~About(arriving[j], p)
  <2> SUFFICES ASSUME NEW j \in DOMAIN arriving, j > i + 1 PROVE ~About(arriving[j], p)
    OBVIOUS
  <2>1. i \in Nat /\ j \in Nat /\ j # 1
    BY <1>2
  <2>2. j - 1 \in DOMAIN arriving' /\ arriving'[j - 1] = arriving[j] /\ j - 1 > i
    BY <1>2, <2>1
  <2> QED
    BY <1>3, <2>2
<1>4. LastSays(arriving', unhidden)
  BY <1>2, <1>3 DEF LastSays
<1>5. ASSUME NEW p \in Peers, NoWordOn(p)', ~NoWordOn(p)
      PROVE  About(arriving[1], p) /\ Says(arriving[1], p, unhidden)
  <2>1. \A j \in DOMAIN arriving : j # 1 => ~About(arriving[j], p)
    <3> SUFFICES ASSUME NEW j \in DOMAIN arriving, j # 1 PROVE ~About(arriving[j], p)
      OBVIOUS
    <3>1. j - 1 \in DOMAIN arriving' /\ arriving'[j - 1] = arriving[j]
      BY <1>2
    <3> QED
      BY <1>5, <3>1 DEF NoWordOn
  <2>2. About(arriving[1], p)
    BY <1>5, <2>1 DEF NoWordOn
  <2> QED
    BY <1>2, <2>1, <2>2 DEF LastSays
<1>6. LastSays(arriving, unhidden)'
  BY <1>4
<1> QED
  BY <1>2, <1>5, <1>6

(* Settling asks for no list, and the commands at the hub stay commands.   *)
LEMMA SettlingFacts ==
  ASSUME DMTypeOK, orders # <<>>, SettleOrder, DMInOrder, DMAwaited
  PROVE  /\ orders' \in Seq(Commands) /\ atHub' \in Seq(Commands)
         /\ ListAsked => ListAsked'
<1>1. orders \in Seq(Commands) /\ atHub \in Seq(Commands) /\ Tail(orders) \in Seq(Commands)
  BY TailFacts DEF DMTypeOK
<1>2. Tail(orders) # <<>> => Head(Tail(orders)) \in Commands
  BY <1>1, TailFacts
<1>3. CASE Tail(orders) = <<>>
  BY <1>1, <1>3 DEF SettleOrder, ListAsked
<1>4. CASE Tail(orders) # <<>>
  <2>1. atHub' = Append(atHub, Head(Tail(orders)))
    BY <1>4 DEF SettleOrder
  <2> QED
    BY <1>1, <1>2, <1>4, <2>1, AppendFacts DEF SettleOrder, ListAsked
<1> QED
  BY <1>3, <1>4

-----------------------------------------------------------------------------
(* Conversations: the steps *)

LEMMA FrameFacts ==
  ASSUME DMTypeOK, NEW o \in Commands, NEW kind \in {"opened", "closed", "listed", "error"},
         kind = "opened" => o.kind = "open"
  PROVE  /\ Frame(kind, o) \in Frames /\ Frame(kind, o).kind = kind /\ Frame(kind,
              o).peer = o.peer
         /\ Frame(kind, o).id = o.id /\ Frame(kind, o).list = unhidden
<1>1. /\ o.peer \in Peers \union {NoPeer} /\ o.id \in Nat /\ unhidden \in SUBSET Peers
      /\ kind = "opened" => o.peer \in Peers
  BY CommandFacts DEF DMTypeOK
<1> QED
  BY <1>1 DEF Frame, Frames, NewsFrames, AnswerFrames

LEMMA OpeningFacts ==
  ASSUME DMTypeOK, NEW p \in Peers, OpenInStorage(p)
  PROVE  /\ unhidden' \subseteq created' /\ created' \subseteq Peers
         /\ \A q \in Peers : q # p => (q \in unhidden' <=> q \in unhidden)
BY DEF OpenInStorage, DMTypeOK

(* The hub answers, and storage changes with the answer.                   *)
LEMMA HubKeepsDMInv ==
  ASSUME DMInv, DMAnswers \/ DMRefuses
  PROVE  DMInv'
<1>1. /\ DMTypeOK /\ dmOnline /\ DMInOrder /\ DMAwaited /\ DMFollows
      /\ atHub # <<>> /\ atHub' = Tail(atHub) /\ atHub \in Seq(Commands)
      /\ UNCHANGED <<dmOnline, orders, dmList, current, unrevealed, given>>
  BY DEF DMInv, DMAnswers, DMRefuses, DMTypeOK
<1>2. PICK o \in Commands : o = Head(atHub)
  BY <1>1, TailFacts
<1>3. /\ o = atHub[1] /\ 1 \in DOMAIN atHub /\ atHub' \in Seq(Commands)
      /\ \A j \in DOMAIN atHub' : j + 1 \in DOMAIN atHub /\ atHub'[j] = atHub[j + 1]
  BY <1>1, <1>2, TailFacts
<1>4. PICK kind \in {"opened", "closed", "listed", "error"} :
        /\ arriving' = Append(arriving, Frame(kind, o))
        /\ \/ /\ kind = "opened" /\ o.kind = "open" /\ OpenInStorage(o.peer)
             /\ unsure' = unsure
           \/ /\ kind = "closed" /\ o.kind = "close" /\ unhidden' = unhidden \ {o.peer}
              /\ UNCHANGED <<created, unsure>>
           \/ /\ kind = "listed" /\ o.kind = "list" /\ UNCHANGED <<created, unhidden,
               unsure>>
           \/ /\ kind = "error"
              /\ UNCHANGED <<created, unhidden>> \/ (o.kind = "open"
                   /\ OpenInStorage(o.peer))
              /\ unsure' = (unsure \/ o.kind = "list" \/ unhidden' # unhidden)
  <2>1. CASE DMAnswers
    <3>1. /\ unsure' = unsure
          /\ \/ /\ o.kind = "open" /\ OpenInStorage(o.peer)
                /\ arriving' = Append(arriving, Frame("opened", o))
             \/ /\ o.kind = "close" /\ unhidden' = unhidden \ {o.peer} /\ UNCHANGED created
                /\ arriving' = Append(arriving, Frame("closed", o))
             \/ /\ o.kind = "list" /\ UNCHANGED <<created, unhidden>>
                /\ arriving' = Append(arriving, Frame("listed", o))
      BY <1>2, <2>1 DEF DMAnswers
    <3> QED
      BY <3>1
  <2>2. CASE DMRefuses
    BY <1>2, <2>2 DEF DMRefuses
  <2> QED
    BY <1>1, <2>1, <2>2
<1>5. PICK f \in Frames : /\ f = Frame(kind, o) /\ f.kind = kind /\ f.peer = o.peer
        /\ f.id = o.id
                          /\ f.list = unhidden
  BY <1>1, <1>4, FrameFacts
<1>6. arriving' = Append(arriving, f)
  BY <1>4, <1>5
<1>7. \/ /\ f.kind = "opened" /\ o.kind = "open" /\ OpenInStorage(o.peer)
        /\ unsure' = unsure
      \/ /\ f.kind = "closed" /\ o.kind = "close" /\ unhidden' = unhidden \ {o.peer}
         /\ UNCHANGED <<created, unsure>>
      \/ /\ f.kind = "listed" /\ o.kind = "list" /\ UNCHANGED <<created, unhidden, unsure>>
      \/ /\ f.kind = "error"
         /\ UNCHANGED <<created, unhidden>> \/ (o.kind = "open" /\ OpenInStorage(o.peer))
         /\ unsure' = (unsure \/ o.kind = "list" \/ unhidden' # unhidden)
  BY <1>4, <1>5
<1> HIDE DEF Frame
<1>8. o.kind # "list" => o.peer \in Peers
  BY CommandFacts
<1>9. /\ unhidden' \subseteq created' /\ created' \subseteq Peers /\ unsure' \in BOOLEAN
      /\ \A q \in Peers : ~About(f, q) => (q \in unhidden' <=> q \in unhidden) \/ unsure'
      /\ \A q \in Peers : About(f, q) => Says(f, q, unhidden')
  <2>1. unhidden \subseteq created /\ created \subseteq Peers /\ unsure \in BOOLEAN
    BY <1>1 DEF DMTypeOK
  <2>2. CASE f.kind = "opened"
    <3>1. o.peer \in Peers /\ OpenInStorage(o.peer) /\ unsure' = unsure
      BY <1>7, <1>8, <2>2
    <3> QED
      BY <1>1, <1>5, <2>1, <2>2, <3>1, OpeningFacts DEF About, Says
  <2>3. CASE f.kind = "closed"
    <3>1. unhidden' = unhidden \ {o.peer} /\ UNCHANGED <<created, unsure>>
      BY <1>7, <2>3
    <3> QED
      BY <1>5, <2>1, <2>3, <3>1 DEF About, Says
  <2>4. CASE f.kind = "listed"
    <3>1. UNCHANGED <<created, unhidden, unsure>>
      BY <1>7, <2>4
    <3> QED
      BY <1>5, <2>1, <2>4, <3>1 DEF About, Says
  <2>5. CASE f.kind = "error"
    <3>1. unsure' = (unsure \/ o.kind = "list" \/ unhidden' # unhidden)
      BY <1>7, <2>5
    <3>2. unhidden' \subseteq created' /\ created' \subseteq Peers
      BY <1>1, <1>7, <1>8, <2>1, <2>5, OpeningFacts
    <3>3. unsure' \in BOOLEAN
      BY <2>1, <3>1
    <3>4. ~unsure' => unhidden' = unhidden
      BY <3>1
    <3> QED
      BY <2>5, <3>2, <3>3, <3>4 DEF About
  <2> QED
    BY <1>7, <2>2, <2>3, <2>4, <2>5
<1>10. arriving' \in Seq(Frames) /\ \A p \in Peers : NoWordOn(p)' => NoWordOn(p)
         /\ ~About(f, p)
  BY <1>1, <1>6, AddedIsLast
<1>11. DMTypeOK'
  BY <1>1, <1>3, <1>9, <1>10 DEF DMTypeOK
<1>12. DMInOrder' /\ DMAwaited'
  <2>1. f.kind \in {"closed", "listed"} => Settles(f, o) /\ o.kind # "open"
    BY <1>5, <1>7 DEF Settles
  <2> QED
    BY <1>1, <1>2, <1>5, <1>6, <2>1, AnsweringKeepsOrder
<1>13. LastSays(arriving, unhidden)'
  BY <1>1, <1>6, <1>9, AnswerIsLastWord
<1>14. ASSUME ~unsure', ~ListAsked', NEW p \in Peers, NoWordOn(p)'
       PROVE  p \in dmList <=> p \in unhidden' \union unrevealed
  <2>1. NoWordOn(p) /\ ~About(f, p) /\ (p \in unhidden' <=> p \in unhidden)
    BY <1>9, <1>10, <1>14
  <2>2. ~unsure /\ o.kind # "list"
    <3>1. f.kind # "listed"
      BY <2>1 DEF About
    <3>2. \/ unsure' = unsure /\ o.kind # "list"
          \/ unsure' = (unsure \/ o.kind = "list" \/ unhidden' # unhidden)
      BY <1>7, <3>1
    <3>3. CASE unsure' = unsure /\ o.kind # "list"
      BY <1>14, <3>3
    <3>4. CASE unsure' = (unsure \/ o.kind = "list" \/ unhidden' # unhidden)
      BY <1>14, <3>4
    <3> QED
      BY <3>2, <3>3, <3>4
  <2>3. ~ListAsked
    <3> SUFFICES ASSUME NEW j \in DOMAIN atHub, atHub[j].kind = "list" PROVE FALSE
      BY DEF ListAsked
    <3>1. j # 1
      BY <1>3, <2>2
    <3>2. j - 1 \in DOMAIN atHub' /\ atHub'[j - 1] = atHub[j]
      BY <1>1, <3>1, TailFacts
    <3> QED
      BY <1>14, <3>2 DEF ListAsked
  <2> QED
    BY <1>1, <2>1, <2>2, <2>3 DEF DMFollows
<1>15. DMFollows'
  BY <1>1, <1>13, <1>14 DEF DMFollows
<1> QED
  BY <1>1, <1>11, <1>12, <1>15 DEF DMInv

(* A message shows its conversation, and the event says so.                *)
LEMMA LettersKeepDMInv ==
  ASSUME DMInv, NEW p \in Peers, Letter(p)
  PROVE  DMInv'
<1>1. /\ DMTypeOK /\ p \in created /\ unhidden' = unhidden \union {p}
           /\ unrevealed' = unrevealed \ {p}
      /\ UNCHANGED <<created, dmOnline, orders, atHub, dmList, current, unsure, given>>
      /\ arriving \in Seq(Frames)
  BY DEF DMInv, DMTypeOK, Letter
<1>2. CASE ~dmOnline
  <2>1. arriving' = arriving /\ DMTypeOK'
    BY <1>1, <1>2 DEF Letter, DMTypeOK
  <2> QED
    BY <1>1, <1>2, <2>1 DEF DMInv
<1>3. CASE dmOnline
  <2>1. PICK f : f = Frame("opened", [peer |-> p, id |-> 0])
    OBVIOUS
  <2>2. f \in Frames /\ f.kind = "opened" /\ f.peer = p
    <3>1. unhidden \in SUBSET Peers
      BY <1>1 DEF DMTypeOK
    <3> QED
      BY <2>1, <3>1 DEF Frame, Frames, NewsFrames
  <2>3. arriving' = Append(arriving, f)
    BY <1>3, <2>1 DEF Letter
  <2>4. DMInOrder /\ DMAwaited /\ DMFollows
    BY <1>3 DEF DMInv
  <2>5. DMInOrder' /\ DMAwaited'
    BY <1>1, <2>2, <2>3, <2>4, NewsKeepsOrder DEF IsAnswer
  <2>6. /\ arriving' \in Seq(Frames) /\ \A q \in Peers : NoWordOn(q)' => NoWordOn(q)
             /\ ~About(f, q)
        /\ \A i \in DOMAIN arriving' : \/ arriving'[i] = f
                                       \/ /\ i \in DOMAIN arriving
                                           /\ arriving'[i] = arriving[i]
                                          /\ \A q \in Peers :
                                               (\A j \in DOMAIN arriving' : j > i
                                                   => ~About(arriving'[j], q))
                                                  => /\ ~About(f, q)
                                                     /\ \A j \in DOMAIN arriving : j > i
                                                          => ~About(arriving[j], q)
    BY <1>1, <2>2, <2>3, AddedIsLast
  <2>7. \A q \in Peers : ~About(f, q) => (q \in unhidden' <=> q \in unhidden)
                                         /\ (q \in unrevealed' <=> q \in unrevealed)
    BY <1>1, <2>2 DEF About
  <2>8. LastSays(arriving', unhidden')
    <3> SUFFICES ASSUME NEW q \in Peers, NEW i \in DOMAIN arriving', About(arriving'[i], q),
                        \A j \in DOMAIN arriving' : j > i => ~About(arriving'[j], q)
                 PROVE  Says(arriving'[i], q, unhidden')
      BY DEF LastSays
    <3>1. CASE arriving'[i] = f
      BY <2>2, <3>1 DEF Says
    <3>2. CASE /\ i \in DOMAIN arriving /\ arriving'[i] = arriving[i] /\ ~About(f, q)
               /\ \A j \in DOMAIN arriving : j > i => ~About(arriving[j], q)
      <4>1. Says(arriving[i], q, unhidden)
        BY <2>4, <3>2 DEF DMFollows, LastSays
      <4> QED
        BY <2>7, <3>2, <4>1 DEF Says
    <3> QED
      BY <2>6, <3>1, <3>2
  <2>9. DMFollows'
    <3>1. \A q \in Peers : NoWordOn(q)' /\ ~unsure /\ ~ListAsked
             => (q \in dmList <=> q \in unhidden' \union unrevealed')
      BY <2>4, <2>6, <2>7 DEF DMFollows
    <3>2. ListAsked' <=> ListAsked
      BY <1>1 DEF ListAsked
    <3>3. LastSays(arriving, unhidden)'
      BY <2>8
    <3> QED
      BY <1>1, <3>1, <3>2, <3>3 DEF DMFollows
  <2>10. DMTypeOK'
    BY <1>1, <2>6 DEF DMTypeOK
  <2> QED
    BY <1>1, <1>3, <2>5, <2>9, <2>10 DEF DMInv
<1> QED
  BY <1>2, <1>3

(* What the user does.                                                     *)
LEMMA OrdersKeepDMInv ==
  ASSUME DMInv, NEW p \in Peers,
         PeerOpens(p) \/ SelectDM(p) \/ \E kind \in {"open", "close"} : Give(kind, p)
  PROVE  DMInv'
<1>1. DMTypeOK
  BY DEF DMInv
<1>2. CASE PeerOpens(p) \/ SelectDM(p)
  <2>1. /\ UNCHANGED <<unhidden, dmOnline, orders, atHub, arriving, dmList, unrevealed,
             unsure, given>>
        /\ created \subseteq created' /\ created' \subseteq Peers
             /\ current' \in Peers \union {NoPeer}
    BY <1>1, <1>2 DEF PeerOpens, SelectDM, DMTypeOK
  <2>2. DMTypeOK'
    BY <1>1, <2>1 DEF DMTypeOK
  <2> QED
    BY <2>1, <2>2 DEF DMInv, DMInOrder, Increasing, DMAwaited, DMFollows, LastSays,
         NoWordOn, ListAsked
<1>3. ASSUME NEW kind \in {"open", "close"}, Give(kind, p)
      PROVE  DMInv'
  <2>1. /\ dmOnline /\ given' = given + 1 /\ DMInOrder /\ DMAwaited /\ DMFollows
        /\ UNCHANGED <<created, unhidden, dmOnline, arriving, dmList, current, unrevealed,
             unsure>>
        /\ orders' = Append(orders, Order(kind, p))
        /\ atHub' = IF orders = <<>> THEN Append(atHub, Head(orders')) ELSE atHub
    BY <1>3 DEF Give, DMInv
  <2>2. PICK o \in PeerCommands : o = Order(kind, p) /\ o.id = given'
    <3>1. given' \in Nat /\ current \in Peers \union {NoPeer} /\ dmList \in SUBSET Peers
      BY <1>1, <2>1 DEF DMTypeOK
    <3>2. Order(kind, p) \in PeerCommands /\ Order(kind, p).id = given'
      BY <3>1 DEF Order, PeerCommands
    <3> QED
      BY <3>2
  <2>3. orders' = Append(orders, o)
    BY <2>1, <2>2
  <2>4. DMInOrder' /\ DMAwaited' /\ orders' \in Seq(Commands) /\ atHub' \in Seq(Commands)
    BY <1>1, <2>1, <2>2, <2>3, GivingKeepsOrder
  <2>5. ListAsked => ListAsked'
    <3> SUFFICES ASSUME NEW j \in DOMAIN atHub, atHub[j].kind = "list" PROVE ListAsked'
      BY DEF ListAsked
    <3>1. orders # <<>>
      BY <2>1 DEF DMAwaited
    <3> QED
      BY <2>1, <3>1 DEF ListAsked
  <2>6. DMFollows'
    BY <2>1, <2>5 DEF DMFollows, LastSays, NoWordOn
  <2>7. DMTypeOK'
    BY <1>1, <2>1, <2>4 DEF DMTypeOK
  <2> QED
    BY <2>1, <2>4, <2>6, <2>7 DEF DMInv
<1> QED
  BY <1>2, <1>3

(* A conversation is opened, by whomever.                                  *)
LEMMA OpenedKeepsDMInv ==
  ASSUME DMInv, ConversationOpened
  PROVE  DMInv'
<1>1. /\ arriving # <<>> /\ arriving' = Tail(arriving) /\ Head(arriving).kind = "opened"
      /\ UNCHANGED <<created, unhidden, dmOnline, unsure, given>>
  BY DEF ConversationOpened, Takes
<1>2. DMTypeOK /\ dmOnline /\ DMInOrder /\ DMAwaited /\ DMFollows /\ LastSays(arriving,
        unhidden)
  BY <1>1 DEF DMInv, DMFollows
<1>3. PICK f \in Frames : f = Head(arriving) /\ f = arriving[1]
  BY <1>1, <1>2, TailFacts DEF DMTypeOK
<1>4. /\ dmList' = dmList \union {f.peer}
           /\ unrevealed' = unrevealed \union ({f.peer} \ unhidden)
      /\ \/ Awaits("open") /\ Head(orders).peer = f.peer /\ SettleOrder /\ current' = f.peer
         \/ UNCHANGED <<orders, atHub, current>>
  BY <1>3 DEF ConversationOpened, Upsert
<1>5. /\ arriving' \in Seq(Frames) /\ LastSays(arriving, unhidden)'
      /\ \A p \in Peers : NoWordOn(p)' => NoWordOn(p) \/ (About(f, p) /\ Says(f, p,
           unhidden))
  BY <1>1, <1>2, <1>3, TakenWasAWord
<1>6. DMInOrder' /\ DMAwaited' /\ orders' \in Seq(Commands) /\ atHub' \in Seq(Commands)
      /\ (ListAsked => ListAsked')
  <2>1. CASE Awaits("open") /\ SettleOrder
    <3>1. orders # <<>> /\ orders[1].kind = "open"
      BY <1>2, <2>1, TailFacts DEF Awaits, DMTypeOK
    <3>2. \A j \in DOMAIN atHub : atHub[j].kind = "open"
      BY <1>2, <3>1 DEF DMAwaited
    <3>3. \A i \in DOMAIN arriving : arriving[i].kind \notin {"closed", "listed"}
      BY <1>2, <3>1 DEF DMAwaited, Settles
    <3>4. \A i \in DOMAIN arriving' : arriving'[i].kind \notin {"closed", "listed"}
      BY <1>1, <1>2, <3>3, TailFacts DEF DMTypeOK
    <3>5. DMInOrder' /\ DMAwaited'
      BY <1>1, <1>2, <2>1, <3>1, <3>2, <3>4, SettlingKeepsOrder
    <3> QED
      BY <1>2, <2>1, <3>1, <3>5, SettlingFacts
  <2>2. CASE UNCHANGED <<orders, atHub, current>>
    <3>1. DMInOrder' /\ DMAwaited'
      BY <1>1, <1>2, <2>2, TakingKeepsOrder
    <3> QED
      BY <1>2, <2>2, <3>1 DEF DMTypeOK, ListAsked
  <2> QED
    BY <1>4, <2>1, <2>2
<1>7. f.peer \in Peers
  BY <1>1, <1>3 DEF Frames, NewsFrames, AnswerFrames
<1>8. DMTypeOK'
  BY <1>1, <1>2, <1>4, <1>5, <1>6, <1>7 DEF DMTypeOK
<1>9. ASSUME ~unsure, ~ListAsked', NEW p \in Peers, NoWordOn(p)'
      PROVE  p \in dmList' <=> p \in unhidden \union unrevealed'
  <2>1. CASE p = f.peer
    BY <1>4, <2>1
  <2>2. CASE p # f.peer
    <3>1. NoWordOn(p)
      BY <1>1, <1>3, <1>5, <1>9, <2>2 DEF About
    <3>2. p \in dmList <=> p \in unhidden \union unrevealed
      BY <1>2, <1>6, <1>9, <3>1 DEF DMFollows
    <3> QED
      BY <1>4, <2>2, <3>2
  <2> QED
    BY <2>1, <2>2
<1>10. DMFollows'
  BY <1>1, <1>5, <1>9 DEF DMFollows
<1> QED
  BY <1>1, <1>2, <1>6, <1>8, <1>10 DEF DMInv

(* A frame that settles a close or a list, or an error that settles its    *)
(* command, was the only one awaited.                                      *)
LEMMA NothingElseAwaited ==
  ASSUME DMTypeOK, DMInOrder, DMAwaited, arriving # <<>>, arriving' = Tail(arriving),
         IsAnswer(arriving[1]), orders # <<>>, orders[1].id = arriving[1].id
  PROVE  /\ \A j \in DOMAIN atHub : atHub[j].kind = "open"
         /\ \A i \in DOMAIN arriving' : arriving'[i].kind \notin {"closed", "listed"}
<1>1. /\ 1 \in DOMAIN arriving
      /\ \A i \in DOMAIN arriving' : i \in Nat /\ i >= 1 /\ i + 1 \in DOMAIN arriving
           /\ arriving'[i] = arriving[i + 1]
  BY TailFacts DEF DMTypeOK
<1>2. /\ \A j \in DOMAIN atHub : arriving[1].id < atHub[j].id
      /\ \A j \in DOMAIN arriving : IsAnswer(arriving[j]) /\ 1 < j
           => arriving[1].id < arriving[j].id
      /\ arriving[1].id \in Nat
  BY <1>1, QueueElements DEF DMInOrder
<1>3. ASSUME NEW j \in DOMAIN atHub, atHub[j].kind # "open"
      PROVE  FALSE
  BY <1>2, <1>3 DEF DMAwaited
<1>4. ASSUME NEW i \in DOMAIN arriving', arriving'[i].kind \in {"closed", "listed"}
      PROVE  FALSE
  <2>1. i + 1 \in DOMAIN arriving /\ 1 < i + 1 /\ arriving'[i] = arriving[i + 1]
    BY <1>1
  <2>2. orders[1].id = arriving[i + 1].id /\ arriving[1].id < arriving[i + 1].id
    BY <1>2, <1>4, <2>1 DEF DMAwaited, Settles, IsAnswer
  <2> QED
    BY <1>2, <2>2
<1> QED
  BY <1>3, <1>4

(* The list is loaded, and is the last word on every conversation.         *)
LEMMA LoadedKeepsDMInv ==
  ASSUME DMInv, ListLoaded
  PROVE  DMInv'
<1>1. /\ arriving # <<>> /\ arriving' = Tail(arriving) /\ Head(arriving).kind = "listed"
      /\ orders # <<>> /\ SettleOrder /\ dmList' = Head(arriving).list /\ unrevealed' = {}
      /\ unsure' = FALSE /\ UNCHANGED <<created, unhidden, dmOnline, current, given>>
  BY DEF ListLoaded, Takes, Awaits
<1>2. DMTypeOK /\ dmOnline /\ DMInOrder /\ DMAwaited /\ DMFollows /\ LastSays(arriving,
        unhidden)
  BY <1>1 DEF DMInv, DMFollows
<1>3. PICK f \in Frames : f = Head(arriving) /\ f = arriving[1] /\ 1 \in DOMAIN arriving
  BY <1>1, <1>2, TailFacts DEF DMTypeOK
<1>4. /\ arriving' \in Seq(Frames) /\ LastSays(arriving, unhidden)'
      /\ \A p \in Peers : NoWordOn(p)' => NoWordOn(p) \/ (About(f, p) /\ Says(f, p,
           unhidden))
  BY <1>1, <1>2, <1>3, TakenWasAWord
<1>5. IsAnswer(arriving[1]) /\ orders[1].id = arriving[1].id
  BY <1>1, <1>2, <1>3 DEF DMAwaited, Settles, IsAnswer
<1>6. DMInOrder' /\ DMAwaited' /\ orders' \in Seq(Commands) /\ atHub' \in Seq(Commands)
  BY <1>1, <1>2, <1>5, NothingElseAwaited, SettlingKeepsOrder, SettlingFacts
<1>7. DMTypeOK'
  <2>1. f.list \subseteq Peers
    BY DEF Frames, NewsFrames, AnswerFrames
  <2> QED
    BY <1>1, <1>2, <1>3, <1>4, <1>6, <2>1 DEF DMTypeOK
<1>8. ASSUME NEW p \in Peers, NoWordOn(p)'
      PROVE  p \in dmList' <=> p \in unhidden \union unrevealed'
  <2>1. ~NoWordOn(p)
    BY <1>1, <1>3 DEF NoWordOn, About
  <2> QED
    BY <1>1, <1>3, <1>4, <1>8, <2>1 DEF Says
<1>9. DMFollows'
  BY <1>1, <1>4, <1>8 DEF DMFollows
<1> QED
  BY <1>1, <1>2, <1>6, <1>7, <1>9 DEF DMInv

(* A conversation is closed.                                               *)
LEMMA ClosedKeepsDMInv ==
  ASSUME DMInv, ConversationClosed
  PROVE  DMInv'
<1>1. /\ arriving # <<>> /\ arriving' = Tail(arriving) /\ Head(arriving).kind = "closed"
      /\ orders # <<>> /\ SettleOrder /\ UNCHANGED <<created, unhidden, dmOnline, unsure,
           given>>
  BY DEF ConversationClosed, Takes, Awaits
<1>2. DMTypeOK /\ dmOnline /\ DMInOrder /\ DMAwaited /\ DMFollows /\ LastSays(arriving,
        unhidden)
  BY <1>1 DEF DMInv, DMFollows
<1>3. PICK f \in Frames : f = Head(arriving) /\ f = arriving[1] /\ 1 \in DOMAIN arriving
  BY <1>1, <1>2, TailFacts DEF DMTypeOK
<1>4. PICK o \in Commands : o = Head(orders) /\ o = orders[1]
  BY <1>1, <1>2, TailFacts DEF DMTypeOK
<1>5. /\ dmList' = dmList \ {o.peer} /\ unrevealed' = unrevealed \ {o.peer}
      /\ current' \in IF o.selected # o.peer THEN {current}
                      ELSE IF o.listed = {o.peer} THEN {NoPeer} ELSE o.listed \ {o.peer}
  BY <1>4 DEF ConversationClosed
<1>6. IsAnswer(arriving[1]) /\ orders[1].id = arriving[1].id /\ o.peer = f.peer
  BY <1>1, <1>2, <1>3, <1>4 DEF DMAwaited, Settles, IsAnswer
<1>7. /\ arriving' \in Seq(Frames) /\ LastSays(arriving, unhidden)'
      /\ \A p \in Peers : NoWordOn(p)' => NoWordOn(p) \/ (About(f, p) /\ Says(f, p,
           unhidden))
  BY <1>1, <1>2, <1>3, TakenWasAWord
<1>8. DMInOrder' /\ DMAwaited' /\ orders' \in Seq(Commands) /\ atHub' \in Seq(Commands)
      /\ (ListAsked => ListAsked')
  BY <1>1, <1>2, <1>6, NothingElseAwaited, SettlingKeepsOrder, SettlingFacts
<1>9. DMTypeOK'
  <2>1. o.listed \subseteq Peers
    BY CommandFacts
  <2>2. current' \in Peers \union {NoPeer}
    BY <1>2, <1>5, <2>1 DEF DMTypeOK
  <2> QED
    BY <1>1, <1>2, <1>5, <1>7, <1>8, <2>2 DEF DMTypeOK
<1>10. ASSUME ~unsure, ~ListAsked', NEW p \in Peers, NoWordOn(p)'
       PROVE  p \in dmList' <=> p \in unhidden \union unrevealed'
  <2>1. CASE p = f.peer
    <3>1. ~NoWordOn(p)
      BY <1>1, <1>3, <2>1 DEF NoWordOn, About
    <3>2. p \notin unhidden
      BY <1>1, <1>3, <1>7, <1>10, <3>1 DEF Says
    <3> QED
      BY <1>5, <1>6, <2>1, <3>2
  <2>2. CASE p # f.peer
    <3>1. NoWordOn(p)
      BY <1>1, <1>3, <1>7, <1>10, <2>2 DEF About
    <3>2. p \in dmList <=> p \in unhidden \union unrevealed
      BY <1>2, <1>8, <1>10, <3>1 DEF DMFollows
    <3> QED
      BY <1>5, <1>6, <2>2, <3>2
  <2> QED
    BY <2>1, <2>2
<1>11. DMFollows'
  BY <1>1, <1>7, <1>10 DEF DMFollows
<1> QED
  BY <1>1, <1>2, <1>8, <1>9, <1>11 DEF DMInv

(* A command is refused.                                                   *)
LEMMA RefusedKeepsDMInv ==
  ASSUME DMInv, OrderRefused
  PROVE  DMInv'
<1>1. /\ arriving # <<>> /\ arriving' = Tail(arriving) /\ Head(arriving).kind = "error"
      /\ UNCHANGED <<created, unhidden, dmOnline, dmList, current, unrevealed, unsure,
           given>>
  BY DEF OrderRefused, Takes
<1>2. DMTypeOK /\ dmOnline /\ DMInOrder /\ DMAwaited /\ DMFollows /\ LastSays(arriving,
        unhidden)
  BY <1>1 DEF DMInv, DMFollows
<1>3. PICK f \in Frames : f = Head(arriving) /\ f = arriving[1]
  BY <1>1, <1>2, TailFacts DEF DMTypeOK
<1>4. /\ arriving' \in Seq(Frames) /\ LastSays(arriving, unhidden)'
      /\ \A p \in Peers : NoWordOn(p)' => NoWordOn(p)
  BY <1>1, <1>2, <1>3, TakenWasAWord DEF About
<1>5. DMInOrder' /\ DMAwaited' /\ orders' \in Seq(Commands) /\ atHub' \in Seq(Commands)
      /\ (ListAsked => ListAsked')
  <2>1. CASE orders # <<>> /\ Head(orders).id = Head(arriving).id
    <3>1. SettleOrder /\ orders[1].id = arriving[1].id /\ IsAnswer(arriving[1])
      BY <1>1, <1>2, <1>3, <2>1, TailFacts DEF OrderRefused, IsAnswer, DMTypeOK
    <3> QED
      BY <1>1, <1>2, <2>1, <3>1, NothingElseAwaited, SettlingKeepsOrder, SettlingFacts
  <2>2. CASE ~(orders # <<>> /\ Head(orders).id = Head(arriving).id)
    <3>1. UNCHANGED <<orders, atHub>>
      BY <2>2 DEF OrderRefused
    <3>2. DMInOrder' /\ DMAwaited'
      BY <1>1, <1>2, <3>1, TakingKeepsOrder
    <3> QED
      BY <1>2, <3>1, <3>2 DEF DMTypeOK, ListAsked
  <2> QED
    BY <2>1, <2>2
<1>6. DMTypeOK'
  BY <1>1, <1>2, <1>4, <1>5 DEF DMTypeOK
<1>7. DMFollows'
  BY <1>1, <1>2, <1>4, <1>5 DEF DMFollows
<1> QED
  BY <1>1, <1>2, <1>5, <1>6, <1>7 DEF DMInv

(* The connection is lost, or is back and asks for the list.               *)
LEMMA ConnectionKeepsDMInv ==
  ASSUME DMInv, DMLost \/ DMRestored
  PROVE  DMInv'
<1>1. DMTypeOK
  BY DEF DMInv
<1>2. CASE DMLost
  <2>1. /\ dmOnline' = FALSE /\ orders' = <<>> /\ atHub' = <<>> /\ arriving' = <<>>
             /\ dmList' = {}
        /\ UNCHANGED <<created, unhidden, current, unrevealed, unsure, given>>
        /\ orders' \in Seq(Commands) /\ atHub' \in Seq(Commands)
             /\ arriving' \in Seq(Frames)
    BY <1>2, EmptySeq DEF DMLost
  <2>2. DMTypeOK'
    BY <1>1, <2>1 DEF DMTypeOK
  <2> QED
    BY <2>1, <2>2 DEF DMInv
<1>3. CASE DMRestored
  <2>1. PICK o : o = ListCommand
    OBVIOUS
  <2>2. /\ dmOnline' = TRUE /\ orders' = <<o>> /\ atHub' = <<o>> /\ arriving = <<>>
             /\ given \in Nat
        /\ UNCHANGED <<created, unhidden, arriving, dmList, current, unrevealed, unsure,
             given>>
    BY <1>3, <2>1 DEF DMRestored, DMInv, DMTypeOK, ListCommand
  <2>3. <<o>> \in Seq(Commands) /\ o.id = 0 /\ o.kind = "list" /\ DOMAIN <<o>> = {1}
          /\ <<o>>[1] = o
    BY <2>1, FirstList
  <2>4. DMTypeOK'
    BY <1>1, <2>2, <2>3 DEF DMTypeOK
  <2>5. DOMAIN arriving' = {} /\ DOMAIN orders' = {1} /\ DOMAIN atHub' = {1}
          /\ orders'[1] = o
        /\ atHub'[1] = o /\ 0 <= given' /\ orders' # <<>>
    BY <2>2, <2>3
  <2>6. DMInOrder'
    BY <2>3, <2>5 DEF DMInOrder, Increasing
  <2>7. DMAwaited'
    BY <2>3, <2>5 DEF DMAwaited
  <2>8. DMFollows'
    BY <2>3, <2>5 DEF DMFollows, LastSays, ListAsked
  <2> QED
    BY <2>2, <2>4, <2>6, <2>7, <2>8 DEF DMInv
<1> QED
  BY <1>2, <1>3

(* Every step of a client's list of conversations keeps the invariant.     *)
LEMMA NextDMInv == DMInv /\ [DMNext]_dmVars => DMInv'
<1> SUFFICES ASSUME DMInv, [DMNext]_dmVars PROVE DMInv'
  OBVIOUS
<1>1. CASE UNCHANGED dmVars
  BY <1>1 DEF dmVars, DMInv, DMTypeOK, DMInOrder, DMAwaited, DMFollows, NoWordOn, ListAsked
<1> QED
  BY <1>1, HubKeepsDMInv, LettersKeepDMInv, OrdersKeepDMInv, OpenedKeepsDMInv,
       LoadedKeepsDMInv,
     ClosedKeepsDMInv, RefusedKeepsDMInv, ConnectionKeepsDMInv DEF DMNext

(* Commands are answered in order, a close and a list before the next is   *)
(* sent, and the last frame about a conversation says whether it is        *)
(* visible (useDMs.ts, dm.go).                                             *)
THEOREM DMInvHolds == DMSpec => []DMInv
BY InitDMInv, NextDMInv, PTL DEF DMSpec

(* With nothing on its way the conversations listed are those a reload     *)
(* would show, and those reopened on this connection.                      *)
THEOREM ConversationsAreRight == DMSpec => []DMListRight
<1>1. DMInv => DMListRight
  <2> SUFFICES ASSUME DMInv, Quiet PROVE dmList = unhidden \union unrevealed
    BY DEF DMListRight
  <2>1. DMTypeOK /\ DMFollows /\ ~unsure /\ DOMAIN atHub = {} /\ DOMAIN arriving = {}
    BY DEF Quiet, DMInv
  <2>2. \A p \in Peers : p \in dmList <=> p \in unhidden \union unrevealed
    BY <2>1 DEF DMFollows, NoWordOn, ListAsked
  <2> QED
    BY <2>1, <2>2 DEF DMTypeOK
<1> QED
  BY <1>1, DMInvHolds, PTL

-----------------------------------------------------------------------------
(* Who is in the call                                                      *)

RosterSpec == RosterInit /\ [][RosterNext]_rosterVars

Standing == {Absent, "present", "detached"}
Sent == [kind : {"left", "detached", "resumed", "leaveAck"}]
            \union [kind : {"joined", "snapshot", "joinAck"}, row : Standing]

RosterTypeOK ==
    /\ session \in Nat /\ sessionsMade \in Nat /\ session <= sessionsMade
    /\ grace \in Nat /\ resuming \in BOOLEAN /\ leaving \in BOOLEAN
    /\ detach = NoDetach \/ (detach \in [of : Nat, at : {"taken", "told"}]
                             /\ detach.of # 0 /\ detach.of <= sessionsMade)
    /\ mine \in BOOLEAN /\ connected \in BOOLEAN /\ inCall \in BOOLEAN
    /\ answer \in Seq(Standing) /\ joining \in Seq(Standing) /\ row \in Standing
    /\ up \in {"none", "join", "leave"} /\ down \in Seq(Sent)
    /\ dimmed \in BOOLEAN /\ missed \in BOOLEAN /\ overtaken \in BOOLEAN

Waiting(kind) == \E i \in DOMAIN down : down[i].kind = kind
Joining == Waiting("joinAck") \/ joining # <<>>

(* Where my call stands, in the hub and on the screen.                     *)
CallRight ==
    /\ Joining => /\ ~inCall /\ mine /\ connected /\ up = "none"
                  /\ ~(Waiting("joinAck") /\ joining # <<>>)
    /\ \A i, k \in DOMAIN down :
         down[i].kind = "joinAck" /\ down[k].kind = "joinAck" => i = k
    /\ Waiting("leaveAck") => inCall /\ ~mine /\ connected /\ up = "none"
    /\ \A i, k \in DOMAIN down :
         down[i].kind = "leaveAck" /\ down[k].kind = "leaveAck" => i = k
    /\ up = "join" => ~inCall /\ connected
    /\ up = "leave" => inCall /\ connected
    /\ connected /\ mine => inCall \/ Joining
    /\ \A i \in DOMAIN down : down[i].kind \in {"detached", "resumed"} =>
         mine \/ \E k \in DOMAIN down : k > i /\ down[k].kind = "leaveAck"

(* The tile, once what waits has arrived: dim after a last "detached".     *)
Touches(f) == f.kind \in {"left", "detached", "resumed"}
Dims ==
    \/ \E i \in DOMAIN down : /\ down[i].kind = "detached"
                              /\ \A k \in DOMAIN down : k > i => ~Touches(down[k])
    \/ inCall /\ dimmed /\ \A k \in DOMAIN down : ~Touches(down[k])

InTrouble == grace # 0 \/ (detach.at = "told" /\ session = detach.of)

(* As long as nothing overtook anything.                                   *)
PeerRight ==
    /\ grace \in {0, session}
    /\ resuming => grace = 0 /\ detach = NoDetach

RosterInv ==
    /\ RosterTypeOK /\ CallRight
    /\ ~overtaken => PeerRight
    /\ (inCall \/ Joining) /\ ~missed /\ ~overtaken /\ ~leaving /\ ~resuming
         => (Dims <=> InTrouble)

LEMMA SentFacts ==
    /\ \A f \in Sent : /\ f.kind \in {"left", "detached", "resumed", "leaveAck",
                                      "joined", "snapshot", "joinAck"}
                       /\ f.kind \in {"joined", "snapshot", "joinAck"} => f.row \in Standing
    /\ \A k \in {"left", "detached", "resumed", "leaveAck"} : [kind |-> k] \in Sent
    /\ \A k \in {"joined", "snapshot", "joinAck"} : \A r \in Standing : [kind |-> k,
         row |-> r] \in Sent
BY DEF Sent

LEMMA PeerRowTyped == PeerRow \in Standing
BY DEF PeerRow, Standing

(* What waits, and one frame f more.                                       *)
LEMMA SendsMore ==
    ASSUME down \in Seq(Sent), NEW f \in Sent, down' = Append(down, f)
    PROVE  /\ down' \in Seq(Sent) /\ Len(down') = Len(down) + 1 /\ down'[Len(down) + 1] = f
           /\ Len(down) \in Nat
           /\ \A i \in DOMAIN down : i \in DOMAIN down' /\ down'[i] = down[i]
                /\ i < Len(down) + 1
           /\ \A i \in DOMAIN down' : i \in DOMAIN down \/ i = Len(down) + 1
           /\ Len(down) + 1 \in DOMAIN down'
           /\ \A k : Waiting(k)' <=> (Waiting(k) \/ k = f.kind)
<1>1. /\ down' \in Seq(Sent) /\ Len(down') = Len(down) + 1 /\ down'[Len(down) + 1] = f
      /\ Len(down) \in Nat
      /\ \A i \in DOMAIN down : i \in DOMAIN down' /\ down'[i] = down[i]
           /\ i < Len(down) + 1
      /\ \A i \in DOMAIN down' : i \in DOMAIN down \/ i = Len(down) + 1
      /\ Len(down) + 1 \in DOMAIN down'
  OBVIOUS
<1>2. \A k : Waiting(k)' <=> (Waiting(k) \/ k = f.kind)
  BY ONLY <1>1 DEF Waiting
<1> QED
  BY <1>1, <1>2

(* One more, and what the tile will be.                                    *)
LEMMA DimsMore ==
    ASSUME down \in Seq(Sent), NEW f \in Sent, down' = Append(down, f),
           UNCHANGED <<inCall, dimmed>>
    PROVE  /\ ~Touches(f) => (Dims' <=> Dims)
           /\ Touches(f) => (Dims' <=> f.kind = "detached")
<1> DEFINE n == Len(down)
<1>1. /\ n \in Nat /\ down'[n + 1] = f
      /\ \A i \in DOMAIN down : i \in DOMAIN down' /\ down'[i] = down[i] /\ i < n + 1
      /\ \A i \in DOMAIN down' : i \in DOMAIN down \/ i = n + 1
      /\ n + 1 \in DOMAIN down'
  BY SendsMore
<1>2. ASSUME ~Touches(f) PROVE Dims' <=> Dims
  <2>1. ASSUME NEW i \in DOMAIN down, down[i].kind = "detached",
               \A k \in DOMAIN down : k > i => ~Touches(down[k])
        PROVE  Dims'
    <3>1. \A k \in DOMAIN down' : k > i => ~Touches(down'[k])
      BY <2>1, <1>1, <1>2
    <3> QED
      BY <3>1, <2>1, <1>1 DEF Dims, Touches
  <2>2. ASSUME NEW i \in DOMAIN down', down'[i].kind = "detached",
               \A k \in DOMAIN down' : k > i => ~Touches(down'[k])
        PROVE  Dims
    <3>1. i \in DOMAIN down
      BY <2>2, <1>1, <1>2 DEF Touches
    <3>2. \A k \in DOMAIN down : k > i => ~Touches(down[k])
      BY <2>2, <1>1
    <3> QED
      BY <3>1, <3>2, <2>2, <1>1 DEF Dims
  <2>3. (\A k \in DOMAIN down' : ~Touches(down'[k])) <=> \A k \in DOMAIN down : ~Touches(down[k])
    BY <1>1, <1>2
  <2>4. ASSUME Dims PROVE Dims'
    <3>1. CASE inCall /\ dimmed /\ \A k \in DOMAIN down : ~Touches(down[k])
      BY <3>1, <2>3 DEF Dims, Touches
    <3> QED
      BY <3>1, <2>1, <2>4 DEF Dims
  <2>5. ASSUME Dims' PROVE Dims
    <3>1. CASE inCall /\ dimmed /\ \A k \in DOMAIN down' : ~Touches(down'[k])
      BY <3>1, <2>3 DEF Dims
    <3> QED
      BY <3>1, <2>2, <2>5 DEF Dims, Touches
  <2> QED
    BY <2>4, <2>5
<1>3. ASSUME Touches(f) PROVE Dims' <=> f.kind = "detached"
  <2>1. ASSUME f.kind = "detached" PROVE Dims'
    <3>1. \A k \in DOMAIN down' : ~(k > n + 1)
      BY <1>1
    <3> QED
      BY <3>1, <2>1, <1>1 DEF Dims, Touches
  <2>2. ASSUME Dims' PROVE f.kind = "detached"
    <3>1. CASE inCall' /\ dimmed' /\ \A k \in DOMAIN down' : ~Touches(down'[k])
      BY <3>1, <1>1, <1>3
    <3>2. ASSUME NEW i \in DOMAIN down', down'[i].kind = "detached",
                 \A k \in DOMAIN down' : k > i => ~Touches(down'[k])
          PROVE  f.kind = "detached"
      <4>1. CASE i \in DOMAIN down
        <5>1. n + 1 > i
          BY <4>1, <1>1
        <5> QED
          BY <5>1, <3>2, <1>1, <1>3
      <4>2. CASE i = n + 1
        BY <4>2, <3>2, <1>1
      <4> QED
        BY <4>1, <4>2, <1>1
    <3> QED
      BY <3>1, <3>2, <2>2 DEF Dims, Touches
  <2> QED
    BY <2>1, <2>2
<1> QED
  BY <1>2, <1>3

(* My call on the way: frames that neither answer me nor tell of trouble,  *)
(* or tell of it while I am in the call.                                   *)
LEMMA CallMore ==
    ASSUME down \in Seq(Sent), CallRight, NEW f \in Sent, down' = Append(down, f),
           f.kind \in {"left", "joined", "snapshot"} \/ (f.kind \in {"detached",
               "resumed"} /\ mine),
           UNCHANGED <<mine, connected, up, inCall, joining>>
    PROVE  CallRight'
<1> DEFINE n == Len(down)
<1>1. /\ n \in Nat /\ down'[n + 1] = f
      /\ \A i \in DOMAIN down : i \in DOMAIN down' /\ down'[i] = down[i]
      /\ \A i \in DOMAIN down' : i \in DOMAIN down \/ i = n + 1
      /\ \A k : Waiting(k)' <=> (Waiting(k) \/ k = f.kind)
  BY SendsMore
<1>2. /\ Waiting("joinAck")' <=> Waiting("joinAck")
      /\ Waiting("leaveAck")' <=> Waiting("leaveAck")
      /\ Joining' <=> Joining
  BY <1>1 DEF Joining
<1>3. \A i, k \in DOMAIN down' :
        /\ down'[i].kind = "joinAck" /\ down'[k].kind = "joinAck" => i = k
        /\ down'[i].kind = "leaveAck" /\ down'[k].kind = "leaveAck" => i = k
  BY <1>1 DEF CallRight
<1>4. ASSUME NEW i \in DOMAIN down', down'[i].kind \in {"detached", "resumed"}
      PROVE  mine \/ \E k \in DOMAIN down' : k > i /\ down'[k].kind = "leaveAck"
  BY <1>1, <1>4 DEF CallRight
<1> QED
  BY <1>2, <1>3, <1>4 DEF CallRight

LEMMA CallStays ==
    ASSUME CallRight, UNCHANGED <<mine, connected, up, inCall, joining, down>>
    PROVE  CallRight'
BY DEF CallRight, Joining, Waiting

(* The peer's steps reach me, or I have missed something.                  *)
Told == down' \in Seq(Sent) /\ CallRight' /\ missed' \in BOOLEAN
Reached == (inCall \/ Joining) /\ ~missed

LEMMA TellsNobody ==
    ASSUME RosterInv, OnlyPeer, UNCHANGED <<down, missed>>
    PROVE  Told /\ (Reached' => Reached /\ (Dims' <=> Dims))
<1>1. CallRight'
  BY CallStays DEF RosterInv, OnlyPeer, screenVars
<1>2. (Joining' <=> Joining) /\ (Dims' <=> Dims)
  BY DEF OnlyPeer, screenVars, Joining, Waiting, Dims, Touches
<1> QED
  BY <1>1, <1>2 DEF Told, Reached, RosterInv, RosterTypeOK, OnlyPeer, screenVars

LEMMA TellsAll ==
    ASSUME RosterInv, OnlyPeer, NEW f \in Sent, PushAll(<<f>>), f.kind \in {"left",
             "joined"}
    PROVE  /\ Told /\ (Reached' => Reached)
           /\ Reached' /\ f.kind = "left" => ~Dims'
           /\ Reached' /\ f.kind = "joined" => (Dims' <=> Dims)
<1>t. /\ down \in Seq(Sent) /\ CallRight /\ missed \in BOOLEAN /\ connected \in BOOLEAN
      /\ UNCHANGED <<mine, connected, up, inCall, joining, dimmed>>
      /\ missed' = (missed \/ (~connected /\ inCall))
  BY DEF RosterInv, RosterTypeOK, OnlyPeer, screenVars, PushAll
<1>1. CASE connected
  <2>1. down' = Append(down, f)
    BY <1>1, <1>t DEF PushAll
  <2>2. CallRight'
    BY <2>1, <1>t, CallMore
  <2>3. Joining' <=> Joining
    BY <2>1, <1>t, SendsMore DEF Joining
  <2>4. down' \in Seq(Sent)
    BY <2>1, <1>t
  <2>5. (f.kind = "left" => ~Dims') /\ (f.kind = "joined" => (Dims' <=> Dims))
    BY <2>1, <1>t, DimsMore DEF Touches
  <2> QED
    BY <2>2, <2>3, <2>4, <2>5, <1>1, <1>t DEF Told, Reached
<1>2. CASE ~connected
  <2>1. down' = down
    BY <1>2 DEF PushAll
  <2>2. CallRight'
    BY <2>1, <1>t, CallStays
  <2>3. ~Reached'
    <3>1. Joining' => connected'
      BY <2>2 DEF CallRight
    <3> QED
      BY <3>1, <1>2, <1>t DEF Reached
  <2> QED
    BY <2>1, <2>2, <2>3, <1>t DEF Told
<1> QED
  BY <1>1, <1>2

LEMMA TellsTwice ==
    ASSUME RosterInv, OnlyPeer, NEW e \in Sent, NEW f \in Sent, PushAll(<<e>> \o <<f>>),
           e.kind = "left", f.kind = "joined"
    PROVE  Told /\ (Reached' => Reached /\ ~Dims')
<1>t. /\ down \in Seq(Sent) /\ CallRight /\ missed \in BOOLEAN /\ connected \in BOOLEAN
      /\ UNCHANGED <<mine, connected, up, inCall, joining, dimmed>>
      /\ missed' = (missed \/ (~connected /\ inCall))
  BY DEF RosterInv, RosterTypeOK, OnlyPeer, screenVars, PushAll
<1>1. CASE connected
  <2> DEFINE n == Len(down)
  <2>1. down' = down \o (<<e>> \o <<f>>)
    BY <1>1 DEF PushAll
  <2>2. /\ n \in Nat /\ down'[n + 1] = e /\ down'[n + 2] = f /\ DOMAIN down' = 1..n + 2
        /\ \A i \in DOMAIN down : i \in DOMAIN down' /\ down'[i] = down[i] /\ i < n + 1
        /\ \A i \in DOMAIN down' : i \in DOMAIN down \/ i = n + 1 \/ i = n + 2
        /\ down' \in Seq(Sent)
    BY <2>1, <1>t
  <2>3. \A k : k \in {"joinAck", "leaveAck"} => (Waiting(k)' <=> Waiting(k))
    BY <2>2 DEF Waiting
  <2>4. Joining' <=> Joining
    BY <2>3, <1>t DEF Joining
  <2>5. CallRight'
    <3>1. \A i, k \in DOMAIN down' :
            /\ down'[i].kind = "joinAck" /\ down'[k].kind = "joinAck" => i = k
            /\ down'[i].kind = "leaveAck" /\ down'[k].kind = "leaveAck" => i = k
      BY <2>2, <1>t DEF CallRight
    <3>2. ASSUME NEW i \in DOMAIN down', down'[i].kind \in {"detached", "resumed"}
          PROVE  mine \/ \E k \in DOMAIN down' : k > i /\ down'[k].kind = "leaveAck"
      <4>1. i \in DOMAIN down /\ down[i].kind \in {"detached", "resumed"}
        BY <2>2, <3>2
      <4>2. mine \/ \E k \in DOMAIN down : k > i /\ down[k].kind = "leaveAck"
        BY <4>1, <1>t DEF CallRight
      <4> QED
        BY <4>2, <2>2
    <3> QED
      BY <2>3, <2>4, <3>1, <3>2, <1>t DEF CallRight
  <2>6. ~Dims'
    <3>1. n + 1 \in DOMAIN down' /\ Touches(down'[n + 1])
      BY <2>2 DEF Touches
    <3>2. ASSUME NEW i \in DOMAIN down', down'[i].kind = "detached" PROVE n + 1 > i
      BY <2>2, <3>2
    <3> QED
      BY <3>1, <3>2 DEF Dims, Touches
  <2> QED
    BY <2>2, <2>4, <2>5, <2>6, <1>1, <1>t DEF Told, Reached
<1>2. CASE ~connected
  <2>1. down' = down
    BY <1>2 DEF PushAll
  <2>2. CallRight'
    BY <2>1, <1>t, CallStays
  <2>3. ~Reached'
    <3>1. Joining' => connected'
      BY <2>2 DEF CallRight
    <3> QED
      BY <3>1, <1>2, <1>t DEF Reached
  <2> QED
    BY <2>1, <2>2, <2>3, <1>t DEF Told
<1> QED
  BY <1>1, <1>2

LEMMA TellsCall ==
    ASSUME RosterInv, OnlyPeer, NEW kind \in {"detached", "resumed"}, PushCall(kind)
    PROVE  Told /\ (Reached' => Reached /\ (Dims' <=> kind = "detached"))
<1>t. /\ down \in Seq(Sent) /\ CallRight /\ missed \in BOOLEAN /\ connected \in BOOLEAN
           /\ mine \in BOOLEAN
      /\ UNCHANGED <<mine, connected, up, inCall, joining, dimmed>>
      /\ missed' = (missed \/ (~(connected /\ mine) /\ inCall))
  BY DEF RosterInv, RosterTypeOK, OnlyPeer, screenVars, PushCall
<1>1. CASE connected /\ mine
  <2>1. PICK f : f = [kind |-> kind]
    OBVIOUS
  <2>2. f \in Sent /\ f.kind = kind /\ down' = Append(down, f)
    BY <2>1, <1>1, SentFacts DEF PushCall
  <2>3. CallRight'
    BY <2>2, <1>1, <1>t, CallMore
  <2>4. Joining' <=> Joining
    BY <2>2, <1>t, SendsMore DEF Joining
  <2>5. down' \in Seq(Sent)
    BY <2>2, <1>t
  <2>6. Dims' <=> kind = "detached"
    BY <2>2, <1>t, DimsMore DEF Touches
  <2> QED
    BY <2>3, <2>4, <2>5, <2>6, <1>1, <1>t DEF Told, Reached
<1>2. CASE ~(connected /\ mine)
  <2>1. down' = down
    BY <1>2 DEF PushCall
  <2>2. CallRight'
    BY <2>1, <1>t, CallStays
  <2>3. ~Reached'
    <3>1. Joining' => connected' /\ mine'
      BY <2>2 DEF CallRight
    <3> QED
      BY <3>1, <1>2, <1>t DEF Reached
  <2> QED
    BY <2>1, <2>2, <2>3, <1>t DEF Told
<1> QED
  BY <1>1, <1>2

PeerTypeOK ==
    /\ session \in Nat /\ sessionsMade \in Nat /\ session <= sessionsMade
    /\ grace \in Nat /\ resuming \in BOOLEAN /\ leaving \in BOOLEAN /\ overtaken \in BOOLEAN
    /\ detach = NoDetach \/ (detach \in [of : Nat, at : {"taken", "told"}]
                             /\ detach.of # 0 /\ detach.of <= sessionsMade)

LEMMA PeerSteps ==
    ASSUME RosterInv, OnlyPeer, Told, PeerTypeOK', ~overtaken' => PeerRight',
           Reached' /\ ~overtaken' /\ ~leaving' /\ ~resuming' => (Dims' <=> InTrouble')
    PROVE  RosterInv'
<1>1. RosterTypeOK'
  BY DEF RosterInv, RosterTypeOK, OnlyPeer, screenVars, Told, PeerTypeOK
<1> QED
  BY <1>1 DEF RosterInv, OnlyPeer, Told, Reached

LEMMA DetachTyped ==
    ASSUME PeerTypeOK
    PROVE  /\ detach = NoDetach => detach.of = 0 /\ detach.at = "idle"
           /\ detach # NoDetach => detach.of # 0 /\ detach.of \in Nat
                /\ detach.of <= sessionsMade
                                   /\ detach.at \in {"taken", "told"}
           /\ \A s \in Nat \ {0} : \A a \in {"taken", "told"} :
                s <= sessionsMade =>
                    /\ [of |-> s, at |-> a] \in [of : Nat, at : {"taken", "told"}]
                    /\ [of |-> s, at |-> a] # NoDetach
BY DEF PeerTypeOK, NoDetach

LEMMA PeerKeeps ==
    ASSUME RosterInv,
           \/ PeerJoins \/ PeerLeaves \/ PeerDetaches \/ TellDetached \/ ArmGrace
           \/ GraceExpires \/ TellLeft \/ PeerResumes \/ TellResumed
    PROVE  RosterInv'
<1>t. PeerTypeOK /\ (~overtaken => PeerRight)
      /\ (Reached /\ ~overtaken /\ ~leaving /\ ~resuming => (Dims <=> InTrouble))
  BY DEF RosterInv, RosterTypeOK, PeerTypeOK, Reached
<1>d. /\ detach = NoDetach => detach.of = 0 /\ detach.at = "idle"
      /\ detach # NoDetach => detach.of # 0 /\ detach.of \in Nat
           /\ detach.of <= sessionsMade
                              /\ detach.at \in {"taken", "told"}
  BY <1>t, DetachTyped
<1>1. CASE PeerJoins
  <2>1. PICK f : f = [kind |-> "joined",
          row |-> IF grace' # 0 THEN "detached" ELSE "present"]
    OBVIOUS
  <2>2. PICK e : e = [kind |-> "left"]
    OBVIOUS
  <2>3. f \in Sent /\ f.kind = "joined" /\ e \in Sent /\ e.kind = "left"
    BY <2>1, <2>2, SentFacts DEF Standing
  <2>4. /\ sessionsMade' = sessionsMade + 1 /\ session' = sessionsMade + 1
        /\ grace' = (IF session = 0 THEN grace ELSE 0)
        /\ UNCHANGED <<detach, detaches, resuming, leaving, overtaken>> /\ OnlyPeer
        /\ PushAll((IF session = 0 THEN <<>> ELSE <<e>>) \o <<f>>)
    BY <1>1, <2>1, <2>2 DEF PeerJoins
  <2>5. Told /\ (Reached' => Reached)
        /\ (Reached' => IF session = 0 THEN Dims' <=> Dims ELSE ~Dims')
    <3>1. CASE session = 0
      <4>1. PushAll(<<f>>)
        BY <3>1, <2>4
      <4> QED
        BY <4>1, <3>1, <2>3, <2>4, TellsAll
    <3>2. CASE session # 0
      <4>1. PushAll(<<e>> \o <<f>>)
        BY <3>2, <2>4
      <4> QED
        BY <4>1, <3>2, <2>3, <2>4, TellsTwice
    <3> QED
      BY <3>1, <3>2
  <2>6. PeerTypeOK'
    BY <2>4, <1>t, <1>d DEF PeerTypeOK
  <2>7. ASSUME ~overtaken' PROVE PeerRight' /\ grace' = 0
    BY <2>4, <2>7, <1>t DEF PeerRight
  <2>8. ASSUME ~overtaken' PROVE ~InTrouble' /\ (session = 0 => ~InTrouble)
    <3>1. session' # detach'.of
      BY <2>4, <1>d, <1>t DEF PeerTypeOK
    <3>2. session = 0 => ~InTrouble
      BY <2>4, <2>8, <1>t, <1>d DEF PeerRight, InTrouble
    <3> QED
      BY <3>1, <3>2, <2>7, <2>8 DEF InTrouble
  <2> QED
    BY <2>4, <2>5, <2>6, <2>7, <2>8, <1>t, PeerSteps
<1>2. CASE PeerLeaves
  <2>1. /\ session' = 0 /\ grace' = 0 /\ OnlyPeer
        /\ UNCHANGED <<sessionsMade, detach, detaches, resuming, leaving, overtaken>>
    BY <1>2 DEF PeerLeaves
  <2>2. PICK e : e = [kind |-> "left"]
    OBVIOUS
  <2>3. e \in Sent /\ e.kind = "left" /\ PushAll(<<e>>)
    BY <1>2, <2>2, SentFacts DEF PeerLeaves
  <2>4. Told /\ (Reached' => ~Dims')
    BY <2>1, <2>3, TellsAll
  <2>5. PeerTypeOK' /\ (~overtaken' => PeerRight')
    BY <2>1, <1>t DEF PeerTypeOK, PeerRight
  <2>6. ~InTrouble'
    BY <2>1, <1>d DEF InTrouble
  <2> QED
    BY <2>1, <2>4, <2>5, <2>6, PeerSteps
<1>3. CASE PeerDetaches
  <2>1. /\ session # 0 /\ detach = NoDetach /\ detach' = [of |-> session, at |-> "taken"]
        /\ overtaken' = (overtaken \/ resuming)
        /\ UNCHANGED <<session, sessionsMade, grace, resuming, leaving, down, missed>>
             /\ OnlyPeer
    BY <1>3 DEF PeerDetaches
  <2>2. Told /\ (Reached' => Reached /\ (Dims' <=> Dims))
    BY <2>1, TellsNobody
  <2>3. PeerTypeOK'
    BY <2>1, <1>t DEF PeerTypeOK
  <2>4. ~overtaken' => ~overtaken /\ PeerRight'
    BY <2>1, <1>t DEF PeerRight, PeerTypeOK
  <2>5. InTrouble' <=> InTrouble
    BY <2>1, <1>d DEF InTrouble
  <2> QED
    BY <2>1, <2>2, <2>3, <2>4, <2>5, <1>t, PeerSteps
<1>4. CASE TellDetached
  <2>1. /\ detach.at = "taken" /\ detach' = [detach EXCEPT !.at = "told"]
             /\ PushCall("detached")
        /\ overtaken' = (overtaken \/ session # detach.of)
        /\ UNCHANGED <<session, sessionsMade, grace, resuming, leaving>> /\ OnlyPeer
    BY <1>4 DEF TellDetached
  <2>2. Told /\ (Reached' => Dims')
    BY <2>1, TellsCall
  <2>3. detach # NoDetach /\ detach \in [of : Nat, at : {"taken", "told"}]
    BY <2>1, <1>t, <1>d DEF PeerTypeOK
  <2>4. detach' \in [of : Nat, at : {"taken", "told"}] /\ detach'.of = detach.of
          /\ detach'.at = "told"
    BY <2>1, <2>3
  <2>5. PeerTypeOK'
    BY <2>1, <2>3, <2>4, <1>t, <1>d DEF PeerTypeOK
  <2>6. ~overtaken' => ~resuming /\ PeerRight' /\ InTrouble'
    BY <2>1, <2>3, <2>4, <1>t DEF PeerRight, InTrouble, PeerTypeOK
  <2> QED
    BY <2>1, <2>2, <2>5, <2>6, PeerSteps
<1>5. CASE ArmGrace
  <2>1. /\ detach.at = "told" /\ detach' = NoDetach /\ grace' = detach.of
        /\ overtaken' = (overtaken \/ session # detach.of)
        /\ UNCHANGED <<session, sessionsMade, resuming, leaving, down, missed>> /\ OnlyPeer
    BY <1>5 DEF ArmGrace
  <2>2. Told /\ (Reached' => Reached /\ (Dims' <=> Dims))
    BY <2>1, TellsNobody
  <2>3. detach # NoDetach
    BY <2>1, <1>d
  <2>4. PeerTypeOK'
    BY <2>1, <2>3, <1>t, <1>d DEF PeerTypeOK
  <2>5. ~overtaken' => ~overtaken /\ ~resuming /\ PeerRight' /\ InTrouble' /\ InTrouble
    BY <2>1, <2>3, <1>t, <1>d DEF PeerRight, InTrouble, PeerTypeOK
  <2> QED
    BY <2>1, <2>2, <2>4, <2>5, <1>t, PeerSteps
<1>6. CASE GraceExpires
  <2>1. /\ grace # 0 /\ ~leaving /\ grace' = 0 /\ leaving' = (session = grace)
        /\ session' = (IF session = grace THEN 0 ELSE session)
        /\ UNCHANGED <<sessionsMade, detach, resuming, down, missed, overtaken>> /\ OnlyPeer
    BY <1>6 DEF GraceExpires
  <2>2. Told
    BY <2>1, TellsNobody
  <2>3. leaving' \in BOOLEAN
    BY <2>1
  <2>4. PeerTypeOK'
    BY <2>1, <2>3, <1>t DEF PeerTypeOK
  <2>5. ~overtaken' => leaving' /\ PeerRight'
    BY <2>1, <1>t DEF PeerRight
  <2> QED
    BY <2>1, <2>2, <2>4, <2>5, PeerSteps
<1>7. CASE TellLeft
  <2>1. /\ leaving' = FALSE /\ overtaken' = (overtaken \/ session # 0) /\ OnlyPeer
        /\ UNCHANGED <<session, sessionsMade, grace, detach, resuming>>
    BY <1>7 DEF TellLeft
  <2>2. PICK e : e = [kind |-> "left"]
    OBVIOUS
  <2>3. e \in Sent /\ e.kind = "left" /\ PushAll(<<e>>)
    BY <1>7, <2>2, SentFacts DEF TellLeft
  <2>4. Told /\ (Reached' => ~Dims')
    BY <2>1, <2>3, TellsAll
  <2>5. PeerTypeOK'
    BY <2>1, <1>t DEF PeerTypeOK
  <2>6. ~overtaken' => PeerRight' /\ ~InTrouble'
    BY <2>1, <1>t, <1>d DEF PeerRight, InTrouble, PeerTypeOK
  <2> QED
    BY <2>1, <2>4, <2>5, <2>6, PeerSteps
<1>8. CASE PeerResumes
  <2>1. /\ resuming' = TRUE /\ grace' = 0 /\ overtaken' = (overtaken \/ detach # NoDetach)
        /\ UNCHANGED <<session, sessionsMade, detach, leaving, down, missed>> /\ OnlyPeer
    BY <1>8 DEF PeerResumes
  <2>2. Told
    BY <2>1, TellsNobody
  <2>3. PeerTypeOK'
    BY <2>1, <1>t DEF PeerTypeOK
  <2>4. ~overtaken' => PeerRight'
    BY <2>1 DEF PeerRight
  <2> QED
    BY <2>1, <2>2, <2>3, <2>4, PeerSteps
<1>9. CASE TellResumed
  <2>1. /\ resuming /\ resuming' = FALSE /\ PushCall("resumed")
        /\ UNCHANGED <<session, sessionsMade, grace, detach, leaving, overtaken>>
             /\ OnlyPeer
    BY <1>9 DEF TellResumed
  <2>2. Told /\ (Reached' => ~Dims')
    BY <2>1, TellsCall
  <2>3. PeerTypeOK'
    BY <2>1, <1>t DEF PeerTypeOK
  <2>4. ~overtaken' => PeerRight' /\ ~InTrouble'
    BY <2>1, <1>t, <1>d DEF PeerRight, InTrouble
  <2> QED
    BY <2>1, <2>2, <2>3, <2>4, PeerSteps
<1> QED
  BY <1>1, <1>2, <1>3, <1>4, <1>5, <1>6, <1>7, <1>8, <1>9

(* The steps of my client and of the hub for me.                           *)
MyTypeOK ==
    /\ mine \in BOOLEAN /\ connected \in BOOLEAN /\ inCall \in BOOLEAN
    /\ answer \in Seq(Standing) /\ joining \in Seq(Standing) /\ row \in Standing
    /\ up \in {"none", "join", "leave"} /\ down \in Seq(Sent)
    /\ dimmed \in BOOLEAN /\ missed \in BOOLEAN

LEMMA MySteps ==
    ASSUME RosterInv, UNCHANGED <<peerVars, overtaken>>, MyTypeOK', CallRight',
           Reached' => (Reached /\ (Dims' <=> Dims)) \/ (~InTrouble /\ ~Dims')
    PROVE  RosterInv'
<1>1. UNCHANGED <<session, sessionsMade, grace, detach, resuming, leaving>>
  BY DEF peerVars
<1>2. (InTrouble' <=> InTrouble) /\ (PeerRight' <=> PeerRight)
  BY <1>1 DEF InTrouble, PeerRight
<1>3. RosterTypeOK'
  BY <1>1 DEF RosterInv, RosterTypeOK, MyTypeOK
<1> QED
  BY <1>1, <1>2, <1>3 DEF RosterInv, Reached

LEMMA AnswersMore ==
    ASSUME RosterInv, NEW f \in Sent, down' = Append(down, f), ~Touches(f),
           UNCHANGED screenVars
    PROVE  down' \in Seq(Sent) /\ (Dims' <=> Dims)
<1>1. down \in Seq(Sent)
  BY DEF RosterInv, RosterTypeOK
<1>2. Dims' <=> Dims
  BY <1>1, DimsMore DEF screenVars
<1> QED
  BY <1>1, <1>2

(* The first of what waits is taken.                                       *)
LEMMA TakesOne ==
    ASSUME RosterInv, down # <<>>, down' = Tail(down), NEW h, h = Head(down)
    PROVE  /\ down' \in Seq(Sent) /\ h \in Sent /\ 1 \in DOMAIN down /\ h = down[1]
           /\ \A i \in DOMAIN down' : i + 1 \in DOMAIN down /\ down'[i] = down[i + 1]
                /\ i \in Nat /\ i + 1 # 1
           /\ \A i \in DOMAIN down : i # 1 =>
                i - 1 \in DOMAIN down' /\ down'[i - 1] = down[i] /\ i \in Nat /\ i > 1
           /\ \A k : Waiting(k) <=> (h.kind = k \/ Waiting(k)')
<1>0. down \in Seq(Sent)
  BY DEF RosterInv, RosterTypeOK
<1>1. /\ down' \in Seq(Sent) /\ h \in Sent /\ 1 \in DOMAIN down /\ h = down[1]
      /\ \A i \in DOMAIN down' : i + 1 \in DOMAIN down /\ down'[i] = down[i + 1]
           /\ i \in Nat /\ i + 1 # 1
      /\ \A i \in DOMAIN down : i # 1 =>
           i - 1 \in DOMAIN down' /\ down'[i - 1] = down[i] /\ i \in Nat /\ i > 1
  BY <1>0
<1>2. \A k : Waiting(k) <=> (h.kind = k \/ Waiting(k)')
  BY ONLY <1>1 DEF Waiting
<1> QED
  BY <1>1, <1>2

LEMMA DimsTaken ==
    ASSUME RosterInv, down # <<>>, down' = Tail(down), NEW h, h = Head(down),
           inCall' /\ dimmed' <=> IF Touches(h) THEN h.kind = "detached" ELSE inCall
               /\ dimmed
    PROVE  Dims' <=> Dims
<1>1. /\ 1 \in DOMAIN down /\ h = down[1]
      /\ \A i \in DOMAIN down' : i + 1 \in DOMAIN down /\ down'[i] = down[i + 1]
           /\ i \in Nat /\ i + 1 # 1
      /\ \A i \in DOMAIN down : i # 1 =>
           i - 1 \in DOMAIN down' /\ down'[i - 1] = down[i] /\ i \in Nat /\ i > 1
  BY TakesOne
<1>2. (\A k \in DOMAIN down : ~Touches(down[k]))
        <=> ~Touches(h) /\ \A k \in DOMAIN down' : ~Touches(down'[k])
  BY <1>1
<1>3. ASSUME Dims PROVE Dims'
  <2>1. CASE inCall /\ dimmed /\ \A k \in DOMAIN down : ~Touches(down[k])
    BY <2>1, <1>2 DEF Dims, Touches
  <2>2. ASSUME NEW i \in DOMAIN down, down[i].kind = "detached",
               \A k \in DOMAIN down : k > i => ~Touches(down[k])
        PROVE  Dims'
    <3>1. CASE i = 1
      <4>1. \A k \in DOMAIN down' : ~Touches(down'[k])
        <5>1. \A k \in DOMAIN down' : k + 1 \in DOMAIN down /\ k + 1 > 1
                /\ down'[k] = down[k + 1]
          BY <1>1
        <5> QED
          BY <5>1, <2>2, <3>1
      <4>2. inCall' /\ dimmed'
        BY <3>1, <2>2, <1>1 DEF Touches
      <4> QED
        BY <4>1, <4>2 DEF Dims, Touches
    <3>2. CASE i # 1
      <4>1. i - 1 \in DOMAIN down' /\ down'[i - 1] = down[i] /\ i \in Nat /\ i > 1
        BY <3>2, <1>1
      <4>2. ASSUME NEW k \in DOMAIN down', k > i - 1 PROVE ~Touches(down'[k])
        <5>1. k + 1 \in DOMAIN down /\ k + 1 > i /\ down'[k] = down[k + 1]
          BY <4>1, <4>2, <1>1
        <5> QED
          BY <5>1, <2>2
      <4> QED
        BY <4>1, <4>2, <2>2 DEF Dims, Touches
    <3> QED
      BY <3>1, <3>2
  <2> QED
    BY <2>1, <2>2, <1>3 DEF Dims
<1>4. ASSUME Dims' PROVE Dims
  <2>1. CASE inCall' /\ dimmed' /\ \A k \in DOMAIN down' : ~Touches(down'[k])
    <3>1. CASE Touches(h)
      <4>1. ASSUME NEW k \in DOMAIN down, k > 1 PROVE ~Touches(down[k])
        BY <4>1, <2>1, <1>1
      <4> QED
        BY <4>1, <3>1, <2>1, <1>1 DEF Dims
    <3>2. CASE ~Touches(h)
      BY <3>2, <2>1, <1>2 DEF Dims
    <3> QED
      BY <3>1, <3>2
  <2>2. ASSUME NEW i \in DOMAIN down', down'[i].kind = "detached",
               \A k \in DOMAIN down' : k > i => ~Touches(down'[k])
        PROVE  Dims
    <3>1. i + 1 \in DOMAIN down /\ down'[i] = down[i + 1] /\ i \in Nat
      BY <1>1
    <3>2. ASSUME NEW k \in DOMAIN down, k > i + 1 PROVE ~Touches(down[k])
      <4>1. k # 1
        BY <3>1, <3>2
      <4>2. k - 1 \in DOMAIN down' /\ down'[k - 1] = down[k] /\ k \in Nat
        BY <4>1, <1>1
      <4>3. k - 1 > i
        BY <4>2, <3>1, <3>2
      <4> QED
        BY <4>2, <4>3, <2>2
    <3> QED
      BY <3>1, <3>2, <2>2 DEF Dims
  <2> QED
    BY <2>1, <2>2, <1>4 DEF Dims, Touches
<1> QED
  BY <1>3, <1>4

LEMMA CallTaken ==
    ASSUME RosterInv, down # <<>>, down' = Tail(down), NEW h, h = Head(down),
           h.kind \in {"left", "joined", "snapshot", "detached", "resumed"},
           UNCHANGED <<mine, connected, up, inCall, joining>>
    PROVE  CallRight' /\ (Joining' <=> Joining)
<1>1. /\ 1 \in DOMAIN down /\ h = down[1] /\ h \in Sent
      /\ \A i \in DOMAIN down' : i + 1 \in DOMAIN down /\ down'[i] = down[i + 1]
           /\ i \in Nat /\ i + 1 # 1
      /\ \A i \in DOMAIN down : i # 1 =>
           i - 1 \in DOMAIN down' /\ down'[i - 1] = down[i] /\ i \in Nat /\ i > 1
      /\ \A k : Waiting(k) <=> (h.kind = k \/ Waiting(k)')
  BY TakesOne
<1>2. CallRight
  BY DEF RosterInv
<1>3. /\ Waiting("joinAck")' <=> Waiting("joinAck")
      /\ Waiting("leaveAck")' <=> Waiting("leaveAck")
      /\ Joining' <=> Joining
  BY <1>1 DEF Joining
<1>4. ASSUME NEW i \in DOMAIN down', NEW k \in DOMAIN down'
      PROVE  /\ down'[i].kind = "joinAck" /\ down'[k].kind = "joinAck" => i = k
             /\ down'[i].kind = "leaveAck" /\ down'[k].kind = "leaveAck" => i = k
  <2>1. i + 1 \in DOMAIN down /\ down'[i] = down[i + 1] /\ i \in Nat
        /\ k + 1 \in DOMAIN down /\ down'[k] = down[k + 1] /\ k \in Nat
    BY <1>1
  <2>2. i + 1 = k + 1 => i = k
    BY <2>1
  <2> QED
    BY <2>1, <2>2, <1>2 DEF CallRight
<1>5. ASSUME NEW i \in DOMAIN down', down'[i].kind \in {"detached", "resumed"}
      PROVE  mine \/ \E k \in DOMAIN down' : k > i /\ down'[k].kind = "leaveAck"
  <2>1. i + 1 \in DOMAIN down /\ down'[i] = down[i + 1] /\ i \in Nat
    BY <1>1
  <2>2. ASSUME NEW k \in DOMAIN down, k > i + 1, down[k].kind = "leaveAck"
        PROVE  k - 1 \in DOMAIN down' /\ down'[k - 1] = down[k] /\ k - 1 > i
    <3>1. k # 1
      BY <2>1, <2>2
    <3>2. k - 1 \in DOMAIN down' /\ down'[k - 1] = down[k] /\ k \in Nat
      BY <3>1, <1>1
    <3> QED
      BY <3>2, <2>1, <2>2
  <2>3. mine \/ \E k \in DOMAIN down : k > i + 1 /\ down[k].kind = "leaveAck"
    BY <2>1, <1>5, <1>2 DEF CallRight
  <2> QED
    BY <2>2, <2>3
<1> QED
  BY <1>2, <1>3, <1>4, <1>5 DEF CallRight

(* Nothing is on the way over a connection that is gone.                   *)
NothingOnTheWay == ~connected => up = "none" /\ down = <<>> /\ answer = <<>>

LEMMA TheWayIsEmptied ==
    ASSUME NothingOnTheWay, [RosterNext]_rosterVars
    PROVE  NothingOnTheWay'
<1>1. CASE PeerJoins \/ PeerLeaves \/ TellLeft
  BY <1>1 DEF NothingOnTheWay, PeerJoins, PeerLeaves, TellLeft, PushAll, OnlyPeer
<1>2. CASE TellDetached \/ TellResumed
  BY <1>2 DEF NothingOnTheWay, TellDetached, TellResumed, PushCall, OnlyPeer
<1>3. CASE PeerDetaches \/ ArmGrace \/ GraceExpires \/ PeerResumes
  BY <1>3 DEF NothingOnTheWay, PeerDetaches, ArmGrace, GraceExpires, PeerResumes, OnlyPeer
<1>4. CASE TakeSnapshot \/ PushSnapshot
  BY <1>4 DEF NothingOnTheWay, TakeSnapshot, PushSnapshot
<1>5. CASE Serve
  BY <1>5 DEF NothingOnTheWay, Serve
<1>6. CASE HandleJoinVoice \/ HandleLeaveVoice \/ JoinSettles
  BY <1>6 DEF NothingOnTheWay, HandleJoinVoice, HandleLeaveVoice, JoinSettles, Hub
<1>7. CASE ReceiveMember \/ ReceiveTrouble \/ ReceiveSnapshot \/ ReceiveJoinAnswer
        \/ ReceiveLeaveAnswer
  BY <1>7 DEF NothingOnTheWay, ReceiveMember, ReceiveTrouble, ReceiveSnapshot,
              ReceiveJoinAnswer, ReceiveLeaveAnswer, Take, Hub
<1>8. CASE LoseMine \/ ComeBack
  BY <1>8 DEF NothingOnTheWay, LoseMine, ComeBack
<1>9. CASE UNCHANGED rosterVars
  BY <1>9 DEF NothingOnTheWay, rosterVars
<1> QED
  BY <1>1, <1>2, <1>3, <1>4, <1>5, <1>6, <1>7, <1>8, <1>9 DEF RosterNext

LEMMA HubKeeps ==
    ASSUME RosterInv, TakeSnapshot \/ PushSnapshot \/ Serve
    PROVE  RosterInv'
<1>t. RosterTypeOK /\ CallRight
  BY DEF RosterInv
<1>r. PeerRow \in Standing
  BY PeerRowTyped
<1>1. CASE TakeSnapshot
  <2>1. UNCHANGED <<peerVars, overtaken, mine, connected, up, down, screenVars, missed>>
    BY <1>1 DEF TakeSnapshot
  <2>2. answer' \in Seq(Standing)
    BY <1>1, <1>r DEF TakeSnapshot
  <2>3. MyTypeOK'
    BY <2>1, <2>2, <1>t DEF MyTypeOK, RosterTypeOK, screenVars
  <2>4. CallRight'
    BY <2>1, <1>t, CallStays DEF screenVars
  <2>6. (Joining' <=> Joining) /\ (Dims' <=> Dims)
    BY <2>1 DEF screenVars, Joining, Waiting, Dims, Touches
  <2> QED
    BY <2>1, <2>3, <2>4, <2>6, MySteps DEF Reached, screenVars
<1>2. CASE PushSnapshot
  <2>1. UNCHANGED <<peerVars, overtaken, mine, connected, up, screenVars, missed>>
    BY <1>2 DEF PushSnapshot
  <2>2. PICK f : f = [kind |-> "snapshot", row |-> Head(answer)]
    OBVIOUS
  <2>3. down' = Append(down, f) /\ answer' = <<>> /\ answer # <<>>
    BY <1>2, <2>2 DEF PushSnapshot
  <2>4. Head(answer) \in Standing
    BY <2>3, <1>t DEF RosterTypeOK
  <2>5. f \in Sent /\ f.kind = "snapshot" /\ ~Touches(f)
    BY <2>2, <2>4, SentFacts DEF Touches
  <2>6. down' \in Seq(Sent) /\ (Dims' <=> Dims)
    BY <2>1, <2>3, <2>5, AnswersMore
  <2>7. MyTypeOK'
    <3>1. answer' \in Seq(Standing)
      BY <2>3
    <3> QED
      BY <2>1, <2>6, <3>1, <1>t DEF MyTypeOK, RosterTypeOK, screenVars
  <2>8. down \in Seq(Sent)
    BY <1>t DEF RosterTypeOK
  <2>9. CallRight' /\ (Joining' <=> Joining)
    BY <2>1, <2>3, <2>5, <2>8, <1>t, CallMore, SendsMore DEF screenVars, Joining
  <2> QED
    BY <2>1, <2>6, <2>7, <2>9, MySteps DEF Reached, screenVars
<1>3. CASE Serve
  <2>1. /\ UNCHANGED <<peerVars, overtaken, answer, connected, screenVars>>
        /\ up # "none" /\ up' = "none" /\ mine' = (up = "join")
        /\ missed' = IF up = "join" THEN grace # 0 \/ detach.at = "told" ELSE missed
    BY <1>3 DEF Serve
  <2>2. PICK f : f = IF up = "join" THEN [kind |-> "joinAck", row |-> PeerRow]
                                    ELSE [kind |-> "leaveAck"]
    OBVIOUS
  <2>3. down' = Append(down, f) /\ down \in Seq(Sent)
    BY <1>3, <2>2, <1>t DEF Serve, RosterTypeOK
  <2>4. /\ f \in Sent /\ ~Touches(f)
        /\ up = "join" => f.kind = "joinAck"
        /\ up # "join" => f.kind = "leaveAck"
    BY <2>2, <1>r, SentFacts DEF Touches
  <2>5. down' \in Seq(Sent) /\ (Dims' <=> Dims)
    BY <2>1, <2>3, <2>4, AnswersMore
  <2>6. MyTypeOK'
    <3>1. missed' \in BOOLEAN /\ mine' \in BOOLEAN /\ up' \in {"none", "join", "leave"}
      BY <2>1, <1>t DEF RosterTypeOK
    <3> QED
      BY <2>1, <2>5, <3>1, <1>t DEF MyTypeOK, RosterTypeOK, screenVars
  <2> DEFINE n == Len(down)
  <2>7. /\ n \in Nat /\ down'[n + 1] = f /\ n + 1 \in DOMAIN down'
        /\ \A i \in DOMAIN down : i \in DOMAIN down' /\ down'[i] = down[i] /\ i < n + 1
        /\ \A i \in DOMAIN down' : i \in DOMAIN down \/ i = n + 1
        /\ \A k : Waiting(k)' <=> (Waiting(k) \/ k = f.kind)
    BY <2>3, <2>4, SendsMore
  <2>8. CASE up = "join"
    <3>1. ~inCall /\ connected /\ ~Joining /\ ~mine /\ ~Waiting("leaveAck")
      BY <2>8, <1>t DEF CallRight
    <3>2. ASSUME NEW i \in DOMAIN down PROVE down[i].kind \notin {"joinAck", "leaveAck",
                   "detached", "resumed"}
      <4>1. down[i].kind \notin {"joinAck", "leaveAck"}
        BY <3>1 DEF Joining, Waiting
      <4>2. \A k \in DOMAIN down : down[k].kind # "leaveAck"
        BY <3>1 DEF Waiting
      <4> QED
        BY <4>1, <4>2, <3>1, <1>t DEF CallRight
    <3>3. /\ \A i, k \in DOMAIN down' :
               /\ down'[i].kind = "joinAck" /\ down'[k].kind = "joinAck" => i = k
               /\ down'[i].kind = "leaveAck" /\ down'[k].kind = "leaveAck" => i = k
          /\ \A i \in DOMAIN down' : down'[i].kind \notin {"detached", "resumed"}
      BY <3>2, <2>4, <2>7, <2>8
    <3>4. Waiting("joinAck")' /\ ~Waiting("leaveAck")' /\ Joining'
      BY <2>4, <2>7, <2>8, <3>1 DEF Joining
    <3>5. ~inCall' /\ mine' /\ connected' /\ up' = "none" /\ joining' = <<>>
      BY <2>1, <2>8, <3>1 DEF screenVars, Joining
    <3>6. CallRight'
      BY <3>3, <3>4, <3>5 DEF CallRight
    <3>7. ~Dims'
      BY <3>2, <3>1, <2>5 DEF Dims
    <3>8. Reached' => ~InTrouble
      BY <2>1, <2>8 DEF Reached, InTrouble
    <3> QED
      BY <2>1, <2>6, <2>5, <3>6, <3>7, <3>8, MySteps
  <2>9. CASE up # "join"
    <3>1. inCall /\ connected /\ ~Joining /\ ~Waiting("leaveAck")
      BY <2>1, <2>9, <1>t DEF CallRight, RosterTypeOK
    <3>2. /\ \A i, k \in DOMAIN down' :
               /\ down'[i].kind = "joinAck" /\ down'[k].kind = "joinAck" => i = k
               /\ down'[i].kind = "leaveAck" /\ down'[k].kind = "leaveAck" => i = k
      <4>1. \A i \in DOMAIN down : down[i].kind \notin {"joinAck", "leaveAck"}
        BY <3>1 DEF Joining, Waiting
      <4> QED
        BY <4>1, <2>4, <2>7, <2>9
    <3>3. ASSUME NEW i \in DOMAIN down', down'[i].kind \in {"detached", "resumed"}
          PROVE  \E k \in DOMAIN down' : k > i /\ down'[k].kind = "leaveAck"
      <4>1. i \in DOMAIN down
        BY <3>3, <2>4, <2>7, <2>9
      <4>2. n + 1 > i
        BY <4>1, <2>7
      <4> QED
        BY <4>2, <2>4, <2>7, <2>9
    <3>4. Waiting("leaveAck")' /\ ~Joining'
      <4>1. ~Waiting("joinAck") /\ joining = <<>>
        BY <3>1 DEF Joining
      <4> QED
        BY <4>1, <2>1, <2>4, <2>7, <2>9 DEF Joining, screenVars
    <3>5. inCall' /\ ~mine' /\ connected' /\ up' = "none"
      BY <2>1, <2>9, <3>1 DEF screenVars
    <3>6. CallRight'
      BY <3>2, <3>3, <3>4, <3>5 DEF CallRight
    <3>7. Reached' => Reached
      BY <2>1, <2>9, <3>1 DEF Reached
    <3> QED
      BY <2>1, <2>6, <2>5, <3>6, <3>7, MySteps
  <2> QED
    BY <2>8, <2>9
<1> QED
  BY <1>1, <1>2, <1>3

LEMMA ClientAsks ==
    ASSUME RosterInv, HandleJoinVoice \/ HandleLeaveVoice \/ JoinSettles
    PROVE  RosterInv'
<1>t. RosterTypeOK /\ CallRight
  BY DEF RosterInv
<1>1. CASE HandleJoinVoice \/ HandleLeaveVoice
  <2>1. /\ UNCHANGED <<peerVars, overtaken, mine, answer, connected, down, screenVars, missed>>
        /\ up = "none" /\ connected
        /\ \/ up' = "join" /\ ~inCall /\ joining = <<>> /\ ~Waiting("joinAck")
           \/ up' = "leave" /\ inCall /\ ~Waiting("leaveAck")
    BY <1>1 DEF HandleJoinVoice, HandleLeaveVoice, Hub, Coming, Waiting
  <2>2. MyTypeOK'
    <3>1. up' \in {"none", "join", "leave"}
      BY <2>1
    <3> QED
      BY <2>1, <3>1, <1>t DEF MyTypeOK, RosterTypeOK, screenVars
  <2>3. /\ (Joining' <=> Joining) /\ (Dims' <=> Dims)
        /\ Waiting("joinAck")' <=> Waiting("joinAck")
        /\ Waiting("leaveAck")' <=> Waiting("leaveAck")
    BY <2>1 DEF screenVars, Joining, Waiting, Dims, Touches
  <2>4. ~Joining /\ ~Waiting("leaveAck")
    BY <2>1, <1>t DEF CallRight, Joining
  <2>5. CallRight'
    BY <2>1, <2>3, <2>4, <1>t DEF CallRight, screenVars
  <2> QED
    BY <2>1, <2>2, <2>3, <2>5, MySteps DEF Reached, screenVars
<1>2. CASE JoinSettles
  <2>1. /\ UNCHANGED <<peerVars, overtaken, mine, answer, connected, up, down, missed>>
        /\ joining # <<>> /\ joining' = <<>> /\ inCall' = TRUE
        /\ row' = Head(joining) /\ dimmed' = FALSE
    BY <1>2 DEF JoinSettles, Hub
  <2>2. row' \in Standing /\ joining' \in Seq(Standing)
    BY <2>1, <1>t DEF RosterTypeOK
  <2>3. MyTypeOK'
    BY <2>1, <2>2, <1>t DEF MyTypeOK, RosterTypeOK
  <2>4. ~inCall /\ mine /\ connected /\ up = "none" /\ ~Waiting("joinAck") /\ Joining
    BY <2>1, <1>t DEF CallRight, Joining
  <2>5. ~Waiting("leaveAck")
    BY <2>4, <1>t DEF CallRight
  <2>6. ~Waiting("joinAck")' /\ ~Waiting("leaveAck")' /\ ~Joining'
    BY <2>1, <2>4, <2>5 DEF Joining, Waiting
  <2>7. CallRight'
    BY <2>1, <2>4, <2>6, <1>t DEF CallRight
  <2>8. Dims' <=> Dims
    BY <2>1, <2>4 DEF Dims, Touches
  <2>9. (Reached' => Reached)
    BY <2>1, <2>4 DEF Reached
  <2> QED
    BY <2>1, <2>3, <2>7, <2>8, <2>9, MySteps
<1> QED
  BY <1>1, <1>2

LEMMA ClientHears ==
    ASSUME RosterInv, ReceiveMember \/ ReceiveTrouble \/ ReceiveSnapshot
    PROVE  RosterInv'
<1>t. RosterTypeOK /\ CallRight
  BY DEF RosterInv
<1>1. PICK h : h = Head(down)
  OBVIOUS
<1>2. /\ UNCHANGED <<peerVars, overtaken, mine, answer, connected, up, inCall, joining>>
      /\ down # <<>> /\ down' = Tail(down)
      /\ h.kind \in {"left", "joined", "snapshot", "detached", "resumed"}
  BY <1>1 DEF ReceiveMember, ReceiveTrouble, ReceiveSnapshot, Take, Hub
<1>3. down' \in Seq(Sent) /\ h \in Sent
  BY <1>1, <1>2, TakesOne
<1>4. CallRight' /\ (Joining' <=> Joining)
  BY <1>1, <1>2, CallTaken
<1>5. h.kind \in {"joined", "snapshot"} => h.row \in Standing
  BY <1>3, SentFacts
<1>6. CASE ReceiveMember
  <2>1. /\ h.kind \in {"joined", "left"} /\ missed' = missed
        /\ h.kind = "left" => row' = Absent /\ dimmed' = FALSE
        /\ h.kind = "joined" => row' = (IF row = Absent THEN h.row ELSE row)
             /\ dimmed' = dimmed
    BY <1>6, <1>1 DEF ReceiveMember, Take, OnVoiceUserLeft, OnVoiceUserJoined
  <2>2. row' \in Standing /\ dimmed' \in BOOLEAN
    BY <2>1, <1>5, <1>t DEF RosterTypeOK, Standing
  <2>3. MyTypeOK'
    BY <1>2, <1>3, <2>1, <2>2, <1>t DEF MyTypeOK, RosterTypeOK
  <2>4. inCall' /\ dimmed' <=> IF Touches(h) THEN h.kind = "detached" ELSE inCall /\ dimmed
    BY <1>2, <2>1 DEF Touches
  <2>5. Dims' <=> Dims
    BY <1>1, <1>2, <2>4, DimsTaken
  <2>6. (Reached' => Reached)
    BY <1>2, <1>4, <2>1 DEF Reached
  <2> QED
    BY <1>2, <1>4, <2>3, <2>5, <2>6, MySteps
<1>7. CASE ReceiveTrouble
  <2>1. /\ h.kind \in {"detached", "resumed"}
        /\ missed' = (missed \/ ~inCall)
        /\ dimmed' = (IF inCall THEN h.kind = "detached" ELSE dimmed) /\ row' = row
    BY <1>7, <1>1 DEF ReceiveTrouble, Take, OnVoiceUserTrouble
  <2>2. dimmed' \in BOOLEAN /\ missed' \in BOOLEAN
    BY <2>1, <1>t DEF RosterTypeOK
  <2>3. MyTypeOK'
    BY <1>2, <1>3, <2>1, <2>2, <1>t DEF MyTypeOK, RosterTypeOK
  <2>4. CASE inCall
    <3>1. inCall' /\ dimmed' <=> IF Touches(h) THEN h.kind = "detached" ELSE inCall
            /\ dimmed
      BY <1>2, <2>1, <2>4 DEF Touches
    <3>2. Dims' <=> Dims
      BY <1>1, <1>2, <3>1, DimsTaken
    <3>3. (Reached' => Reached)
      BY <1>2, <1>4, <2>1 DEF Reached
    <3> QED
      BY <1>2, <1>4, <2>3, <3>2, <3>3, MySteps
  <2>5. CASE ~inCall
    <3>1. ~Reached'
      BY <2>1, <2>5 DEF Reached
    <3> QED
      BY <1>2, <1>4, <2>3, <3>1, MySteps
  <2> QED
    BY <2>4, <2>5
<1>8. CASE ReceiveSnapshot
  <2>1. /\ h.kind = "snapshot" /\ row' = Parsed(h.row)
        /\ UNCHANGED <<dimmed, missed>>
    BY <1>8, <1>1 DEF ReceiveSnapshot, Take, Replaced
  <2>2. row' \in Standing
    BY <2>1, <1>5 DEF Parsed, Standing
  <2>3. MyTypeOK'
    BY <1>2, <1>3, <2>1, <2>2, <1>t DEF MyTypeOK, RosterTypeOK
  <2>4. inCall' /\ dimmed' <=> IF Touches(h) THEN h.kind = "detached" ELSE inCall /\ dimmed
    BY <1>2, <2>1 DEF Touches
  <2>5. Dims' <=> Dims
    BY <1>1, <1>2, <2>4, DimsTaken
  <2>6. Reached' => Reached
    BY <1>2, <1>4, <2>1 DEF Reached
  <2>7. PeerRow' = PeerRow /\ UNCHANGED <<leaving, resuming, detach>>
    BY <1>2 DEF peerVars, PeerRow
  <2> QED
    BY <1>2, <1>4, <2>3, <2>5, <2>6, MySteps
<1> QED
  BY <1>6, <1>7, <1>8

LEMMA ClientIsAnswered ==
    ASSUME RosterInv, ReceiveJoinAnswer \/ ReceiveLeaveAnswer
    PROVE  RosterInv'
<1>t. RosterTypeOK /\ CallRight
  BY DEF RosterInv
<1>1. PICK h : h = Head(down)
  OBVIOUS
<1>2. /\ UNCHANGED <<peerVars, overtaken, mine, answer, connected, up, row>>
      /\ down # <<>> /\ down' = Tail(down)
      /\ h.kind \in {"joinAck", "leaveAck"}
  BY <1>1 DEF ReceiveJoinAnswer, ReceiveLeaveAnswer, Take, Hub
<1>3. /\ down' \in Seq(Sent) /\ h \in Sent /\ 1 \in DOMAIN down /\ h = down[1]
      /\ \A i \in DOMAIN down' : i + 1 \in DOMAIN down /\ down'[i] = down[i + 1]
           /\ i \in Nat /\ i + 1 # 1
      /\ \A k : Waiting(k) <=> (h.kind = k \/ Waiting(k)')
  BY <1>1, <1>2, TakesOne
<1>4. \A i \in DOMAIN down' : down'[i].kind # h.kind
  BY <1>2, <1>3, <1>t DEF CallRight
<1>5. ~Waiting(h.kind)'
  BY <1>4 DEF Waiting
<1>6. CASE ReceiveJoinAnswer
  <2>1. h.kind = "joinAck" /\ joining' = <<h.row>> /\ UNCHANGED <<inCall, dimmed, missed>>
    BY <1>6, <1>1 DEF ReceiveJoinAnswer, Take
  <2>2. Joining /\ ~inCall /\ mine /\ connected /\ up = "none" /\ ~Waiting("leaveAck")
    BY <2>1, <1>3, <1>t DEF CallRight, Joining
  <2>3. joining' \in Seq(Standing)
    BY <2>1, <1>3, SentFacts
  <2>4. MyTypeOK'
    BY <1>2, <1>3, <2>1, <2>3, <1>t DEF MyTypeOK, RosterTypeOK
  <2>5. ~Waiting("joinAck")' /\ ~Waiting("leaveAck")' /\ Joining'
    <3>1. joining' # <<>>
      BY <2>1
    <3> QED
      BY <1>3, <1>5, <2>1, <2>2, <3>1 DEF Joining
  <2>6. CallRight'
    <3>1. \A i \in DOMAIN down' : down'[i].kind \notin {"joinAck", "leaveAck"}
      BY <2>5 DEF Waiting
    <3> QED
      BY <1>2, <2>1, <2>2, <2>5, <3>1 DEF CallRight
  <2>7. Dims' <=> Dims
    <3>1. inCall' /\ dimmed' <=> IF Touches(h) THEN h.kind = "detached" ELSE inCall
            /\ dimmed
      BY <2>1 DEF Touches
    <3> QED
      BY <1>1, <1>2, <3>1, DimsTaken
  <2>8. (Reached' => Reached)
    BY <1>2, <2>1, <2>2 DEF Reached
  <2> QED
    BY <1>2, <2>4, <2>6, <2>7, <2>8, MySteps
<1>7. CASE ReceiveLeaveAnswer
  <2>1. h.kind = "leaveAck" /\ inCall' = FALSE /\ dimmed' = FALSE /\ missed' = FALSE
          /\ joining' = joining
    BY <1>7, <1>1 DEF ReceiveLeaveAnswer, Take
  <2>2. inCall /\ ~mine /\ connected /\ up = "none" /\ ~Joining
    BY <2>1, <1>3, <1>t DEF CallRight
  <2>3. MyTypeOK'
    BY <1>2, <1>3, <2>1, <1>t DEF MyTypeOK, RosterTypeOK
  <2>4. ~Waiting("joinAck")' /\ ~Waiting("leaveAck")' /\ ~Joining'
    <3>1. ~Waiting("joinAck") /\ joining = <<>>
      BY <2>2 DEF Joining
    <3> QED
      BY <1>3, <1>5, <2>1, <3>1 DEF Joining
  <2>5. ASSUME NEW i \in DOMAIN down' PROVE down'[i].kind \notin {"joinAck", "leaveAck",
                 "detached", "resumed"}
    <3>1. down'[i].kind \notin {"joinAck", "leaveAck"}
      BY <2>4 DEF Waiting
    <3>2. i + 1 \in DOMAIN down /\ down'[i] = down[i + 1] /\ i \in Nat
      BY <1>3
    <3>3. ASSUME NEW k \in DOMAIN down, k > i + 1, down[k].kind = "leaveAck" PROVE FALSE
      <4>1. k = 1
        BY <3>3, <1>3, <2>1, <1>t DEF CallRight
      <4> QED
        BY <4>1, <3>2, <3>3
    <3>4. down[i + 1].kind \notin {"detached", "resumed"}
      BY <3>2, <3>3, <2>2, <1>t DEF CallRight
    <3> QED
      BY <3>1, <3>2, <3>4
  <2>6. CallRight'
    BY <1>2, <2>1, <2>2, <2>4, <2>5 DEF CallRight
  <2>7. ~Reached'
    BY <1>2, <2>1, <2>4 DEF Reached
  <2> QED
    BY <1>2, <2>3, <2>6, <2>7, MySteps
<1> QED
  BY <1>6, <1>7 

LEMMA ClientLoses ==
    ASSUME RosterInv, NothingOnTheWay, LoseMine \/ ComeBack
    PROVE  RosterInv'
<1>t. RosterTypeOK /\ CallRight
  BY DEF RosterInv
<1>1. CASE LoseMine
  <2>1. /\ UNCHANGED <<peerVars, overtaken, mine, inCall, row, dimmed>>
        /\ connected' = FALSE /\ up' = "none" /\ down' = <<>> /\ answer' = <<>>
        /\ joining' = <<>>
        /\ missed' = (missed \/ (inCall /\ down # <<>>))
    BY <1>1 DEF LoseMine
  <2>2. down' \in Seq(Sent) /\ answer' \in Seq(Standing) /\ joining' \in Seq(Standing)
    BY <2>1
  <2>3. MyTypeOK'
    <3>1. missed' \in BOOLEAN
      BY <2>1, <1>t DEF RosterTypeOK
    <3> QED
      BY <2>1, <2>2, <3>1, <1>t DEF MyTypeOK, RosterTypeOK
  <2>4. DOMAIN down' = {}
    BY <2>1
  <2>5. ~Waiting("joinAck")' /\ ~Waiting("leaveAck")' /\ ~Joining'
    BY <2>1, <2>4 DEF Joining, Waiting
  <2>6. CallRight'
    BY <2>1, <2>4, <2>5 DEF CallRight
  <2>7. ASSUME Reached' PROVE Reached /\ (Dims' <=> Dims)
    <3>1. inCall /\ ~missed /\ down = <<>>
      BY <2>7, <2>1, <2>5 DEF Reached
    <3>2. down' = down /\ inCall' = inCall /\ dimmed' = dimmed
      BY <3>1, <2>1
    <3> QED
      BY <3>1, <3>2 DEF Reached, Dims, Touches
  <2> QED
    BY <2>1, <2>3, <2>6, <2>7, MySteps
<1>2. CASE ComeBack
  <2>1. /\ UNCHANGED <<peerVars, overtaken, answer, up, down, screenVars, missed>>
        /\ ~connected /\ connected' = TRUE /\ mine' = inCall
    BY <1>2 DEF ComeBack
  <2>2. down = <<>> /\ down' = <<>> /\ DOMAIN down' = {}
    BY <2>1 DEF NothingOnTheWay
  <2>3. up = "none" /\ ~Joining
    BY <2>1, <1>t DEF CallRight, RosterTypeOK
  <2>4. MyTypeOK'
    BY <2>1, <1>t DEF MyTypeOK, RosterTypeOK, screenVars
  <2>5. /\ (Joining' <=> Joining) /\ (Dims' <=> Dims)
        /\ ~Waiting("joinAck")' /\ ~Waiting("leaveAck")'
    BY <2>1, <2>2 DEF screenVars, Joining, Waiting, Dims, Touches
  <2>6. CallRight'
    BY <2>1, <2>2, <2>3, <2>5 DEF CallRight, screenVars
  <2>8. Reached' => Reached
    BY <2>1, <2>5 DEF Reached, screenVars
  <2> QED
    BY <2>1, <2>4, <2>5, <2>6, <2>8, MySteps
<1> QED
  BY <1>1, <1>2

LEMMA RosterStarts ==
    ASSUME RosterInit
    PROVE  RosterInv /\ NothingOnTheWay
<1>1. RosterTypeOK
  <2>1. down = <<>> /\ answer = <<>> /\ joining = <<>>
    BY DEF RosterInit
  <2>2. down \in Seq(Sent) /\ answer \in Seq(Standing) /\ joining \in Seq(Standing)
    BY <2>1
  <2>3. detach = NoDetach /\ row \in Standing /\ session <= sessionsMade
    BY DEF RosterInit, Standing
  <2> QED
    BY <2>2, <2>3 DEF RosterInit, RosterTypeOK
<1>2. DOMAIN down = {}
  BY DEF RosterInit
<1>3. ~Joining /\ ~Waiting("joinAck") /\ ~Waiting("leaveAck")
  BY <1>2 DEF Joining, Waiting, RosterInit
<1>4. CallRight
  BY <1>2, <1>3 DEF RosterInit, CallRight
<1>5. PeerRight
  BY DEF RosterInit, PeerRight
<1> QED
  BY <1>1, <1>3, <1>4, <1>5 DEF RosterInit, RosterInv, NothingOnTheWay

LEMMA RosterKeeps ==
    ASSUME RosterInv, NothingOnTheWay, [RosterNext]_rosterVars
    PROVE  RosterInv' /\ NothingOnTheWay'
<1>1. NothingOnTheWay'
  BY TheWayIsEmptied
<1>2. RosterInv'
  <2>1. CASE \/ PeerJoins \/ PeerLeaves \/ PeerDetaches \/ TellDetached \/ ArmGrace
             \/ GraceExpires \/ TellLeft \/ PeerResumes \/ TellResumed
    BY <2>1, PeerKeeps
  <2>2. CASE TakeSnapshot \/ PushSnapshot \/ Serve
    BY <2>2, HubKeeps
  <2>3. CASE HandleJoinVoice \/ HandleLeaveVoice \/ JoinSettles
    BY <2>3, ClientAsks
  <2>4. CASE ReceiveMember \/ ReceiveTrouble \/ ReceiveSnapshot
    BY <2>4, ClientHears
  <2>5. CASE ReceiveJoinAnswer \/ ReceiveLeaveAnswer
    BY <2>5, ClientIsAnswered
  <2>6. CASE LoseMine \/ ComeBack
    BY <2>6, ClientLoses
  <2>7. CASE UNCHANGED rosterVars
    <3>1. UNCHANGED <<peerVars, overtaken, mine, answer, connected, up, down, screenVars, missed>>
      BY <2>7 DEF rosterVars
    <3>2. RosterTypeOK /\ CallRight
      BY DEF RosterInv
    <3>3. MyTypeOK'
      BY <3>1, <3>2 DEF MyTypeOK, RosterTypeOK, screenVars
    <3>4. CallRight'
      BY <3>1, <3>2, CallStays DEF screenVars
    <3>6. (Joining' <=> Joining) /\ (Dims' <=> Dims)
      BY <3>1 DEF screenVars, Joining, Waiting, Dims, Touches
    <3> QED
      BY <3>1, <3>3, <3>4, <3>6, MySteps DEF Reached, screenVars
  <2> QED
    BY <2>1, <2>2, <2>3, <2>4, <2>5, <2>6, <2>7 DEF RosterNext
<1> QED
  BY <1>1, <1>2

(* RosterInv holds in every reachable state.                               *)
(* VoiceRoster: what waits on the connection, the list and the dimmed      *)
(* tiles of hooks/useVoice.ts stand to the hub's membership and timers as  *)
(* RosterInv says, for any number of sessions, losses and events.          *)
THEOREM RosterInvHolds == RosterSpec => []RosterInv
<1>1. RosterInit => RosterInv /\ NothingOnTheWay
  BY RosterStarts
<1>2. RosterInv /\ NothingOnTheWay /\ [RosterNext]_rosterVars
        => (RosterInv /\ NothingOnTheWay)'
  BY RosterKeeps
<1> QED
  BY <1>1, <1>2, PTL DEF RosterSpec

(* The list: what an answer holds, and what waits behind it, agrees with   *)
(* the hub's membership from the moment the answer is built.               *)
Among == IF session = 0 THEN Absent ELSE "present"
Behind(i) == polled = "shown" \/ \E k \in DOMAIN down : k < i /\ down[k].kind = "snapshot"

ListRight ==
    /\ polled \in {"no", "read", "shown"}
    /\ polled # "no" =>
         /\ \A i \in DOMAIN answer : Parsed(answer[i]) = Among
         /\ \A i \in DOMAIN down : down[i].kind = "snapshot" => Parsed(down[i].row) = Among
         /\ \A i \in DOMAIN down : down[i].kind \in {"left", "joined"} /\ Behind(i)
              => down[i].kind = "left" /\ session = 0
         /\ polled = "shown" => row = Among

LEMMA ParsedRow == Parsed(PeerRow) = Among
BY DEF Parsed, PeerRow, Among, Absent

LEMMA ListStays ==
    ASSUME ListRight, UNCHANGED <<polled, row, down>>, answer' = answer \/ answer' = <<>>,
           (session' = 0) <=> (session = 0)
    PROVE  ListRight'
<1>1. \A i \in DOMAIN answer' : i \in DOMAIN answer /\ answer'[i] = answer[i]
  OBVIOUS
<1>2. (Among' = Among) /\ \A i : Behind(i)' <=> Behind(i)
  BY DEF Among, Behind
<1> QED
  BY <1>1, <1>2 DEF ListRight, Parsed

LEMMA ListUnread ==
    ASSUME polled' = "no"
    PROVE  ListRight'
BY DEF ListRight

LEMMA ListMore ==
    ASSUME ListRight, down \in Seq(Sent), NEW f \in Sent, down' = Append(down, f),
           UNCHANGED <<polled, row>>, answer' = answer \/ answer' = <<>>,
           (session' = 0) <=> (session = 0), f.kind # "joined",
           f.kind = "left" => session = 0,
           f.kind = "snapshot" => (polled # "no" => Parsed(f.row) = Among)
    PROVE  ListRight'
<1>1. \A i \in DOMAIN answer' : i \in DOMAIN answer /\ answer'[i] = answer[i]
  OBVIOUS
<1> DEFINE n == Len(down) + 1
<1>2. /\ Len(down) \in Nat /\ down'[n] = f
      /\ \A i \in DOMAIN down : i \in DOMAIN down' /\ down'[i] = down[i] /\ i < n
      /\ \A i \in DOMAIN down' : i \in DOMAIN down \/ i = n
  BY SendsMore
<1>3. Among' = Among
  BY DEF Among
<1>4. ASSUME NEW i \in DOMAIN down, Behind(i)'
      PROVE  Behind(i)
  <2>1. ASSUME NEW k \in DOMAIN down', k < i, down'[k].kind = "snapshot" PROVE Behind(i)
    <3>1. k # n
      BY <1>2, <2>1
    <3> QED
      BY <3>1, <1>2, <2>1 DEF Behind
  <2> QED
    BY <1>4, <2>1 DEF Behind
<1> QED
  BY <1>1, <1>2, <1>3, <1>4 DEF ListRight, Parsed

LEMMA ListTaken ==
    ASSUME RosterInv, ListRight, down # <<>>, down' = Tail(down), NEW h, h = Head(down),
           UNCHANGED <<session, answer>>, polled' \in {polled, "shown"}, polled # "no",
           \/ polled' = polled /\ h.kind # "snapshot"
           \/ polled' = "shown" /\ h.kind = "snapshot",
           polled' = "shown" => row' = Among
    PROVE  ListRight'
<1>1. /\ 1 \in DOMAIN down /\ h = down[1]
      /\ \A i \in DOMAIN down' : i + 1 \in DOMAIN down /\ down'[i] = down[i + 1]
           /\ i \in Nat /\ i + 1 # 1
  BY TakesOne
<1>2. Among' = Among
  BY DEF Among
<1>3. ASSUME NEW i \in DOMAIN down', Behind(i)' PROVE Behind(i + 1)
  <2>0. i + 1 \in DOMAIN down /\ i \in Nat /\ i > 0
    BY <1>1 DEF RosterInv, RosterTypeOK
  <2>1. ASSUME NEW k \in DOMAIN down', k < i, down'[k].kind = "snapshot" PROVE Behind(i + 1)
    <3>1. k + 1 \in DOMAIN down /\ down[k + 1].kind = "snapshot" /\ k + 1 < i + 1
      BY <1>1, <2>0, <2>1
    <3> QED
      BY <3>1 DEF Behind
  <2>2. ASSUME polled' = "shown" PROVE Behind(i + 1)
    <3>1. CASE h.kind = "snapshot"
      <4>1. 1 < i + 1
        BY <2>0
      <4> QED
        BY <4>1, <3>1, <1>1 DEF Behind
    <3> QED
      BY <3>1, <2>2 DEF Behind
  <2> QED
    BY <1>3, <2>1, <2>2 DEF Behind
<1> QED
  BY <1>1, <1>2, <1>3 DEF ListRight, Parsed

LEMMA ListKeeps ==
    ASSUME RosterInv, ListRight, NothingOnTheWay, [RosterNext]_rosterVars
    PROVE  ListRight'
<1>t. /\ down \in Seq(Sent) /\ answer \in Seq(Standing) /\ session \in Nat
      /\ polled \in {"no", "read", "shown"}
  BY DEF RosterInv, RosterTypeOK, ListRight
<1>k. \A k \in {"left", "detached", "resumed", "leaveAck"} :
        [kind |-> k] \in Sent /\ [kind |-> k].kind = k
  BY SentFacts
<1>1. CASE PeerJoins \/ PeerLeaves
  BY <1>1, ListUnread DEF PeerJoins, PeerLeaves, Changes
<1>2. CASE PeerDetaches \/ ArmGrace \/ PeerResumes
  BY <1>2, ListStays DEF PeerDetaches, ArmGrace, PeerResumes, OnlyPeer, screenVars
<1>3. CASE TellDetached \/ TellResumed
  <2>1. PICK k \in {"detached", "resumed"} : PushCall(k) /\ OnlyPeer
          /\ UNCHANGED <<session, polled>>
    BY <1>3 DEF TellDetached, TellResumed
  <2>2. UNCHANGED <<session, polled, answer, row>>
    BY <2>1 DEF OnlyPeer, screenVars
  <2>3. PICK f : f = [kind |-> k]
    OBVIOUS
  <2>4. f \in Sent /\ f.kind \notin {"joined", "left", "snapshot"}
    BY <2>3, <1>k
  <2>5. down' = down \/ down' = Append(down, f)
    BY <2>1, <2>3 DEF PushCall
  <2> QED
    BY <2>2, <2>4, <2>5, <1>t, ListStays, ListMore
<1>4. CASE GraceExpires
  <2>1. CASE session = grace
    BY <1>4, <2>1, ListUnread DEF GraceExpires, Changes
  <2>2. CASE session # grace
    BY <1>4, <2>2, ListStays DEF GraceExpires, Changes, OnlyPeer, screenVars
  <2> QED
    BY <2>1, <2>2
<1>5. CASE TellLeft
  <2>1. CASE session # 0
    BY <1>5, <2>1, ListUnread DEF TellLeft, Changes
  <2>2. CASE session = 0
    <3>1. UNCHANGED <<session, polled, answer, row>>
      BY <1>5, <2>2 DEF TellLeft, Changes, OnlyPeer, screenVars
    <3>2. PICK f : f = [kind |-> "left"]
      OBVIOUS
    <3>3. f \in Sent /\ f.kind = "left"
      BY <3>2, <1>k
    <3>4. down' = down \/ down' = Append(down, f)
      BY <1>5, <3>2, <1>t DEF TellLeft, PushAll
    <3> QED
      BY <3>1, <3>3, <3>4, <2>2, <1>t, ListStays, ListMore
  <2> QED
    BY <2>1, <2>2
<1>6. CASE TakeSnapshot
  <2>1. /\ UNCHANGED <<session, row, down>> /\ answer' = <<PeerRow>>
        /\ polled' = (IF polled = "no" THEN "read" ELSE polled)
        /\ \A i \in DOMAIN down : down[i].kind # "snapshot"
    BY <1>6 DEF TakeSnapshot, peerVars, screenVars, Coming
  <2>2. Among' = Among
    BY <2>1 DEF Among
  <2>3. \A i \in DOMAIN answer' : Parsed(answer'[i]) = Among
    BY <2>1, ParsedRow
  <2>4. \A i : Behind(i)' <=> polled = "shown"
    BY <2>1 DEF Behind
  <2> QED
    BY <2>1, <2>2, <2>3, <2>4, <1>t DEF ListRight, Parsed, Behind
<1>7. CASE PushSnapshot
  <2>1. /\ UNCHANGED <<session, row, polled>> /\ answer # <<>> /\ answer' = <<>>
    BY <1>7 DEF PushSnapshot, peerVars, screenVars
  <2>2. PICK f : f = [kind |-> "snapshot", row |-> Head(answer)]
    OBVIOUS
  <2>3. Head(answer) \in Standing /\ Head(answer) = answer[1] /\ 1 \in DOMAIN answer
    BY <2>1, <1>t
  <2>4. f \in Sent /\ f.kind = "snapshot" /\ f.row = answer[1]
    BY <2>2, <2>3, SentFacts
  <2>5. down' = Append(down, f)
    BY <1>7, <2>2 DEF PushSnapshot
  <2>6. polled # "no" => Parsed(f.row) = Among
    BY <2>3, <2>4 DEF ListRight
  <2> QED
    BY <2>1, <2>4, <2>5, <2>6, <1>t, ListMore
<1>8. CASE Serve
  <2>1. UNCHANGED <<session, row, polled, answer>>
    BY <1>8 DEF Serve, peerVars, screenVars
  <2>2. PICK f : f = IF up = "join" THEN [kind |-> "joinAck", row |-> PeerRow]
                                    ELSE [kind |-> "leaveAck"]
    OBVIOUS
  <2>3. f \in Sent /\ f.kind \notin {"joined", "left", "snapshot"}
    BY <2>2, PeerRowTyped, SentFacts
  <2>4. down' = Append(down, f)
    BY <1>8, <2>2 DEF Serve
  <2> QED
    BY <2>1, <2>3, <2>4, <1>t, ListMore
<1>9. CASE HandleJoinVoice \/ HandleLeaveVoice \/ ComeBack \/ UNCHANGED rosterVars
  BY <1>9, ListStays DEF HandleJoinVoice, HandleLeaveVoice, ComeBack, rosterVars, Hub,
     peerVars, screenVars
<1>10. CASE JoinSettles
  <2>1. CASE polled = "read"
    <3>1. UNCHANGED <<session, polled, answer, down>>
      BY <1>10, <2>1 DEF JoinSettles, Changes, Hub, peerVars
    <3>2. (Among' = Among) /\ \A i : Behind(i)' <=> Behind(i)
      BY <3>1 DEF Among, Behind
    <3> QED
      BY <3>1, <3>2, <2>1 DEF ListRight, Parsed
  <2> QED
    BY <1>10, <1>t, <2>1, ListUnread DEF JoinSettles, Changes
<1>11. CASE \/ ReceiveMember \/ ReceiveTrouble \/ ReceiveSnapshot \/ ReceiveJoinAnswer
            \/ ReceiveLeaveAnswer
  <2>1. PICK h : h = Head(down)
    OBVIOUS
  <2>2. /\ down # <<>> /\ down' = Tail(down) /\ UNCHANGED <<session, answer>>
        /\ polled' = (IF h.kind = "snapshot" /\ polled = "read" THEN "shown" ELSE polled)
        /\ h.kind = "snapshot" => row' = Parsed(h.row)
        /\ h.kind = "left" => row' = Absent
        /\ h.kind \notin {"snapshot", "left", "joined"} => row' = row
    BY <1>11, <2>1 DEF ReceiveMember, ReceiveTrouble, ReceiveSnapshot, ReceiveJoinAnswer,
       ReceiveLeaveAnswer, Take, Hub, peerVars, OnVoiceUserLeft, OnVoiceUserTrouble, Replaced
  <2>3. CASE polled = "no"
    BY <2>2, <2>3, ListUnread
  <2>4. CASE polled # "no"
    <3>1. 1 \in DOMAIN down /\ h = down[1]
      BY <2>1, <2>2, TakesOne
    <3>2. polled' = "shown" => row' = Among
      <4>1. CASE h.kind = "snapshot"
        BY <4>1, <3>1, <2>2, <2>4 DEF ListRight
      <4>2. CASE h.kind \in {"left", "joined"}
        BY <4>2, <3>1, <2>2, <2>4 DEF ListRight, Behind, Among
      <4>3. CASE h.kind \notin {"snapshot", "left", "joined"}
        BY <4>3, <2>2, <2>4 DEF ListRight
      <4> QED
        BY <4>1, <4>2, <4>3
    <3>3. \/ polled' = polled /\ h.kind # "snapshot"
          \/ polled' = "shown" /\ h.kind = "snapshot"
      BY <2>2, <2>4, <1>t
    <3> QED
      BY <2>1, <2>2, <2>4, <3>2, <3>3, ListTaken
  <2> QED
    BY <2>3, <2>4
<1>12. CASE LoseMine
  <2>1. CASE polled = "shown"
    <3>1. UNCHANGED <<session, row, polled>> /\ down' = <<>> /\ answer' = <<>>
      BY <1>12, <2>1 DEF LoseMine, Changes, peerVars
    <3>2. DOMAIN down' = {} /\ DOMAIN answer' = {} /\ Among' = Among
      BY <3>1 DEF Among
    <3> QED
      BY <3>1, <3>2, <2>1 DEF ListRight
  <2>2. CASE polled # "shown"
    BY <1>12, <1>t, <2>2, ListUnread DEF LoseMine, Changes
  <2> QED
    BY <2>1, <2>2
<1> QED
  BY <1>1, <1>2, <1>3, <1>4, <1>5, <1>6, <1>7, <1>8, <1>9, <1>10, <1>11, <1>12 DEF RosterNext

(* RosterSettles holds in every reachable state.                           *)
(* From the first snapshot built after the last change of who is in a call *)
(* the list is the hub's, whatever waits behind it, and once nothing is on *)
(* the way a tile is dim exactly if its user's grace timer runs            *)
(* (useVoice.ts, handleVoiceDisconnect), but for the overtakings the       *)
(* property names.                                                         *)
THEOREM TheRosterSettles == RosterSpec => []RosterSettles
<1>1. RosterInit => RosterInv /\ NothingOnTheWay /\ ListRight
  BY RosterStarts DEF RosterInit, ListRight
<1>2. /\ RosterInv /\ NothingOnTheWay /\ ListRight /\ [RosterNext]_rosterVars
      => (RosterInv /\ NothingOnTheWay /\ ListRight)'
  BY RosterKeeps, ListKeeps
<1>3. RosterInv /\ ListRight => RosterSettles
  <2> SUFFICES ASSUME RosterInv, ListRight, polled = "shown" PROVE RosterSettles
    BY DEF RosterSettles
  <2>1. row = Parsed(PeerRow) /\ row # "detached"
    BY ParsedRow DEF ListRight, Among, Absent
  <2>2. ASSUME down = <<>>, ~leaving, ~resuming, detach = NoDetach, inCall, ~missed,
               ~overtaken
        PROVE  dimmed <=> grace # 0
    <3>1. InTrouble <=> grace # 0
      BY <2>2 DEF InTrouble, NoDetach
    <3>2. Dims <=> dimmed
      BY <2>2 DEF Dims, Touches
    <3> QED
      BY <2>2, <3>1, <3>2 DEF RosterInv
  <2> QED
    BY <2>1, <2>2 DEF RosterSettles, DetachedUserIds
<1> QED
  BY <1>1, <1>2, <1>3, PTL DEF RosterSpec

-----------------------------------------------------------------------------
(* Servers, channels and who talks in them                                 *)

USE DEF callVars
ServerSpec == ServerInit /\ [][ServerNext]_serverVars

Chans == {Text(1), Voice(1), Text(2), Voice(2)}
Known == members \union deleted

Asking == [kind : {"servers", "dms", "state"} \union EditKinds, job : Nat, of : Nat]
ServersAnswer == [kind : {"answer"}, ok : {TRUE}, servers : SUBSET Servers]
StateAnswer == [kind : {"answer"}, ok : {TRUE}, chans : SUBSET Chans, voice : SUBSET Chans]
PlainAnswer == [kind : {"answer"}, ok : BOOLEAN]
News == [kind : {"joined", "left", "message"}, of : Chans]
Incoming == ServersAnswer \union StateAnswer \union PlainAnswer \union News
Sync == [on : BOOLEAN, prefers : Nat, list : SUBSET Servers, got : SUBSET Servers,
         chans : SUBSET Chans, voice : SUBSET Chans, late : BOOLEAN]

ServerTypeOK ==
    /\ members \subseteq Servers /\ deleted \subseteq Servers
    /\ channels \subseteq Chans /\ caller \in {0, Voice(1), Voice(2)}
    /\ departing \subseteq {Voice(1), Voice(2)} /\ stale \in Nat /\ stale <= started
    /\ linked \in BOOLEAN /\ asked \in BOOLEAN /\ lateVoice \in BOOLEAN /\ spoilt \in BOOLEAN
    /\ commands \in Seq(Asking) /\ frames \in Seq(Incoming)
    /\ syncs \in [1..MaxSyncs -> Sync] /\ started \in 1..MaxSyncs
    /\ servers \subseteq Known /\ selectedServer \in Servers \union {0} /\ errors \in Nat

(* A connection that is down carries nothing, and of the commands the first *)
(* one is at the hub; its answer is the only one on its way.               *)
AnswerRight(f, a, known, n) ==
    /\ f.ok /\ a.kind = "servers" => f \in ServersAnswer /\ f.servers \subseteq known
    /\ f.ok /\ a.kind = "state" =>
         f \in StateAnswer /\ \A c \in f.chans \union f.voice : Home(c) = a.of
    /\ ~f.ok /\ a.kind \in {"servers", "state", "dms"} => n > 0

LinkRight ==
    /\ ~linked => commands = <<>> /\ frames = <<>> /\ ~asked /\ lateVoice
                  /\ \A j \in 1..MaxSyncs : syncs[j] = NoSync
    /\ asked => commands # <<>>
    /\ \A i, k \in DOMAIN frames :
         frames[i].kind = "answer" /\ frames[k].kind = "answer" => i = k
    /\ \A i \in DOMAIN frames : frames[i].kind = "answer" =>
         asked /\ AnswerRight(frames[i], commands[1], Known, errors)

(* What is read of a server's state answers the first command, and is all  *)
(* that will.                                                              *)
HubRight ==
    /\ held # {} =>
         /\ linked /\ asked /\ commands # <<>> /\ commands[1].kind = "state"
         /\ \A i \in DOMAIN frames : frames[i].kind # "answer"
    /\ \A h \in held : h \in StateAnswer /\ \A c \in h.chans \union h.voice : Home(c) = commands[1].of

(* The commands of the syncs: those for servers in the order of the syncs, *)
(* and those for channels of earlier syncs than these.                     *)
InOrder(q, n, known) ==
    /\ \A i \in DOMAIN q : q[i].kind \in {"servers", "state"} => q[i].job \in 1..n
    /\ \A i \in DOMAIN q : q[i].kind = "state" => q[i].of \in known
    /\ \A i, k \in DOMAIN q :
         q[i].kind = "servers" /\ q[k].kind = "servers" /\ i < k => q[i].job < q[k].job
    /\ \A i, k \in DOMAIN q : q[i].kind = "state" /\ q[k].kind = "state" /\ i < k =>
         q[i].job <= q[k].job /\ (q[i].job = q[k].job => q[i].of # q[k].of)
    /\ \A i, k \in DOMAIN q :
         q[i].kind = "state" /\ q[k].kind = "servers" => q[i].job < q[k].job

(* What sync y, the j-th, still waits for is among the commands in Q.      *)
Queued(q) == {q[i] : i \in DOMAIN q}
AsksServers(Q, j) == \E a \in Q : a.kind = "servers" /\ a.job = j
AsksState(Q, j, s) == \E a \in Q : a.kind = "state" /\ a.job = j /\ a.of = s
Awaited(Q, y, j, known) ==
    y.on =>
    /\ \/ AsksServers(Q, j) /\ y.got = {}
       \/ /\ ~AsksServers(Q, j) /\ y.got # y.list /\ y.got \subseteq y.list /\ y.list \subseteq known
          /\ \A s \in y.list \ y.got : AsksState(Q, j, s)
    /\ \A a \in Q : a.kind = "state" /\ a.job = j => a.of \in y.list \ y.got
    /\ \A c \in y.chans \union y.voice : Home(c) \in y.got

Kept(q, ys, n, known) ==
    /\ InOrder(q, n, known)
    /\ \A j \in 1..MaxSyncs : Awaited(Queued(q), ys[j], j, known) /\ (ys[j].on => j <= n)
SyncsRight == Kept(commands, syncs, started, Known)

(* The server last asked for is that of the last sync that prefers one, or *)
(* the one selected.                                                       *)
Wants(y) == y.on /\ y.prefers # 0
ChoiceRight ==
    choice # 0 /\ ~spoilt =>
        \/ selectedServer = choice /\ \A j \in 1..MaxSyncs : ~Wants(syncs[j])
        \/ \E j \in 1..MaxSyncs :
             /\ Wants(syncs[j]) /\ syncs[j].prefers = choice
             /\ \A k \in 1..MaxSyncs : k > j => ~Wants(syncs[k])

(* Where a list that has the caller in channel c or not will have him once *)
(* the frames of f behind the i-th have come.                              *)
Word(e, c) == e.kind \in {"joined", "left"} /\ e.of = c
EndsIn(f, i, c, base) ==
    \/ \E k \in DOMAIN f : /\ k > i /\ f[k].kind = "joined" /\ f[k].of = c
                           /\ \A l \in DOMAIN f : l > k => ~Word(f[l], c)
    \/ base /\ \A k \in DOMAIN f : k > i => ~Word(f[k], c)

(* The list on screen, those of the syncs, the one on its way and the one  *)
(* the hub holds end where the caller is, in the voice channels of the     *)
(* user's servers; but for channels whose members are still to be told of  *)
(* somebody's leaving, and for syncs that had begun when they were told    *)
(* out of order.                                                           *)
Snapshot(y) == y.voice \intersect y.chans
ShownRight(s) == linked /\ ~lateVoice /\ s \in servers =>
    (EndsIn(frames, 0, Voice(s), Voice(s) \in shown) <=> caller = Voice(s))
SyncedRight(s) == \A j \in 1..MaxSyncs :
    syncs[j].on /\ ~syncs[j].late /\ j > stale /\ s \in syncs[j].got =>
    (EndsIn(frames, 0, Voice(s), Voice(s) \in Snapshot(syncs[j])) <=> caller = Voice(s))
StateOf(i, s) == /\ frames[i].kind = "answer" /\ frames[i].ok
                 /\ commands[1].kind = "state" /\ commands[1].of = s
AnsweredRight(s) == \A i \in DOMAIN frames : StateOf(i, s) /\ commands[1].job > stale =>
    (EndsIn(frames, i, Voice(s), Voice(s) \in Snapshot(frames[i])) <=> caller = Voice(s))
HeldRight(s) == \A h \in held : commands[1].of = s /\ commands[1].job > stale =>
    (Voice(s) \in Snapshot(h) <=> caller = Voice(s))
VoiceRight(s) ==
    s \in members /\ Voice(s) \in channels \ departing =>
        ShownRight(s) /\ SyncedRight(s) /\ AnsweredRight(s) /\ HeldRight(s)

(* Nobody has heard of the voice channel of a server that is to be made.   *)
Makes(c) == c.kind \in {"create", "main", "voice"}
Untouched ==
    /\ Voice(2) \notin channels /\ Voice(2) \notin shown /\ caller # Voice(2)
    /\ Voice(2) \notin departing /\ \A h \in held : Voice(2) \notin h.voice
    /\ \A i \in DOMAIN frames : ~Word(frames[i], Voice(2))
    /\ \A j \in 1..MaxSyncs : syncs[j].on => Voice(2) \notin syncs[j].voice
    /\ \A i \in DOMAIN frames : StateOf(i, 2) => Voice(2) \notin frames[i].voice
New == 2 \notin Known /\ Text(2) \notin channels
Fits(a) ==
    /\ a.kind \in {"create", "join"} => a.of = 2
    /\ a.kind = "main" => a.of = Text(2)
    /\ a.kind = "voice" => a.of = Voice(2)
    /\ a.kind = "channel" => a.of \in {Text(1), Text(2)}
MakesRight(q) ==
    /\ \A i, k \in DOMAIN q : Makes(q[i]) /\ Makes(q[k]) => i = k
    /\ \A i \in DOMAIN q : Fits(q[i])
ToMake == \E i \in DOMAIN commands :
            Makes(commands[i]) /\ ~(asked /\ i = 1 /\ commands[i].kind = "voice")
NewRight == MakesRight(commands) /\ (New \/ ToMake => Untouched)

(* The conversations are back before the first channels.                   *)
AsksDMsFirst(q) ==
    \E d \in DOMAIN q : q[d].kind = "dms" /\ \A i \in DOMAIN q : q[i].kind = "state" => d < i
TalkRight == linked /\ errors = 0 /\ TheDM \notin dms => AsksDMsFirst(commands)

ServerInv ==
    /\ ServerTypeOK /\ LinkRight /\ HubRight /\ SyncsRight /\ ChoiceRight
    /\ (\A s \in Servers : VoiceRight(s)) /\ NewRight /\ TalkRight

(* Servers and channels by their numbers.                                  *)
LEMMA ServerNumbers ==
  /\ Servers = {1, 2} /\ Text(1) = 11 /\ Voice(1) = 12 /\ Text(2) = 21 /\ Voice(2) = 22
  /\ Chans = {11, 12, 21, 22} /\ TheDM = 99
  /\ Home(11) = 1 /\ Home(12) = 1 /\ Home(21) = 2 /\ Home(22) = 2
  /\ \A s \in Servers : Voice(s) \in Chans /\ Text(s) \in Chans
       /\ Home(Voice(s)) = s /\ Home(Text(s)) = s
  /\ \A s, t \in Servers : Voice(s) # Text(t) /\ (Voice(s) = Voice(t) => s = t)
  /\ \A n \in Nat : Home(n) \in Nat
<1>1. \A n \in Nat : Home(n) \in Nat
  BY DEF Home
<1>2. Home(11) = 1 /\ Home(12) = 1 /\ Home(21) = 2 /\ Home(22) = 2
  BY DEF Home
<1>3. /\ Servers = {1, 2} /\ Text(1) = 11 /\ Voice(1) = 12 /\ Text(2) = 21 /\ Voice(2) = 22
      /\ Chans = {11, 12, 21, 22} /\ TheDM = 99
  BY DEF Servers, Text, Voice, Chans, TheDM
<1> QED
  BY <1>1, <1>2, <1>3

(* The order of the commands when the first has been answered, when one is *)
(* added, and when a sync begins.                                          *)
LEMMA OrderOfRest ==
  ASSUME NEW q \in Seq(Asking), q # <<>>, NEW n \in Nat, NEW known, InOrder(q, n, known)
  PROVE  InOrder(Tail(q), n, known)
<1> DEFINE r == Tail(q)
<1>1. \A i \in DOMAIN r : i \in Nat /\ i + 1 \in DOMAIN q /\ r[i] = q[i + 1]
  BY TailFacts
<1>2. \A i \in DOMAIN r : r[i].kind \in {"servers", "state"} => r[i].job \in 1..n
  BY <1>1 DEF InOrder
<1>3. \A i \in DOMAIN r : r[i].kind = "state" => r[i].of \in known
  BY <1>1 DEF InOrder
<1>4. ASSUME NEW i \in DOMAIN r, NEW k \in DOMAIN r
      PROVE  /\ r[i].kind = "servers" /\ r[k].kind = "servers" /\ i < k => r[i].job < r[k].job
             /\ r[i].kind = "state" /\ r[k].kind = "state" /\ i < k =>
                  r[i].job <= r[k].job /\ (r[i].job = r[k].job => r[i].of # r[k].of)
             /\ r[i].kind = "state" /\ r[k].kind = "servers" => r[i].job < r[k].job
  <2>1. /\ i + 1 \in DOMAIN q /\ r[i] = q[i + 1] /\ k + 1 \in DOMAIN q /\ r[k] = q[k + 1]
        /\ i < k => i + 1 < k + 1
    BY <1>1
  <2> HIDE DEF r
  <2> QED
    BY <2>1 DEF InOrder
<1> HIDE DEF r
<1> QED
  BY <1>2, <1>3, <1>4 DEF InOrder, r

LEMMA OrderGrows ==
  ASSUME NEW q, NEW n \in Nat, NEW m \in Nat, n <= m, NEW known, NEW more, known \subseteq more,
         InOrder(q, n, known)
  PROVE  InOrder(q, m, more)
<1>1. \A i \in DOMAIN q : q[i].kind \in {"servers", "state"} => q[i].job \in 1..m
  BY DEF InOrder
<1> QED
  BY <1>1 DEF InOrder

LEMMA OrderWith ==
  ASSUME NEW q \in Seq(Asking), NEW n \in Nat, NEW known, InOrder(q, n, known), NEW a \in Asking,
         a.kind \notin {"servers", "state"}
  PROVE  InOrder(Append(q, a), n, known)
<1> DEFINE r == Append(q, a)
<1>1. /\ \A i \in DOMAIN q : i \in DOMAIN r /\ r[i] = q[i]
      /\ \A i \in DOMAIN r : (i \in DOMAIN q /\ r[i] = q[i]) \/ r[i] = a
  BY AppendFacts
<1> HIDE DEF r
<1>2. \A i \in DOMAIN r : r[i].kind \in {"servers", "state"} => i \in DOMAIN q /\ r[i] = q[i]
  BY <1>1
<1>3. InOrder(r, n, known)
  BY <1>2 DEF InOrder
<1> QED
  BY <1>3 DEF r

LEMMA OrderWithSync ==
  ASSUME NEW q \in Seq(Asking), NEW n \in Nat, NEW known, InOrder(q, n, known),
         NEW a \in Asking, a.kind = "servers", a.job = n + 1
  PROVE  InOrder(Append(q, a), n + 1, known)
<1> DEFINE r == Append(q, a)
<1>1. /\ \A i \in DOMAIN q : i \in DOMAIN r /\ r[i] = q[i] /\ i \in Nat /\ i < Len(q) + 1
      /\ \A i \in DOMAIN r : (i \in DOMAIN q /\ r[i] = q[i]) \/ (i = Len(q) + 1 /\ r[i] = a)
  BY AppendFacts
<1>2. Len(q) \in Nat
  OBVIOUS
<1> HIDE DEF r
<1>3. \A i \in DOMAIN q : q[i].kind \in {"servers", "state"} => q[i].job \in 1..n /\ q[i].job < n + 1
  BY DEF InOrder
<1>4. \A i \in DOMAIN r : r[i].kind \in {"servers", "state"} => r[i].job \in 1..(n + 1)
  BY <1>1, <1>3
<1>5. \A i \in DOMAIN r : r[i].kind = "state" => i \in DOMAIN q /\ r[i] = q[i]
  BY <1>1
<1>6. ASSUME NEW i \in DOMAIN r, NEW k \in DOMAIN r, r[i].kind = "servers", r[k].kind = "servers", i < k
      PROVE  r[i].job < r[k].job
  <2>1. i \in DOMAIN q /\ r[i] = q[i]
    BY <1>1, <1>2, <1>6
  <2>2. CASE k \in DOMAIN q
    <3>1. r[k] = q[k]
      BY <1>1, <2>2
    <3> QED
      BY <1>6, <2>1, <2>2, <3>1 DEF InOrder
  <2>3. CASE r[k] = a
    BY <1>3, <1>6, <2>1, <2>3
  <2> QED
    BY <1>1, <2>2, <2>3
<1>7. ASSUME NEW i \in DOMAIN r, NEW k \in DOMAIN r, r[i].kind = "state", r[k].kind = "servers"
      PROVE  r[i].job < r[k].job
  <2>1. i \in DOMAIN q /\ r[i] = q[i]
    BY <1>5, <1>7
  <2>2. CASE k \in DOMAIN q
    <3>1. r[k] = q[k]
      BY <1>1, <2>2
    <3> QED
      BY <1>7, <2>1, <2>2, <3>1 DEF InOrder
  <2>3. CASE r[k] = a
    BY <1>3, <1>7, <2>1, <2>3
  <2> QED
    BY <1>1, <2>2, <2>3
<1>8. InOrder(r, n + 1, known)
  BY <1>4, <1>5, <1>6, <1>7 DEF InOrder
<1> QED
  BY <1>8 DEF r

(* A sync asks for the channels of each server of its list, once.          *)
StatesFor(job, list) ==
    [i \in 1..Cardinality(list) |-> Ask("state", job, CHOOSE s \in list :
                                                 Cardinality({t \in list : t <= s}) = i)]
LEMMA StatesAsked ==
  ASSUME NEW job \in Nat, NEW list \in SUBSET Servers
  PROVE  /\ StatesFor(job, list) \in Seq(Asking)
         /\ \A i \in DOMAIN StatesFor(job, list) :
              /\ i \in Nat /\ i >= 1 /\ StatesFor(job, list)[i].kind = "state"
              /\ StatesFor(job, list)[i].job = job /\ StatesFor(job, list)[i].of \in list
         /\ \A i, k \in DOMAIN StatesFor(job, list) :
              i # k => StatesFor(job, list)[i].of # StatesFor(job, list)[k].of
         /\ \A s \in list : \E i \in DOMAIN StatesFor(job, list) : StatesFor(job, list)[i].of = s
<1> DEFINE st == StatesFor(job, list)
           pick(i) == CHOOSE s \in list : Cardinality({t \in list : t <= s}) = i
<1>1. Cardinality({}) = 0 /\ Cardinality({1}) = 1 /\ Cardinality({2}) = 1
      /\ Cardinality({1, 2}) = 2
  <2>1. \A x : IsFiniteSet({x}) /\ Cardinality({x}) = 1
    BY FS_Singleton
  <2>2. {1, 2} = {1} \union {2} /\ 2 \notin {1}
    OBVIOUS
  <2>3. Cardinality({1} \union {2}) = Cardinality({1}) + 1
    BY <2>1, <2>2, FS_AddElement
  <2>4. Cardinality({1, 2}) = 2
    <3>1. Cardinality({1}) = 1 /\ 1 + 1 = 2
      BY ONLY <2>1
    <3> QED
      BY ONLY <2>2, <2>3, <3>1
  <2>5. Cardinality({}) = 0
    BY ONLY FS_EmptySet
  <2> QED
    BY ONLY <2>1, <2>4, <2>5
<1>2. /\ \A i \in 1..Cardinality(list) : pick(i) \in list
      /\ \A i, k \in 1..Cardinality(list) : i # k => pick(i) # pick(k)
      /\ \A s \in list : \E i \in 1..Cardinality(list) : pick(i) = s
      /\ Cardinality(list) \in Nat
  <2>1. list = {} \/ list = {1} \/ list = {2} \/ list = {1, 2}
    BY DEF Servers
  <2>2. CASE list = {}
    BY <1>1, <2>2
  <2>3. ASSUME NEW x \in {1, 2}, list = {x}
        PROVE  /\ \A i \in 1..Cardinality(list) : pick(i) \in list
               /\ \A i, k \in 1..Cardinality(list) : i # k => pick(i) # pick(k)
               /\ \A s \in list : \E i \in 1..Cardinality(list) : pick(i) = s
               /\ Cardinality(list) \in Nat
    <3>1. Cardinality(list) = 1 /\ {t \in list : t <= x} = {x} /\ Cardinality({x}) = 1
      BY <1>1, <2>3
    <3>2. pick(1) = x
      BY <2>3, <3>1
    <3> HIDE DEF pick
    <3> QED
      BY <2>3, <3>1, <3>2
  <2>4. CASE list = {1, 2}
    <3>1. {t \in list : t <= 1} = {1} /\ {t \in list : t <= 2} = {1, 2}
      BY <2>4
    <3>2. pick(1) = 1
      BY <1>1, <2>4, <3>1
    <3>3. pick(2) = 2
      BY <1>1, <2>4, <3>1
    <3>4. 1..Cardinality(list) = {1, 2} /\ Cardinality(list) \in Nat
      BY <1>1, <2>4
    <3> HIDE DEF pick
    <3> QED
      BY <2>4, <3>2, <3>3, <3>4
  <2> QED
    BY <2>1, <2>2, <2>3, <2>4
<1>3. st = [i \in 1..Cardinality(list) |-> Ask("state", job, pick(i))]
  BY DEF StatesFor
<1> HIDE DEF pick
<1>4. \A i \in 1..Cardinality(list) : st[i] = Ask("state", job, pick(i))
  BY <1>3
<1>5. \A i \in 1..Cardinality(list) : /\ st[i].kind = "state" /\ st[i].job = job
                                      /\ st[i].of = pick(i) /\ st[i] \in Asking
  <2> HIDE DEF st
  <2> SUFFICES ASSUME NEW i \in 1..Cardinality(list)
               PROVE  /\ st[i].kind = "state" /\ st[i].job = job
                      /\ st[i].of = pick(i) /\ st[i] \in Asking
    OBVIOUS
  <2>1. st[i] = [kind |-> "state", job |-> job, of |-> pick(i)]
    BY <1>4 DEF Ask
  <2>2. pick(i) \in Nat
    <3>1. pick(i) \in list
      BY <1>2
    <3>2. \A x \in list : x \in Nat
      BY DEF Servers
    <3> QED
      BY ONLY <3>1, <3>2
  <2> QED
    BY <2>1, <2>2 DEF Asking
<1>6. st \in Seq(Asking) /\ DOMAIN st = 1..Cardinality(list)
  BY <1>2, <1>3, <1>5
<1> HIDE DEF st
<1>7. /\ st \in Seq(Asking)
      /\ \A i \in DOMAIN st : /\ i \in Nat /\ i >= 1 /\ st[i].kind = "state"
                              /\ st[i].job = job /\ st[i].of \in list
      /\ \A i, k \in DOMAIN st : i # k => st[i].of # st[k].of
      /\ \A s \in list : \E i \in DOMAIN st : st[i].of = s
  BY <1>2, <1>5, <1>6
<1> QED
  BY <1>7 DEF st

(* The commands behind the answer to a sync's first one.                   *)
LEMMA JoinedFacts ==
  ASSUME NEW s \in Seq(Asking), NEW t \in Seq(Asking)
  PROVE  /\ s \o t \in Seq(Asking) /\ Len(s) \in Nat
         /\ \A i \in DOMAIN s : i \in Nat /\ i <= Len(s) /\ i \in DOMAIN (s \o t) /\ (s \o t)[i] = s[i]
         /\ \A i \in DOMAIN t : i \in Nat /\ i >= 1 /\ Len(s) + i \in DOMAIN (s \o t)
                                /\ (s \o t)[Len(s) + i] = t[i]
         /\ \A i \in DOMAIN (s \o t) :
              \/ i \in DOMAIN s
              \/ i - Len(s) \in DOMAIN t /\ (s \o t)[i] = t[i - Len(s)] /\ i \in Nat
<1>1. /\ s \o t \in Seq(Asking) /\ Len(s) \in Nat /\ Len(t) \in Nat
      /\ Len(s \o t) = Len(s) + Len(t) /\ DOMAIN s = 1..Len(s) /\ DOMAIN t = 1..Len(t)
      /\ DOMAIN (s \o t) = 1..(Len(s) + Len(t))
      /\ \A i \in 1..(Len(s) + Len(t)) :
           (s \o t)[i] = IF i <= Len(s) THEN s[i] ELSE t[i - Len(s)]
  BY ConcatProperties
<1>2. \A i \in 1..Len(t) : Len(s) + i \in 1..(Len(s) + Len(t)) /\ ~(Len(s) + i <= Len(s))
                           /\ (Len(s) + i) - Len(s) = i
  BY <1>1
<1>3. \A i \in 1..(Len(s) + Len(t)) : i \in 1..Len(s) \/ (~(i <= Len(s)) /\ i - Len(s) \in 1..Len(t))
  BY <1>1
<1> QED
  BY <1>1, <1>2, <1>3

LEMMA OrderWithStates ==
  ASSUME NEW q \in Seq(Asking), q # <<>>, NEW n \in Nat, NEW known, InOrder(q, n, known),
         q[1].kind = "servers", NEW list \in SUBSET Servers, list \subseteq known
  PROVE  InOrder(Tail(q) \o StatesFor(q[1].job, list), n, known)
<1> DEFINE r == Tail(q)  st == StatesFor(q[1].job, list)  u == r \o st  job == q[1].job
<1>1. /\ r \in Seq(Asking) /\ 1 \in DOMAIN q
      /\ \A i \in DOMAIN r : i \in Nat /\ i >= 1 /\ i + 1 \in DOMAIN q /\ r[i] = q[i + 1]
  BY TailFacts
<1>2. job \in 1..n /\ job \in Nat
  BY <1>1 DEF InOrder
<1>3. /\ st \in Seq(Asking)
      /\ \A i \in DOMAIN st : i \in Nat /\ i >= 1 /\ st[i].kind = "state"
                              /\ st[i].job = job /\ st[i].of \in list
      /\ \A i, k \in DOMAIN st : i # k => st[i].of # st[k].of
  BY <1>2, StatesAsked
<1>4. InOrder(r, n, known)
  BY OrderOfRest
<1>5. \A i \in DOMAIN r : /\ r[i].kind = "servers" => job < r[i].job
                          /\ r[i].kind = "state" => r[i].job < job /\ r[i].job \in Nat
  BY <1>1 DEF InOrder
<1> HIDE DEF r, st, job
<1>6. /\ Len(r) \in Nat
      /\ \A i \in DOMAIN r : i \in Nat /\ i <= Len(r) /\ i \in DOMAIN u /\ u[i] = r[i]
      /\ \A i \in DOMAIN st : i \in Nat /\ i >= 1 /\ Len(r) + i \in DOMAIN u /\ u[Len(r) + i] = st[i]
      /\ \A i \in DOMAIN u : \/ i \in DOMAIN r
                             \/ i - Len(r) \in DOMAIN st /\ u[i] = st[i - Len(r)] /\ i \in Nat
  <2>1. r \in Seq(Asking) /\ st \in Seq(Asking)
    BY <1>1, <1>3
  <2> QED
    BY <2>1, JoinedFacts
<1> HIDE DEF u
<1>7. \A i \in DOMAIN u : u[i].kind \in {"servers", "state"} => u[i].job \in 1..n
  <2> SUFFICES ASSUME NEW i \in DOMAIN u, u[i].kind \in {"servers", "state"} PROVE u[i].job \in 1..n
    OBVIOUS
  <2>1. CASE i \in DOMAIN r
    BY <1>4, <1>6, <2>1 DEF InOrder
  <2>2. CASE i \notin DOMAIN r
    <3>1. u[i].job = job
      BY <1>3, <1>6, <2>2
    <3> QED
      BY <1>2, <3>1
  <2> QED
    BY <2>1, <2>2
<1>8. \A i \in DOMAIN u : u[i].kind = "state" => u[i].of \in known
  BY <1>3, <1>4, <1>6 DEF InOrder
<1>9. \A i \in DOMAIN u : u[i].kind = "servers" => i \in DOMAIN r /\ u[i] = r[i] /\ job < u[i].job
  <2>1. \A i \in DOMAIN st : st[i].kind # "servers"
    BY <1>3
  <2> QED
    BY <1>5, <1>6, <2>1
<1>10. \A i, k \in DOMAIN u :
         u[i].kind = "servers" /\ u[k].kind = "servers" /\ i < k => u[i].job < u[k].job
  BY <1>4, <1>9 DEF InOrder
<1>11. \A i \in DOMAIN u : i \notin DOMAIN r => u[i].job = job
  BY <1>3, <1>6
<1>12. \A i, k \in DOMAIN u : u[i].kind = "state" /\ u[k].kind = "servers" => u[i].job < u[k].job
  <2> SUFFICES ASSUME NEW i \in DOMAIN u, NEW k \in DOMAIN u, u[i].kind = "state", u[k].kind = "servers"
               PROVE  u[i].job < u[k].job
    OBVIOUS
  <2>1. k \in DOMAIN r /\ u[k] = r[k] /\ job < u[k].job
    BY <1>9
  <2>2. CASE i \in DOMAIN r
    BY <1>4, <1>6, <2>1, <2>2 DEF InOrder
  <2>3. CASE i \notin DOMAIN r
    BY <1>11, <2>1, <2>3
  <2> QED
    BY <2>2, <2>3
<1>13. \A i, k \in DOMAIN u : u[i].kind = "state" /\ u[k].kind = "state" /\ i < k =>
         u[i].job <= u[k].job /\ (u[i].job = u[k].job => u[i].of # u[k].of)
  <2> SUFFICES ASSUME NEW i \in DOMAIN u, NEW k \in DOMAIN u, u[i].kind = "state",
                      u[k].kind = "state", i < k
               PROVE  u[i].job <= u[k].job /\ (u[i].job = u[k].job => u[i].of # u[k].of)
    OBVIOUS
  <2>1. CASE k \in DOMAIN r
    <3>1. i \in DOMAIN r
      <4> SUFFICES ASSUME i \notin DOMAIN r PROVE FALSE
        OBVIOUS
      <4>1. i - Len(r) \in DOMAIN st /\ i \in Nat
        BY <1>6
      <4> QED
        BY <1>3, <1>6, <2>1, <4>1
    <3> QED
      BY <1>4, <1>6, <2>1, <3>1 DEF InOrder
  <2>2. CASE k \notin DOMAIN r /\ i \in DOMAIN r
    <3>1. u[k].job = job /\ u[i].job < job /\ u[i].job \in Nat
      BY <1>5, <1>6, <1>11, <2>2
    <3> QED
      BY <1>2, <3>1 DEF job
  <2>3. CASE k \notin DOMAIN r /\ i \notin DOMAIN r
    <3>1. u[k].job = job /\ u[i].job = job
      BY <1>11, <2>3
    <3>2. /\ i - Len(r) \in DOMAIN st /\ k - Len(r) \in DOMAIN st /\ i \in Nat /\ k \in Nat
          /\ u[i] = st[i - Len(r)] /\ u[k] = st[k - Len(r)]
      BY <1>6, <2>3
    <3>3. i - Len(r) # k - Len(r)
      BY <1>6, <3>2
    <3>4. u[i].of # u[k].of
      BY <1>3, <3>2, <3>3
    <3> QED
      BY <1>2, <3>1, <3>4
  <2> QED
    BY <2>1, <2>2, <2>3
<1>14. InOrder(u, n, known)
  BY <1>7, <1>8, <1>10, <1>12, <1>13 DEF InOrder
<1> QED
  BY <1>14 DEF u, r, st, job

(* What is queued, when one is answered, added, or a list of them.         *)
LEMMA QueuedRest ==
  ASSUME NEW q \in Seq(Asking), q # <<>>
  PROVE  Queued(q) = Queued(Tail(q)) \union {q[1]} /\ q[1] \in Asking /\ Queued(Tail(q)) \subseteq Asking
<1>1. /\ Tail(q) \in Seq(Asking) /\ 1 \in DOMAIN q /\ q[1] \in Asking
      /\ \A i \in DOMAIN Tail(q) : i + 1 \in DOMAIN q /\ Tail(q)[i] = q[i + 1]
      /\ \A i \in DOMAIN q : i = 1 \/ (i - 1 \in DOMAIN Tail(q) /\ Tail(q)[i - 1] = q[i])
  BY TailFacts
<1>2. \A i \in DOMAIN Tail(q) : Tail(q)[i] \in Asking
  BY <1>1
<1>3. \A x \in Queued(Tail(q)) : x \in Queued(q) /\ x \in Asking
  BY <1>1, <1>2 DEF Queued
<1>4. ASSUME NEW x \in Queued(q) PROVE x = q[1] \/ x \in Queued(Tail(q))
  <2>1. PICK i \in DOMAIN q : x = q[i]
    BY DEF Queued
  <2>2. CASE i - 1 \in DOMAIN Tail(q) /\ Tail(q)[i - 1] = q[i]
    <3>1. PICK k \in DOMAIN Tail(q) : Tail(q)[k] = x
      BY <2>1, <2>2
    <3> QED
      BY <3>1 DEF Queued
  <2> QED
    BY <1>1, <2>1, <2>2
<1>5. q[1] \in Queued(q)
  BY <1>1 DEF Queued
<1> QED
  BY <1>1, <1>3, <1>4, <1>5

LEMMA QueuedWith ==
  ASSUME NEW q \in Seq(Asking), NEW a \in Asking
  PROVE  Queued(Append(q, a)) = Queued(q) \union {a} /\ Queued(q) \subseteq Asking
<1>1. /\ \A i \in DOMAIN q : i \in DOMAIN Append(q, a) /\ Append(q, a)[i] = q[i]
      /\ Len(q) + 1 \in DOMAIN Append(q, a) /\ Append(q, a)[Len(q) + 1] = a
      /\ \A i \in DOMAIN Append(q, a) : i \in DOMAIN q \/ i = Len(q) + 1
  BY AppendFacts
<1>2. \A i \in DOMAIN q : q[i] \in Asking
  OBVIOUS
<1> QED
  BY <1>1, <1>2 DEF Queued

LEMMA QueuedJoined ==
  ASSUME NEW s \in Seq(Asking), NEW t \in Seq(Asking)
  PROVE  Queued(s \o t) = Queued(s) \union Queued(t)
<1>1. /\ \A i \in DOMAIN s : i \in DOMAIN (s \o t) /\ (s \o t)[i] = s[i]
      /\ \A i \in DOMAIN t : Len(s) + i \in DOMAIN (s \o t) /\ (s \o t)[Len(s) + i] = t[i]
      /\ \A i \in DOMAIN (s \o t) :
              \/ i \in DOMAIN s
              \/ i - Len(s) \in DOMAIN t /\ (s \o t)[i] = t[i - Len(s)]
  BY JoinedFacts
<1>2. \A x \in Queued(s) : x \in Queued(s \o t)
  BY <1>1 DEF Queued
<1>3. ASSUME NEW x \in Queued(t) PROVE x \in Queued(s \o t)
  <2>1. PICK i \in DOMAIN t : x = t[i]
    BY DEF Queued
  <2>2. PICK k \in DOMAIN (s \o t) : (s \o t)[k] = x
    BY <1>1, <2>1
  <2> QED
    BY <2>2 DEF Queued
<1>4. \A x \in Queued(s \o t) : x \in Queued(s) \/ x \in Queued(t)
  BY <1>1 DEF Queued
<1> QED
  BY <1>2, <1>3, <1>4

(* A sync waits for the same when a command is answered or added that is   *)
(* not its own.                                                            *)
LEMMA AwaitedRest ==
  ASSUME NEW Q, NEW a, NEW y, NEW j, NEW known, Awaited(Q \union {a}, y, j, known),
         a.kind \in {"servers", "state"} => a.job # j
  PROVE  Awaited(Q, y, j, known)
BY DEF Awaited, AsksServers, AsksState

LEMMA AwaitedWith ==
  ASSUME NEW Q, NEW a, NEW y, NEW j, NEW known, Awaited(Q, y, j, known),
         a.kind \in {"servers", "state"} => a.job # j
  PROVE  Awaited(Q \union {a}, y, j, known)
BY DEF Awaited, AsksServers, AsksState

LEMMA AwaitedGrows ==
  ASSUME NEW Q, NEW y, NEW j, NEW known, NEW more, known \subseteq more, Awaited(Q, y, j, known)
  PROVE  Awaited(Q, y, j, more)
BY DEF Awaited

(* A sync that begins asks for the servers.                                *)
LEMMA AwaitedFirst ==
  ASSUME NEW Q, NEW a, NEW y, NEW j, NEW known,
         \A b \in Q : b.kind = "state" => b.job # j,
         a.kind = "servers", a.job = j, y.got = {}, y.chans = {}, y.voice = {}
  PROVE  Awaited(Q \union {a}, y, j, known)
BY DEF Awaited, AsksServers

(* Then it asks for the channels of each.                                  *)
LEMMA AwaitedStates ==
  ASSUME NEW Q, NEW S, NEW j, NEW known, NEW z, NEW list, list # {}, list \subseteq known,
         \A b \in Q : b.kind \in {"servers", "state"} => b.job # j,
         \A b \in S : b.kind = "state" /\ b.job = j /\ b.of \in list,
         \A s \in list : \E b \in S : b.of = s,
         z.list = list, z.got = {}, z.chans = {}, z.voice = {}
  PROVE  Awaited(Q \union S, z, j, known)
<1>1. \A b \in Q \union S : b.kind = "state" /\ b.job = j => b.of \in list
  OBVIOUS
<1>2. ~AsksServers(Q \union S, j)
  BY DEF AsksServers
<1>3. \A s \in list : AsksState(Q \union S, j, s)
  BY DEF AsksState
<1> QED
  BY <1>1, <1>2, <1>3 DEF Awaited

LEMMA AwaitedOther ==
  ASSUME NEW Q, NEW S, NEW j, NEW known, NEW y, Awaited(Q, y, j, known),
         \A b \in S : b.kind = "state" /\ b.job # j
  PROVE  Awaited(Q \union S, y, j, known)
BY DEF Awaited, AsksServers, AsksState

(* And one of them is answered.                                            *)
LEMMA AwaitedState ==
  ASSUME NEW Q, NEW a, NEW j, NEW known, NEW y, NEW z, y.on, Awaited(Q \union {a}, y, j, known),
         a.kind = "state", a.job = j,
         \A b \in Q : b.kind = "servers" => b.job # j,
         \A b \in Q : b.kind = "state" /\ b.job = j => b.of # a.of,
         z.list = y.list, z.got = y.got \union {a.of}, z.got # z.list,
         \A c \in (z.chans \union z.voice) \ (y.chans \union y.voice) : Home(c) = a.of
  PROVE  Awaited(Q, z, j, known)
<1>1. ~AsksServers(Q, j) /\ ~AsksServers(Q \union {a}, j)
  BY DEF AsksServers
<1>2. a.of \in y.list \ y.got /\ y.got \subseteq y.list /\ y.list \subseteq known
  BY <1>1 DEF Awaited
<1>3. \A s \in z.list \ z.got : AsksState(Q, j, s)
  BY <1>1 DEF Awaited, AsksState
<1>4. \A b \in Q : b.kind = "state" /\ b.job = j => b.of \in z.list \ z.got
  BY DEF Awaited
<1>5. \A c \in z.chans \union z.voice : Home(c) \in z.got
  BY DEF Awaited
<1> QED
  BY <1>1, <1>2, <1>3, <1>4, <1>5 DEF Awaited

(* The commands and the syncs together.  A sync whose commands or channels *)
(* are at the head of the queue: earlier ones are over.                    *)
LEMMA EarlierDone ==
  ASSUME NEW q \in Seq(Asking), q # <<>>, NEW n \in Nat, NEW known, NEW ys, Kept(q, ys, n, known),
         q[1].kind = "state", NEW k \in 1..MaxSyncs, ys[k].on
  PROVE  q[1].job <= k /\ q[1].job \in 1..n
<1>1. /\ 1 \in DOMAIN q /\ \A i \in DOMAIN q : i \in Nat /\ (i = 1 \/ 1 < i)
      /\ k \in Nat
  BY TailFacts
<1>2. q[1].job \in 1..n
  BY <1>1 DEF Kept, InOrder
<1>3. \E a \in Queued(q) : (a.kind = "servers" \/ a.kind = "state") /\ a.job = k
  <2>1. \/ AsksServers(Queued(q), k)
        \/ ys[k].got # ys[k].list /\ ys[k].got \subseteq ys[k].list
           /\ \A s \in ys[k].list \ ys[k].got : AsksState(Queued(q), k, s)
    BY DEF Kept, Awaited
  <2>2. CASE ys[k].got # ys[k].list /\ ys[k].got \subseteq ys[k].list
             /\ \A s \in ys[k].list \ ys[k].got : AsksState(Queued(q), k, s)
    <3>1. PICK s \in ys[k].list \ ys[k].got : TRUE
      BY <2>2
    <3>2. AsksState(Queued(q), k, s)
      BY <2>2, <3>1
    <3> QED
      BY <3>2 DEF AsksState
  <2> QED
    BY <2>1, <2>2 DEF AsksServers
<1>4. PICK i \in DOMAIN q : (q[i].kind = "servers" \/ q[i].kind = "state") /\ q[i].job = k
  BY <1>3 DEF Queued
<1>5. CASE q[i].kind = "servers"
  <2>1. q[1].job < q[i].job
    BY <1>1, <1>4, <1>5 DEF Kept, InOrder
  <2> QED
    BY <1>1, <1>2, <1>4, <2>1
<1>6. CASE q[i].kind = "state"
  <2>1. i = 1 \/ q[1].job <= q[i].job
    BY <1>1, <1>4, <1>6 DEF Kept, InOrder
  <2> QED
    BY <1>1, <1>2, <1>4, <2>1
<1> QED
  BY <1>2, <1>4, <1>5, <1>6

(* When nothing is asked, no sync is under way.                            *)
LEMMA NothingAwaited ==
  ASSUME NEW ys, NEW n, NEW known, Kept(<<>>, ys, n, known), NEW j \in 1..MaxSyncs
  PROVE  ~ys[j].on
<1>1. Queued(<<>>) = {}
  BY DEF Queued
<1> QED
  BY <1>1 DEF Kept, Awaited, AsksServers, AsksState

LEMMA KeptGrows ==
  ASSUME NEW q, NEW ys, NEW n \in Nat, NEW known, NEW more, known \subseteq more, Kept(q, ys, n, known)
  PROVE  Kept(q, ys, n, more)
<1>1. InOrder(q, n, more)
  BY OrderGrows DEF Kept
<1> QED
  BY <1>1, AwaitedGrows DEF Kept

(* Only whether its events are late is noted.                              *)
LEMMA KeptLate ==
  ASSUME NEW q, NEW ys, NEW zs, NEW n, NEW known, Kept(q, ys, n, known),
         \A j \in 1..MaxSyncs : /\ zs[j].on = ys[j].on /\ zs[j].list = ys[j].list
                                /\ zs[j].got = ys[j].got /\ zs[j].chans = ys[j].chans
                                /\ zs[j].voice = ys[j].voice
  PROVE  Kept(q, zs, n, known)
BY DEF Kept, Awaited

(* A command that is not a sync's comes or goes, or a sync ends with it.   *)
LEMMA KeptRest ==
  ASSUME NEW q \in Seq(Asking), q # <<>>, NEW ys, NEW zs, NEW n \in Nat, NEW known,
         Kept(q, ys, n, known),
         \A j \in 1..MaxSyncs : zs[j] = ys[j] \/ ~zs[j].on,
         \A j \in 1..MaxSyncs : q[1].kind \in {"servers", "state"} /\ q[1].job = j => ~zs[j].on
  PROVE  Kept(Tail(q), zs, n, known)
<1>1. InOrder(Tail(q), n, known)
  BY OrderOfRest DEF Kept
<1>2. ASSUME NEW j \in 1..MaxSyncs
      PROVE  Awaited(Queued(Tail(q)), zs[j], j, known) /\ (zs[j].on => j <= n)
  <2>1. CASE ~zs[j].on
    BY <2>1 DEF Awaited
  <2>2. CASE zs[j].on
    <3>1. zs[j] = ys[j] /\ (q[1].kind \in {"servers", "state"} => q[1].job # j)
      BY <2>2
    <3>2. Awaited(Queued(Tail(q)) \union {q[1]}, ys[j], j, known) /\ j <= n
      BY <2>2, <3>1, QueuedRest DEF Kept
    <3> QED
      BY <3>1, <3>2, AwaitedRest
  <2> QED
    BY <2>1, <2>2
<1> QED
  BY <1>1, <1>2 DEF Kept

LEMMA KeptWith ==
  ASSUME NEW q \in Seq(Asking), NEW ys, NEW n \in Nat, NEW known, Kept(q, ys, n, known),
         NEW a \in Asking, a.kind \notin {"servers", "state"}
  PROVE  Kept(Append(q, a), ys, n, known)
<1>1. InOrder(Append(q, a), n, known)
  BY OrderWith DEF Kept
<1>2. \A j \in 1..MaxSyncs : Awaited(Queued(q) \union {a}, ys[j], j, known)
  BY AwaitedWith DEF Kept
<1> QED
  BY <1>1, <1>2, QueuedWith DEF Kept

(* A sync begins.                                                          *)
LEMMA KeptSync ==
  ASSUME NEW q \in Seq(Asking), NEW ys, NEW zs, NEW n \in Nat, NEW known, Kept(q, ys, n, known),
         NEW a \in Asking, a.kind = "servers", a.job = n + 1,
         \A j \in 1..MaxSyncs : j # n + 1 => zs[j] = ys[j],
         n + 1 \in 1..MaxSyncs => zs[n + 1].got = {} /\ zs[n + 1].chans = {} /\ zs[n + 1].voice = {}
  PROVE  Kept(Append(q, a), zs, n + 1, known)
<1>1. InOrder(Append(q, a), n + 1, known)
  BY OrderWithSync DEF Kept
<1>2. ASSUME NEW j \in 1..MaxSyncs
      PROVE  Awaited(Queued(q) \union {a}, zs[j], j, known) /\ (zs[j].on => j <= n + 1)
  <2>1. CASE j = n + 1
    <3>1. \A b \in Queued(q) : b.kind = "state" => b.job # j
      BY <2>1 DEF Queued, Kept, InOrder
    <3>2. a.kind = "servers" /\ a.job = j /\ zs[j].got = {} /\ zs[j].chans = {} /\ zs[j].voice = {}
      BY <2>1
    <3>3. Awaited(Queued(q) \union {a}, zs[j], j, known)
      BY <3>1, <3>2, AwaitedFirst
    <3> QED
      BY <2>1, <3>3
  <2>2. CASE j # n + 1
    <3>1. a.job # j /\ zs[j] = ys[j]
      BY <2>2
    <3>2. Awaited(Queued(q), ys[j], j, known) /\ (ys[j].on => j <= n)
      BY DEF Kept
    <3>3. Awaited(Queued(q) \union {a}, ys[j], j, known)
      BY <3>1, <3>2, AwaitedWith
    <3> QED
      BY <3>1, <3>2, <3>3
  <2> QED
    BY <2>1, <2>2
<1> QED
  BY <1>1, <1>2, QueuedWith DEF Kept

(* A sync has its list, and asks on.                                       *)
LEMMA KeptServers ==
  ASSUME NEW q \in Seq(Asking), q # <<>>, NEW ys, NEW zs, NEW n \in Nat, NEW known,
         Kept(q, ys, n, known), q[1].kind = "servers",
         NEW list \in SUBSET Servers, list # {}, list \subseteq known,
         \A j \in 1..MaxSyncs : j # q[1].job => zs[j] = ys[j],
         q[1].job \in 1..MaxSyncs =>
           /\ zs[q[1].job].list = list /\ zs[q[1].job].on = ys[q[1].job].on
           /\ zs[q[1].job].got = ys[q[1].job].got /\ zs[q[1].job].chans = ys[q[1].job].chans
           /\ zs[q[1].job].voice = ys[q[1].job].voice
  PROVE  Kept(Tail(q) \o StatesFor(q[1].job, list), zs, n, known)
<1> DEFINE job == q[1].job  R == Queued(Tail(q))  S == Queued(StatesFor(job, list))
<1>1. InOrder(Tail(q) \o StatesFor(job, list), n, known)
  BY OrderWithStates DEF Kept
<1>2. /\ Queued(q) = R \union {q[1]} /\ q[1] \in Asking /\ Tail(q) \in Seq(Asking)
      /\ 1 \in DOMAIN q /\ job \in Nat
  <2>1. 1 \in DOMAIN q /\ Tail(q) \in Seq(Asking)
    BY TailFacts
  <2>2. job \in 1..n
    BY <2>1 DEF Kept, InOrder
  <2> QED
    BY <2>1, <2>2, QueuedRest
<1>3. /\ Queued(Tail(q) \o StatesFor(job, list)) = R \union S
      /\ \A b \in S : b.kind = "state" /\ b.job = job /\ b.of \in list
      /\ \A s \in list : \E b \in S : b.of = s
  <2> HIDE DEF job
  <2>1. /\ StatesFor(job, list) \in Seq(Asking)
        /\ \A i \in DOMAIN StatesFor(job, list) :
              /\ StatesFor(job, list)[i].kind = "state"
              /\ StatesFor(job, list)[i].job = job /\ StatesFor(job, list)[i].of \in list
        /\ \A s \in list : \E i \in DOMAIN StatesFor(job, list) : StatesFor(job, list)[i].of = s
    BY ONLY <1>2, list \in SUBSET Servers, StatesAsked
  <2>2. Queued(Tail(q) \o StatesFor(job, list)) = R \union S
    BY <1>2, <2>1, QueuedJoined
  <2>3. \A b \in S : \E i \in DOMAIN StatesFor(job, list) : b = StatesFor(job, list)[i]
    BY DEF Queued
  <2>4. \A i \in DOMAIN StatesFor(job, list) : StatesFor(job, list)[i] \in S
    BY DEF Queued
  <2>5. \A b \in S : b.kind = "state" /\ b.job = job /\ b.of \in list
    BY ONLY <2>1, <2>3
  <2>6. \A s \in list : \E b \in S : b.of = s
    BY ONLY <2>1, <2>4
  <2> QED
    BY <2>2, <2>5, <2>6
<1>4. \A b \in R : b.kind \in {"servers", "state"} => b.job # job
  <2> SUFFICES ASSUME NEW b \in R, b.kind \in {"servers", "state"} PROVE b.job # job
    OBVIOUS
  <2>1. PICK i \in DOMAIN Tail(q) : b = Tail(q)[i]
    BY DEF Queued
  <2>2. i + 1 \in DOMAIN q /\ b = q[i + 1] /\ 1 < i + 1
    BY <2>1, TailFacts
  <2>3. b.kind = "servers" => job < b.job
    BY <1>2, <2>2 DEF Kept, InOrder
  <2>4. b.kind = "state" => b.job < job
    BY <1>2, <2>2 DEF Kept, InOrder
  <2>5. b.job \in 1..n
    BY <2>2 DEF Kept, InOrder
  <2> QED
    BY <1>2, <2>3, <2>4, <2>5
<1> HIDE DEF R, S, job
<1>5. ASSUME NEW j \in 1..MaxSyncs
      PROVE  Awaited(R \union S, zs[j], j, known) /\ (zs[j].on => j <= n)
  <2>1. Awaited(R \union {q[1]}, ys[j], j, known) /\ (ys[j].on => j <= n)
    BY <1>2 DEF Kept
  <2>2. CASE j = job
    <3>1. /\ zs[j].list = list /\ zs[j].on = ys[j].on /\ zs[j].got = ys[j].got
          /\ zs[j].chans = ys[j].chans /\ zs[j].voice = ys[j].voice
      BY <2>2 DEF job
    <3>2. CASE ~zs[j].on
      BY <2>1, <3>1, <3>2 DEF Awaited
    <3>3. CASE zs[j].on
      <4>1. AsksServers(R \union {q[1]}, j)
        BY <2>2 DEF AsksServers, job
      <4>2. ys[j].got = {} /\ \A c \in ys[j].chans \union ys[j].voice : Home(c) \in ys[j].got
        BY <2>1, <3>1, <3>3, <4>1 DEF Awaited
      <4>3. \A b \in R : b.kind \in {"servers", "state"} => b.job # j
        BY <1>4, <2>2
      <4>4. /\ \A b \in S : b.kind = "state" /\ b.job = j /\ b.of \in list
            /\ \A s \in list : \E b \in S : b.of = s
        BY <1>3, <2>2
      <4>5. zs[j].got = {} /\ zs[j].chans = {} /\ zs[j].voice = {}
        BY <3>1, <4>2
      <4>6. Awaited(R \union S, zs[j], j, known)
        BY ONLY list # {}, list \subseteq known, <3>1, <4>3, <4>4, <4>5, AwaitedStates, ZenonT(60)
      <4> QED
        BY <2>1, <3>1, <4>6
    <3> QED
      BY <3>2, <3>3
  <2>3. CASE j # job
    <3>1. zs[j] = ys[j] /\ q[1].job # j
      BY <2>3 DEF job
    <3>2. Awaited(R, ys[j], j, known)
      BY <2>1, <3>1, AwaitedRest
    <3>3. \A b \in S : b.kind = "state" /\ b.job # j
      BY <1>3, <2>3
    <3>4. Awaited(R \union S, ys[j], j, known)
      BY <3>2, <3>3, AwaitedOther
    <3> QED
      BY <2>1, <3>1, <3>4
  <2> QED
    BY <2>2, <2>3
<1> QED
  BY <1>1, <1>3, <1>5 DEF Kept, job

(* The channels of one of its servers come.                                *)
LEMMA KeptState ==
  ASSUME NEW q \in Seq(Asking), q # <<>>, NEW ys, NEW zs, NEW n \in Nat, NEW known,
         Kept(q, ys, n, known), q[1].kind = "state", NEW job \in 1..MaxSyncs, job = q[1].job,
         \A j \in 1..MaxSyncs : j # job => zs[j] = ys[j],
         ys[job].on, zs[job].list = ys[job].list, zs[job].got = ys[job].got \union {q[1].of},
         zs[job].got # zs[job].list, zs[job].on,
         \A c \in (zs[job].chans \union zs[job].voice) \ (ys[job].chans \union ys[job].voice) :
            Home(c) = q[1].of
  PROVE  Kept(Tail(q), zs, n, known)
<1> DEFINE R == Queued(Tail(q))
<1>1. InOrder(Tail(q), n, known)
  BY OrderOfRest DEF Kept
<1>2. Queued(q) = R \union {q[1]} /\ 1 \in DOMAIN q
  BY QueuedRest, TailFacts
<1>3. /\ \A b \in R : b.kind = "servers" => b.job # job
      /\ \A b \in R : b.kind = "state" /\ b.job = job => b.of # q[1].of
  <2> SUFFICES ASSUME NEW b \in R
               PROVE  /\ b.kind = "servers" => b.job # job
                      /\ b.kind = "state" /\ b.job = job => b.of # q[1].of
    OBVIOUS
  <2>1. PICK i \in DOMAIN Tail(q) : b = Tail(q)[i]
    BY DEF Queued
  <2>2. i + 1 \in DOMAIN q /\ b = q[i + 1] /\ 1 < i + 1
    BY <2>1, TailFacts
  <2>3. b.kind = "servers" => job < b.job /\ b.job \in 1..n
    BY <1>2, <2>2 DEF Kept, InOrder
  <2>4. b.kind = "state" => (q[1].job = b.job => q[1].of # b.of)
    BY <1>2, <2>2 DEF Kept, InOrder
  <2> QED
    BY <2>3, <2>4
<1> HIDE DEF R
<1>4. ASSUME NEW j \in 1..MaxSyncs
      PROVE  Awaited(R, zs[j], j, known) /\ (zs[j].on => j <= n)
  <2>1. Awaited(R \union {q[1]}, ys[j], j, known) /\ (ys[j].on => j <= n)
    BY <1>2 DEF Kept
  <2>2. CASE j = job
    <3>1. /\ ys[j].on /\ zs[j].list = ys[j].list /\ zs[j].got = ys[j].got \union {q[1].of}
          /\ zs[j].got # zs[j].list /\ q[1].job = j /\ q[1].kind = "state"
          /\ \A c \in (zs[j].chans \union zs[j].voice) \ (ys[j].chans \union ys[j].voice) :
               Home(c) = q[1].of
      BY <2>2
    <3>2. /\ \A b \in R : b.kind = "servers" => b.job # j
          /\ \A b \in R : b.kind = "state" /\ b.job = j => b.of # q[1].of
      BY <1>3, <2>2
    <3>3. Awaited(R, zs[j], j, known)
      BY ONLY <2>1, <3>1, <3>2, AwaitedState, ZenonT(60)
    <3> QED
      BY <2>1, <3>1, <3>3
  <2>3. CASE j # job
    <3>1. zs[j] = ys[j] /\ q[1].job # j
      BY <2>3
    <3> QED
      BY <2>1, <3>1, AwaitedRest
  <2> QED
    BY <2>2, <2>3
<1> QED
  BY <1>1, <1>4 DEF Kept, R

(* Where a list ends when a frame is added, and when the first is taken.   *)
LEMMA EndsWith ==
  ASSUME NEW f \in Seq(Incoming), NEW e \in Incoming, NEW i \in Nat, i <= Len(f), NEW c,
         NEW base \in BOOLEAN
  PROVE  /\ ~Word(e, c) => (EndsIn(Append(f, e), i, c, base) <=> EndsIn(f, i, c, base))
         /\ Word(e, c) => (EndsIn(Append(f, e), i, c, base) <=> (e.kind = "joined"))
<1> DEFINE g == Append(f, e)  n == Len(f) + 1
<1>1. /\ \A k \in DOMAIN f : k \in DOMAIN g /\ g[k] = f[k] /\ k \in Nat /\ k < n
      /\ n \in DOMAIN g /\ g[n] = e /\ n \in Nat /\ n > i
      /\ \A k \in DOMAIN g : k \in DOMAIN f \/ k = n
  BY AppendFacts
<1> HIDE DEF g, n
<1>2. ASSUME ~Word(e, c) PROVE EndsIn(g, i, c, base) <=> EndsIn(f, i, c, base)
  <2>1. (\A k \in DOMAIN f : k > i => ~Word(f[k], c)) <=> (\A k \in DOMAIN g : k > i => ~Word(g[k], c))
    BY <1>1, <1>2
  <2>2. ASSUME NEW k \in DOMAIN f
        PROVE  (\A l \in DOMAIN f : l > k => ~Word(f[l], c)) <=> (\A l \in DOMAIN g : l > k => ~Word(g[l], c))
    BY <1>1, <1>2
  <2>3. ~(e.kind = "joined" /\ e.of = c)
    BY <1>2 DEF Word
  <2>4. (\E k \in DOMAIN f : /\ k > i /\ f[k].kind = "joined" /\ f[k].of = c
                             /\ \A l \in DOMAIN f : l > k => ~Word(f[l], c))
        <=> (\E k \in DOMAIN g : /\ k > i /\ g[k].kind = "joined" /\ g[k].of = c
                                 /\ \A l \in DOMAIN g : l > k => ~Word(g[l], c))
    BY <1>1, <2>2, <2>3
  <2> QED
    BY <2>1, <2>4 DEF EndsIn
<1>3. ASSUME Word(e, c) PROVE EndsIn(g, i, c, base) <=> (e.kind = "joined")
  <2>1. ~\A k \in DOMAIN g : k > i => ~Word(g[k], c)
    BY <1>1, <1>3
  <2>2. \A k \in DOMAIN f : ~\A l \in DOMAIN g : l > k => ~Word(g[l], c)
    BY <1>1, <1>3
  <2>3. \A l \in DOMAIN g : ~(l > n)
    BY <1>1
  <2>4. e.of = c
    BY <1>3 DEF Word
  <2> QED
    BY <1>1, <2>1, <2>2, <2>3, <2>4 DEF EndsIn
<1> QED
  BY <1>2, <1>3 DEF g

LEMMA EndsRest ==
  ASSUME NEW f \in Seq(Incoming), f # <<>>, NEW i \in Nat, NEW c, NEW base \in BOOLEAN
  PROVE  EndsIn(Tail(f), i, c, base) <=> EndsIn(f, i + 1, c, base)
<1> DEFINE g == Tail(f)
<1>1. /\ \A k \in DOMAIN g : k \in Nat /\ k >= 1 /\ k + 1 \in DOMAIN f /\ g[k] = f[k + 1]
      /\ \A k \in DOMAIN f : k \in Nat /\ (k = 1 \/ (k - 1 \in DOMAIN g /\ g[k - 1] = f[k]))
  BY TailFacts
<1> HIDE DEF g
<1>2. ASSUME NEW m \in Nat
      PROVE  (\A k \in DOMAIN g : k > m => ~Word(g[k], c)) <=> (\A k \in DOMAIN f : k > m + 1 => ~Word(f[k], c))
  <2>1. ASSUME \A k \in DOMAIN g : k > m => ~Word(g[k], c), NEW k \in DOMAIN f, k > m + 1
        PROVE  ~Word(f[k], c)
    <3>1. k - 1 \in DOMAIN g /\ k - 1 > m /\ g[k - 1] = f[k]
      BY <1>1, <2>1
    <3>2. ~Word(g[k - 1], c)
      BY <2>1, <3>1
    <3> QED
      BY <3>1, <3>2
  <2>2. ASSUME \A k \in DOMAIN f : k > m + 1 => ~Word(f[k], c), NEW k \in DOMAIN g, k > m
        PROVE  ~Word(g[k], c)
    <3>1. k + 1 \in DOMAIN f /\ k + 1 > m + 1 /\ f[k + 1] = g[k]
      BY <1>1, <2>2
    <3>2. ~Word(f[k + 1], c)
      BY <2>2, <3>1
    <3> QED
      BY <3>1, <3>2
  <2> QED
    BY <2>1, <2>2
<1>3. ASSUME NEW k \in DOMAIN g
      PROVE  (\A l \in DOMAIN g : l > k => ~Word(g[l], c))
             <=> (\A l \in DOMAIN f : l > k + 1 => ~Word(f[l], c))
  <2>1. k \in Nat
    BY <1>1
  <2> QED
    BY <1>2, <2>1
<1>4. (\E k \in DOMAIN g : /\ k > i /\ g[k].kind = "joined" /\ g[k].of = c
                           /\ \A l \in DOMAIN g : l > k => ~Word(g[l], c))
      <=> (\E k \in DOMAIN f : /\ k > i + 1 /\ f[k].kind = "joined" /\ f[k].of = c
                               /\ \A l \in DOMAIN f : l > k => ~Word(f[l], c))
  <2>1. ASSUME NEW k \in DOMAIN g, k > i, g[k].kind = "joined", g[k].of = c,
               \A l \in DOMAIN g : l > k => ~Word(g[l], c)
        PROVE  \E m \in DOMAIN f : /\ m > i + 1 /\ f[m].kind = "joined" /\ f[m].of = c
                                   /\ \A l \in DOMAIN f : l > m => ~Word(f[l], c)
    <3>1. \A l \in DOMAIN f : l > k + 1 => ~Word(f[l], c)
      BY <1>3, <2>1
    <3>2. k + 1 \in DOMAIN f /\ k + 1 > i + 1 /\ f[k + 1] = g[k]
      BY <1>1, <2>1
    <3> QED
      BY <2>1, <3>1, <3>2
  <2>2. ASSUME NEW m \in DOMAIN f, m > i + 1, f[m].kind = "joined", f[m].of = c,
               \A l \in DOMAIN f : l > m => ~Word(f[l], c)
        PROVE  \E k \in DOMAIN g : /\ k > i /\ g[k].kind = "joined" /\ g[k].of = c
                                   /\ \A l \in DOMAIN g : l > k => ~Word(g[l], c)
    <3>1. m - 1 \in DOMAIN g /\ m - 1 > i /\ g[m - 1] = f[m] /\ (m - 1) + 1 = m
      BY <1>1, <2>2
    <3>2. \A l \in DOMAIN g : l > m - 1 => ~Word(g[l], c)
      BY <1>3, <2>2, <3>1
    <3> QED
      BY <2>2, <3>1, <3>2
  <2> QED
    BY <2>1, <2>2
<1>5. EndsIn(g, i, c, base) <=> EndsIn(f, i + 1, c, base)
  BY <1>2, <1>4 DEF EndsIn
<1> QED
  BY <1>5 DEF g

LEMMA EndsFirst ==
  ASSUME NEW f \in Seq(Incoming), f # <<>>, NEW c, NEW base \in BOOLEAN
  PROVE  /\ ~Word(f[1], c) => (EndsIn(f, 0, c, base) <=> EndsIn(f, 1, c, base))
         /\ Word(f[1], c) => (EndsIn(f, 0, c, base) <=> EndsIn(f, 1, c, f[1].kind = "joined"))
<1>1. 1 \in DOMAIN f /\ \A k \in DOMAIN f : k \in Nat /\ k > 0 /\ (k = 1 \/ k > 1)
  BY TailFacts
<1>2. ASSUME ~Word(f[1], c) PROVE EndsIn(f, 0, c, base) <=> EndsIn(f, 1, c, base)
  <2>1. ~(f[1].kind = "joined" /\ f[1].of = c)
    BY <1>2 DEF Word
  <2>2. (\A k \in DOMAIN f : k > 0 => ~Word(f[k], c)) <=> (\A k \in DOMAIN f : k > 1 => ~Word(f[k], c))
    BY <1>1, <1>2
  <2> QED
    BY <1>1, <2>1, <2>2 DEF EndsIn
<1>3. ASSUME Word(f[1], c) PROVE EndsIn(f, 0, c, base) <=> EndsIn(f, 1, c, f[1].kind = "joined")
  <2>1. f[1].of = c
    BY <1>3 DEF Word
  <2>2. ~\A k \in DOMAIN f : k > 0 => ~Word(f[k], c)
    BY <1>1, <1>3
  <2> QED
    BY <1>1, <2>1, <2>2 DEF EndsIn
<1> QED
  BY <1>2, <1>3

LEMMA EndsSilent ==
  ASSUME NEW f, NEW i, NEW c, NEW base \in BOOLEAN, \A k \in DOMAIN f : k > i => ~Word(f[k], c)
  PROVE  EndsIn(f, i, c, base) <=> base
BY DEF EndsIn, Word

(* The answer on its way, as frames are added and taken.                   *)
LEMMA LinkSaid ==
  ASSUME ServerTypeOK, LinkRight, linked, commands # <<>>,
         \A i \in DOMAIN frames : frames[i].kind # "answer",
         NEW f \in Incoming, f.kind = "answer", AnswerRight(f, commands[1], Known', errors'),
         frames' = Append(frames, f), asked' = TRUE, linked' = linked, commands' = commands
  PROVE  LinkRight'
<1>1. frames \in Seq(Incoming)
  BY DEF ServerTypeOK
<1>2. /\ \A i \in DOMAIN frames : frames'[i] = frames[i]
      /\ frames'[Len(frames) + 1] = f
      /\ \A i \in DOMAIN frames' : i \in DOMAIN frames \/ i = Len(frames) + 1
  BY <1>1, AppendFacts
<1>4. \A i \in DOMAIN frames' : frames'[i].kind = "answer" => i = Len(frames) + 1 /\ frames'[i] = f
  BY <1>2
<1> QED
  BY <1>4 DEF LinkRight

LEMMA LinkNews ==
  ASSUME ServerTypeOK, LinkRight, linked, NEW f \in Incoming, f.kind # "answer",
         frames' = Append(frames, f), asked' = asked, linked' = linked, commands' = commands,
         Known' = Known, errors' = errors
  PROVE  LinkRight'
<1>1. frames \in Seq(Incoming)
  BY DEF ServerTypeOK
<1>2. /\ \A i \in DOMAIN frames : frames'[i] = frames[i]
      /\ frames'[Len(frames) + 1] = f
      /\ \A i \in DOMAIN frames' : i \in DOMAIN frames \/ i = Len(frames) + 1
  BY <1>1, AppendFacts
<1>3. \A i \in DOMAIN frames' : frames'[i].kind = "answer" => i \in DOMAIN frames /\ frames'[i] = frames[i]
  BY <1>2
<1> QED
  BY <1>3 DEF LinkRight

LEMMA LinkTaken ==
  ASSUME ServerTypeOK, LinkRight, frames # <<>>, frames[1].kind = "answer",
         frames' = Tail(frames), asked' = FALSE, linked' = linked
  PROVE  LinkRight' /\ linked /\ asked /\ commands # <<>>
         /\ AnswerRight(frames[1], commands[1], Known, errors)
         /\ \A i \in DOMAIN frames' : frames'[i].kind # "answer"
<1>1. frames \in Seq(Incoming)
  BY DEF ServerTypeOK
<1>2. 1 \in DOMAIN frames /\ \A i \in DOMAIN frames' : i \in Nat /\ i >= 1 /\ i + 1 \in DOMAIN frames
                                                       /\ frames'[i] = frames[i + 1]
  BY <1>1, TailFacts
<1>3. ASSUME NEW i \in DOMAIN frames' PROVE frames'[i].kind # "answer"
  <2>1. i + 1 \in DOMAIN frames /\ frames'[i] = frames[i + 1] /\ i + 1 # 1
    BY <1>2
  <2> QED
    BY <1>2, <2>1 DEF LinkRight
<1>4. linked /\ asked /\ commands # <<>> /\ AnswerRight(frames[1], commands[1], Known, errors)
  BY <1>2 DEF LinkRight
<1> QED
  BY <1>3, <1>4 DEF LinkRight

LEMMA LinkEvent ==
  ASSUME ServerTypeOK, LinkRight, frames # <<>>, frames' = Tail(frames),
         asked' = asked, linked' = linked, commands' = commands, Known' = Known, errors' = errors
  PROVE  LinkRight' /\ linked
<1>1. frames \in Seq(Incoming)
  BY DEF ServerTypeOK
<1>2. \A i \in DOMAIN frames' : i \in Nat /\ i + 1 \in DOMAIN frames /\ frames'[i] = frames[i + 1]
  BY <1>1, TailFacts
<1>3. ASSUME NEW i \in DOMAIN frames', NEW k \in DOMAIN frames',
             frames'[i].kind = "answer", frames'[k].kind = "answer"
      PROVE  i = k
  <2>1. i + 1 = k + 1
    BY <1>2, <1>3 DEF LinkRight
  <2> QED
    BY <1>2, <2>1
<1>4. linked
  BY DEF LinkRight
<1>5. ASSUME NEW i \in DOMAIN frames', frames'[i].kind = "answer"
      PROVE  asked /\ AnswerRight(frames'[i], commands[1], Known, errors)
  BY <1>2, <1>5 DEF LinkRight
<1>6. ASSUME NEW i \in DOMAIN frames', frames'[i].kind = "answer"
      PROVE  asked' /\ AnswerRight(frames'[i], commands'[1], Known', errors')
  BY <1>5, <1>6
<1>7. asked' => commands' # <<>>
  BY DEF LinkRight
<1> QED
  BY <1>3, <1>4, <1>6, <1>7 DEF LinkRight

LEMMA LinkAsked ==
  ASSUME LinkRight, linked, commands' # <<>>, commands # <<>> => commands'[1] = commands[1],
         frames' = frames, asked' = asked, linked' = linked, Known' = Known, errors' = errors
  PROVE  LinkRight'
<1>1. ASSUME NEW i \in DOMAIN frames, frames[i].kind = "answer"
      PROVE  asked /\ AnswerRight(frames[i], commands[1], Known, errors) /\ commands'[1] = commands[1]
  BY <1>1 DEF LinkRight
<1>2. ASSUME NEW i \in DOMAIN frames', frames'[i].kind = "answer"
      PROVE  asked' /\ AnswerRight(frames'[i], commands'[1], Known', errors')
  BY <1>1, <1>2
<1> QED
  BY <1>2 DEF LinkRight

(* The first command stays first when others are added.                    *)
LEMMA FirstStays ==
  ASSUME NEW q \in Seq(Asking), NEW a \in Asking
  PROVE  /\ Append(q, a) \in Seq(Asking) /\ Append(q, a) # <<>>
         /\ q # <<>> => Append(q, a)[1] = q[1]
<1>1. q # <<>> => 1 \in DOMAIN q
  BY TailFacts
<1> QED
  BY <1>1, AppendFacts

(* The conversations are still asked for first.                            *)
LEMMA TalkWith ==
  ASSUME NEW q \in Seq(Asking), NEW a \in Asking, AsksDMsFirst(q)
  PROVE  AsksDMsFirst(Append(q, a))
<1>1. PICK d \in DOMAIN q : q[d].kind = "dms" /\ \A i \in DOMAIN q : q[i].kind = "state" => d < i
  BY DEF AsksDMsFirst
<1>2. /\ \A i \in DOMAIN q : i \in DOMAIN Append(q, a) /\ Append(q, a)[i] = q[i] /\ i < Len(q) + 1
      /\ \A i \in DOMAIN Append(q, a) : i \in DOMAIN q \/ i = Len(q) + 1
  BY AppendFacts
<1> QED
  BY <1>1, <1>2 DEF AsksDMsFirst

LEMMA TalkRest ==
  ASSUME NEW q \in Seq(Asking), q # <<>>, q[1].kind # "dms", AsksDMsFirst(q)
  PROVE  AsksDMsFirst(Tail(q)) /\ q[1].kind # "state"
<1>1. PICK d \in DOMAIN q : q[d].kind = "dms" /\ \A i \in DOMAIN q : q[i].kind = "state" => d < i
  BY DEF AsksDMsFirst
<1>2. /\ \A i \in DOMAIN Tail(q) : i \in Nat /\ i + 1 \in DOMAIN q /\ Tail(q)[i] = q[i + 1]
      /\ \A i \in DOMAIN q : i \in Nat /\ i > 0
           /\ (i = 1 \/ (i - 1 \in DOMAIN Tail(q) /\ Tail(q)[i - 1] = q[i]))
      /\ 1 \in DOMAIN q
  BY TailFacts
<1>3. d - 1 \in DOMAIN Tail(q) /\ Tail(q)[d - 1].kind = "dms" /\ d \in Nat
  BY <1>1, <1>2
<1>4. \A i \in DOMAIN Tail(q) : Tail(q)[i].kind = "state" => d - 1 < i
  BY <1>1, <1>2, <1>3
<1>5. q[1].kind # "state"
  BY <1>1, <1>2
<1> QED
  BY <1>3, <1>4, <1>5 DEF AsksDMsFirst

LEMMA TalkJoined ==
  ASSUME NEW q \in Seq(Asking), NEW t \in Seq(Asking), AsksDMsFirst(q)
  PROVE  AsksDMsFirst(q \o t)
<1>1. PICK d \in DOMAIN q : q[d].kind = "dms" /\ \A i \in DOMAIN q : q[i].kind = "state" => d < i
  BY DEF AsksDMsFirst
<1>2. /\ \A i \in DOMAIN q : i \in Nat /\ i <= Len(q) /\ i \in DOMAIN (q \o t) /\ (q \o t)[i] = q[i]
      /\ \A i \in DOMAIN t : i \in Nat /\ i >= 1
      /\ \A i \in DOMAIN (q \o t) : i \in DOMAIN q \/ (i - Len(q) \in DOMAIN t /\ i \in Nat)
      /\ Len(q) \in Nat
  BY JoinedFacts
<1>3. \A i \in DOMAIN (q \o t) : i \in DOMAIN q \/ d < i
  BY <1>1, <1>2
<1> QED
  BY <1>1, <1>2, <1>3 DEF AsksDMsFirst

(* At most one server is being made.                                       *)
MakesIn(q) == \E i \in DOMAIN q : Makes(q[i])
LEMMA MakesRest ==
  ASSUME NEW q \in Seq(Asking), q # <<>>, MakesRight(q)
  PROVE  /\ MakesRight(Tail(q)) /\ (Makes(q[1]) => ~MakesIn(Tail(q)))
         /\ MakesIn(Tail(q)) => \E i \in DOMAIN q : Makes(q[i]) /\ i # 1
<1> DEFINE r == Tail(q)
<1>1. /\ \A i \in DOMAIN r : i \in Nat /\ i >= 1 /\ i + 1 \in DOMAIN q /\ r[i] = q[i + 1] /\ i + 1 # 1
      /\ 1 \in DOMAIN q
  BY TailFacts
<1> HIDE DEF r
<1>2. ASSUME NEW i \in DOMAIN r, NEW k \in DOMAIN r, Makes(r[i]), Makes(r[k]) PROVE i = k
  <2>1. i + 1 = k + 1
    BY <1>1, <1>2 DEF MakesRight
  <2> QED
    BY <1>1, <2>1
<1>3. \A i \in DOMAIN r : Fits(r[i])
  BY <1>1 DEF MakesRight
<1>4. ASSUME Makes(q[1]), NEW i \in DOMAIN r, Makes(r[i]) PROVE FALSE
  BY <1>1, <1>4 DEF MakesRight
<1>5. MakesIn(r) => \E i \in DOMAIN q : Makes(q[i]) /\ i # 1
  BY <1>1 DEF MakesIn
<1>6. MakesRight(r) /\ (Makes(q[1]) => ~MakesIn(r))
  BY <1>2, <1>3, <1>4 DEF MakesRight, MakesIn
<1> QED
  BY <1>5, <1>6 DEF r

LEMMA MakesWith ==
  ASSUME NEW q \in Seq(Asking), NEW a \in Asking, MakesRight(q), Fits(a),
         Makes(a) => ~MakesIn(q)
  PROVE  /\ MakesRight(Append(q, a))
         /\ MakesIn(Append(q, a)) => MakesIn(q) \/ Makes(a)
         /\ \A i \in DOMAIN Append(q, a) : i \in DOMAIN q \/ Append(q, a)[i] = a
         /\ \A i \in DOMAIN q : Append(q, a)[i] = q[i]
<1> DEFINE r == Append(q, a)
<1>1. /\ \A i \in DOMAIN q : i \in DOMAIN r /\ r[i] = q[i]
      /\ r[Len(q) + 1] = a
      /\ \A i \in DOMAIN r : i \in DOMAIN q \/ i = Len(q) + 1
  BY AppendFacts
<1> HIDE DEF r
<1>2. \A i, k \in DOMAIN r : Makes(r[i]) /\ Makes(r[k]) => i = k
  BY <1>1 DEF MakesRight, MakesIn
<1>3. \A i \in DOMAIN r : Fits(r[i])
  BY <1>1 DEF MakesRight
<1>4. MakesIn(r) => MakesIn(q) \/ Makes(a)
  BY <1>1 DEF MakesIn
<1>5. MakesRight(r)
  BY <1>2, <1>3 DEF MakesRight
<1> QED
  BY <1>1, <1>4, <1>5 DEF r

LEMMA MakesJoined ==
  ASSUME NEW q \in Seq(Asking), NEW t \in Seq(Asking), MakesRight(q),
         \A i \in DOMAIN t : t[i].kind = "state"
  PROVE  MakesRight(q \o t) /\ (MakesIn(q \o t) => MakesIn(q))
<1> DEFINE r == q \o t
<1>1. /\ \A i \in DOMAIN q : i \in DOMAIN r /\ r[i] = q[i]
      /\ \A i \in DOMAIN r : i \in DOMAIN q \/ (i - Len(q) \in DOMAIN t /\ r[i] = t[i - Len(q)])
  BY JoinedFacts
<1> HIDE DEF r
<1>2. \A i \in DOMAIN r : (i \in DOMAIN q /\ r[i] = q[i]) \/ r[i].kind = "state"
  BY <1>1
<1>3. \A i \in DOMAIN r : Makes(r[i]) => i \in DOMAIN q /\ r[i] = q[i]
  BY <1>2 DEF Makes
<1>6. \A i \in DOMAIN r : r[i].kind = "state" => Fits(r[i])
  BY DEF Fits
<1>4. MakesRight(r)
  BY <1>2, <1>3, <1>6 DEF MakesRight
<1>5. MakesIn(r) => MakesIn(q)
  BY <1>3 DEF MakesIn
<1> QED
  BY <1>4, <1>5 DEF r

(* A sync that begins.                                                     *)
Follows(z, y) ==
    z.on /\ ~z.late /\ z.got # {} =>
        y.on /\ ~y.late /\ y.got = z.got /\ Snapshot(y) = Snapshot(z)
Begun(queue) ==
    /\ started' \in 1..MaxSyncs /\ syncs' \in [1..MaxSyncs -> Sync]
    /\ Kept(commands', syncs', started', Known)
    /\ \A j \in 1..MaxSyncs : Follows(syncs'[j], syncs[j])
    /\ \A j \in 1..MaxSyncs : syncs'[j].on => syncs'[j].voice = {} \/ (syncs[j].on /\ syncs'[j] = syncs[j])
    /\ \E a \in Asking : a.kind = "servers" /\ commands' = Append(queue, a)
    /\ spoilt' \in BOOLEAN /\ started \in Nat /\ started' = started + 1

LEMMA SyncBegins ==
  ASSUME ServerTypeOK, SyncsRight, ChoiceRight, NEW queue \in Seq(Asking),
         Kept(queue, syncs, started, Known), NEW p \in Nat, StartSync(p, queue),
         p = 0 => selectedServer' = selectedServer
  PROVE  Begun(queue) /\ ChoiceRight'
<1> DEFINE n == started + 1  a == Ask("servers", n, 0)
           y == [NoSync EXCEPT !.on = TRUE, !.prefers = p]
<1>1. /\ n \in 1..MaxSyncs /\ started' = n /\ started \in Nat /\ n \in Nat
      /\ commands' = Append(queue, a) /\ syncs' = [syncs EXCEPT ![n] = y]
      /\ syncs \in [1..MaxSyncs -> Sync]
  BY ServerAssumption DEF ServerTypeOK, StartSync
<1>2. NoSync \in Sync /\ NoSync.got = {} /\ NoSync.chans = {} /\ NoSync.voice = {}
  BY DEF NoSync, Sync
<1>3. y \in Sync /\ y.got = {} /\ y.chans = {} /\ y.voice = {} /\ y.prefers = p /\ y.on
  BY <1>2 DEF Sync
<1>4. a \in Asking /\ a.kind = "servers" /\ a.job = n
  BY <1>1 DEF Ask, Asking
<1> HIDE DEF y, a
<1>5. /\ syncs'[n] = y /\ \A j \in 1..MaxSyncs : j # n => syncs'[j] = syncs[j]
      /\ syncs' \in [1..MaxSyncs -> Sync]
  BY <1>1, <1>3
<1>6. Kept(commands', syncs', n, Known)
  <2>1. /\ \A j \in 1..MaxSyncs : j # started + 1 => syncs'[j] = syncs[j]
        /\ started + 1 \in 1..MaxSyncs =>
             syncs'[started + 1].got = {} /\ syncs'[started + 1].chans = {} /\ syncs'[started + 1].voice = {}
    BY <1>3, <1>5
  <2>2. Kept(Append(queue, a), syncs', started + 1, Known)
    BY <1>1, <1>4, <2>1, KeptSync
  <2> QED
    BY <1>1, <2>2
<1>7. \A j \in 1..MaxSyncs : Follows(syncs'[j], syncs[j])
  BY <1>3, <1>5 DEF Follows
<1>8. Begun(queue)
  <2>1. \A j \in 1..MaxSyncs : syncs'[j].on => syncs'[j].voice = {} \/ (syncs[j].on /\ syncs'[j] = syncs[j])
    BY <1>3, <1>5
  <2>2. spoilt' \in BOOLEAN
    BY DEF StartSync
  <2> QED
    BY <1>1, <1>4, <1>5, <1>6, <1>7, <2>1, <2>2 DEF Begun
<1>9. \A j \in 1..MaxSyncs : syncs[j].on => j <= started
  BY DEF SyncsRight, Kept
<1>10. \A j \in 1..MaxSyncs : j > n => ~Wants(syncs'[j])
  BY <1>1, <1>5, <1>9 DEF Wants
<1>11. CASE p # 0
  <2>1. Wants(syncs'[n]) /\ syncs'[n].prefers = choice'
    BY <1>3, <1>5, <1>11 DEF Wants, StartSync
  <2> QED
    BY <1>1, <1>8, <1>10, <2>1 DEF ChoiceRight
<1>12. CASE p = 0
  <2>1. \A j \in 1..MaxSyncs : Wants(syncs'[j]) <=> Wants(syncs[j])
    BY <1>1, <1>3, <1>5, <1>9, <1>12 DEF Wants
  <2>2. \A j \in 1..MaxSyncs : Wants(syncs[j]) => syncs'[j].prefers = syncs[j].prefers
    BY <1>1, <1>5, <1>9 DEF Wants
  <2>3. choice' = choice /\ (~spoilt' => ~spoilt) /\ selectedServer' = selectedServer
    BY <1>12 DEF StartSync
  <2> QED
    BY <1>8, <2>1, <2>2, <2>3 DEF ChoiceRight
<1> QED
  BY <1>11, <1>12

(* What the hub holds still answers the first command.                     *)
LEMMA HubStays ==
  ASSUME HubRight, held' \subseteq held, linked' = linked, asked' = asked,
         held # {} => commands' # <<>> /\ commands'[1] = commands[1],
         held # {} => \A i \in DOMAIN frames' : frames'[i].kind # "answer"
  PROVE  HubRight'
BY DEF HubRight

LEMMA HubTold ==
  ASSUME HubRight, frames \in Seq(Incoming), NEW f \in Incoming, f.kind # "answer",
         frames' = Append(frames, f), UNCHANGED <<held, linked, asked, commands>>
  PROVE  HubRight'
<1>1. held # {} => \A i \in DOMAIN frames' : frames'[i].kind # "answer"
  BY AppendFacts DEF HubRight
<1> QED
  BY <1>1, HubStays DEF HubRight

LEMMA HubHeard ==
  ASSUME HubRight, frames \in Seq(Incoming), frames # <<>>, frames' = Tail(frames),
         UNCHANGED <<held, linked, asked, commands>>
  PROVE  HubRight'
<1>1. held # {} => \A i \in DOMAIN frames' : frames'[i].kind # "answer"
  BY TailFacts DEF HubRight
<1> QED
  BY <1>1, HubStays DEF HubRight

(* While an answer is on its way the hub holds none.                       *)
LEMMA NothingHeld ==
  ASSUME HubRight, frames \in Seq(Incoming), frames # <<>>, frames[1].kind = "answer"
  PROVE  held = {}
BY TailFacts DEF HubRight

(* What the lists say still holds when frames come and go that say nothing *)
(* of the channel.                                                         *)
LEMMA VoiceSame ==
  ASSUME LinkRight, HubRight, NEW s, VoiceRight(s), members' = members, channels' = channels,
         UNCHANGED callVars, linked' = linked, lateVoice' = lateVoice, servers' = servers,
         shown' = shown, frames' = frames,
         commands # <<>> => commands'[1] = commands[1],
         \A j \in 1..MaxSyncs : Follows(syncs'[j], syncs[j])
  PROVE  VoiceRight(s)'
<1> SUFFICES ASSUME s \in members, Voice(s) \in channels \ departing
             PROVE  ShownRight(s)' /\ SyncedRight(s)' /\ AnsweredRight(s)' /\ HeldRight(s)'
  BY DEF VoiceRight
<1> USE DEF callVars
<1>1. ShownRight(s) /\ SyncedRight(s) /\ AnsweredRight(s) /\ HeldRight(s)
  BY DEF VoiceRight
<1>2. ShownRight(s)'
  BY <1>1 DEF ShownRight
<1>3. SyncedRight(s)'
  <2> SUFFICES ASSUME NEW j \in 1..MaxSyncs, syncs'[j].on /\ ~syncs'[j].late /\ j > stale' /\ s \in syncs'[j].got
               PROVE  EndsIn(frames, 0, Voice(s), Voice(s) \in Snapshot(syncs'[j])) <=> caller = Voice(s)
    BY DEF SyncedRight
  <2>1. /\ syncs[j].on /\ ~syncs[j].late /\ s \in syncs[j].got
        /\ Snapshot(syncs[j]) = Snapshot(syncs'[j])
    BY DEF Follows
  <2> QED
    BY <1>1, <2>1 DEF SyncedRight
<1>4. \A i \in DOMAIN frames : frames[i].kind = "answer" => commands'[1] = commands[1]
  BY DEF LinkRight
<1>5. AnsweredRight(s)'
  BY <1>1, <1>4 DEF AnsweredRight, StateOf
<1>6. HeldRight(s)'
  BY <1>1 DEF HeldRight, HubRight
<1> QED
  BY <1>2, <1>3, <1>5, <1>6

LEMMA EndsSame ==
  ASSUME ServerTypeOK, frames # <<>>, frames' = Tail(frames), NEW c, ~Word(frames[1], c),
         NEW base \in BOOLEAN
  PROVE  EndsIn(frames', 0, c, base) <=> EndsIn(frames, 0, c, base)
<1>1. frames \in Seq(Incoming)
  BY DEF ServerTypeOK
<1>2. EndsIn(Tail(frames), 0, c, base) <=> EndsIn(frames, 0 + 1, c, base)
  BY <1>1, EndsRest
<1>3. EndsIn(frames, 0, c, base) <=> EndsIn(frames, 1, c, base)
  BY <1>1, EndsFirst
<1>4. 0 + 1 = 1
  OBVIOUS
<1> QED
  BY <1>2, <1>3, <1>4

LEMMA ShownRest ==
  ASSUME ServerTypeOK, NEW s, ShownRight(s), caller' = caller, linked' = linked,
         lateVoice' = lateVoice, servers' = servers, Voice(s) \in shown' <=> Voice(s) \in shown,
         frames # <<>>, frames' = Tail(frames), ~Word(frames[1], Voice(s))
  PROVE  ShownRight(s)'
<1>1. (Voice(s) \in shown) \in BOOLEAN /\ (Voice(s) \in shown') = (Voice(s) \in shown)
  OBVIOUS
<1>2. EndsIn(frames', 0, Voice(s), Voice(s) \in shown') <=> EndsIn(frames, 0, Voice(s), Voice(s) \in shown)
  BY <1>1, EndsSame
<1> QED
  BY <1>2 DEF ShownRight

LEMMA SyncedRest ==
  ASSUME ServerTypeOK, NEW s, SyncedRight(s), caller' = caller, stale' = stale,
         frames # <<>>, frames' = Tail(frames), ~Word(frames[1], Voice(s)),
         NEW j \in 1..MaxSyncs, Follows(syncs'[j], syncs[j]),
         syncs'[j].on /\ ~syncs'[j].late /\ j > stale' /\ s \in syncs'[j].got
  PROVE  EndsIn(frames', 0, Voice(s), Voice(s) \in Snapshot(syncs'[j])) <=> caller' = Voice(s)
<1>1. /\ syncs[j].on /\ ~syncs[j].late /\ s \in syncs[j].got
      /\ Snapshot(syncs[j]) = Snapshot(syncs'[j])
  BY DEF Follows
<1>2. EndsIn(frames, 0, Voice(s), Voice(s) \in Snapshot(syncs[j])) <=> caller = Voice(s)
  BY <1>1 DEF SyncedRight
<1>3. (Voice(s) \in Snapshot(syncs[j])) \in BOOLEAN
  OBVIOUS
<1>4. EndsIn(frames', 0, Voice(s), Voice(s) \in Snapshot(syncs[j])) <=> caller = Voice(s)
  BY <1>2, <1>3, EndsSame
<1> QED
  BY <1>1, <1>4

LEMMA VoiceRest ==
  ASSUME ServerTypeOK, NEW s, VoiceRight(s), members' = members, channels' = channels,
         UNCHANGED callVars, linked' = linked, lateVoice' = lateVoice, servers' = servers,
         Voice(s) \in shown' <=> Voice(s) \in shown,
         frames # <<>>, frames' = Tail(frames), ~Word(frames[1], Voice(s)),
         commands' = commands \/ (held = {} /\ \A i \in DOMAIN frames' : frames'[i].kind # "answer"),
         \A j \in 1..MaxSyncs : Follows(syncs'[j], syncs[j])
  PROVE  VoiceRight(s)'
<1> USE DEF callVars
<1> SUFFICES ASSUME s \in members, Voice(s) \in channels \ departing
             PROVE  ShownRight(s)' /\ SyncedRight(s)' /\ AnsweredRight(s)' /\ HeldRight(s)'
  BY DEF VoiceRight
<1>1. ShownRight(s) /\ SyncedRight(s) /\ AnsweredRight(s) /\ HeldRight(s)
  BY DEF VoiceRight
<1>2. frames \in Seq(Incoming)
  BY DEF ServerTypeOK
<1>4. ShownRight(s)'
  BY <1>1, ShownRest
<1>5. SyncedRight(s)'
  <2> SUFFICES ASSUME NEW j \in 1..MaxSyncs, syncs'[j].on /\ ~syncs'[j].late /\ j > stale' /\ s \in syncs'[j].got
               PROVE  EndsIn(frames', 0, Voice(s), Voice(s) \in Snapshot(syncs'[j])) <=> caller' = Voice(s)
    BY DEF SyncedRight
  <2> QED
    BY <1>1, SyncedRest
<1>6. AnsweredRight(s)'
  <2> SUFFICES ASSUME NEW i \in DOMAIN frames', StateOf(i, s)', commands'[1].job > stale
               PROVE  EndsIn(frames', i, Voice(s), Voice(s) \in Snapshot(frames'[i])) <=> caller = Voice(s)
    BY DEF AnsweredRight
  <2>1. i \in Nat /\ i + 1 \in DOMAIN frames /\ frames'[i] = frames[i + 1]
    BY <1>2, TailFacts
  <2>2. commands' = commands /\ StateOf(i + 1, s)
    BY <2>1 DEF StateOf
  <2>3. EndsIn(frames, i + 1, Voice(s), Voice(s) \in Snapshot(frames[i + 1])) <=> caller = Voice(s)
    BY <1>1, <2>1, <2>2 DEF AnsweredRight
  <2>4. (Voice(s) \in Snapshot(frames[i + 1])) \in BOOLEAN
    OBVIOUS
  <2>5. EndsIn(Tail(frames), i, Voice(s), Voice(s) \in Snapshot(frames[i + 1]))
          <=> EndsIn(frames, i + 1, Voice(s), Voice(s) \in Snapshot(frames[i + 1]))
    BY <1>2, <2>1, <2>4, EndsRest
  <2> QED
    BY <2>1, <2>3, <2>5
<1>7. HeldRight(s)'
  BY <1>1 DEF HeldRight
<1> QED
  BY <1>4, <1>5, <1>6, <1>7

LEMMA VoiceWith ==
  ASSUME ServerTypeOK, LinkRight, HubRight, NEW s, VoiceRight(s), s \in members' => s \in members,
         Voice(s) \in channels' \ departing' => Voice(s) \in channels \ departing,
         caller' = Voice(s) <=> caller = Voice(s),
         held' \subseteq held, stale' \in Nat, stale' >= stale,
         linked' = linked, lateVoice => lateVoice', servers' = servers,
         shown' = shown, commands' = commands, syncs' = syncs,
         NEW e \in Incoming, frames' = Append(frames, e), ~Word(e, Voice(s)),
         NEW n, n = Len(frames) + 1,
         VoiceRight(s) /\ s \in members' /\ Voice(s) \in channels' \ departing'
            /\ StateOf(n, s)' /\ commands[1].job > stale' =>
               (Voice(s) \in Snapshot(e) <=> caller = Voice(s))
  PROVE  VoiceRight(s)'
<1> SUFFICES ASSUME s \in members, Voice(s) \in channels \ departing,
                    s \in members', Voice(s) \in channels' \ departing'
             PROVE  ShownRight(s)' /\ SyncedRight(s)' /\ AnsweredRight(s)' /\ HeldRight(s)'
  BY DEF VoiceRight
<1>1. ShownRight(s) /\ SyncedRight(s) /\ AnsweredRight(s) /\ HeldRight(s)
  BY DEF VoiceRight
<1>2. frames \in Seq(Incoming) /\ Len(frames) \in Nat /\ 0 \in Nat /\ 0 <= Len(frames)
  BY DEF ServerTypeOK
<1>3. ASSUME NEW i \in Nat, i <= Len(frames), NEW base \in BOOLEAN
      PROVE  EndsIn(frames', i, Voice(s), base) <=> EndsIn(frames, i, Voice(s), base)
  BY <1>2, <1>3, EndsWith
<1>4. ShownRight(s)'
  <2>1. (Voice(s) \in shown) \in BOOLEAN
    OBVIOUS
  <2>2. EndsIn(frames', 0, Voice(s), Voice(s) \in shown) <=> EndsIn(frames, 0, Voice(s), Voice(s) \in shown)
    BY <1>2, <1>3, <2>1
  <2>3. ~lateVoice' => ~lateVoice
    OBVIOUS
  <2> QED
    BY <1>1, <2>2, <2>3 DEF ShownRight
<1>7. commands # <<>> => (commands[1].job > stale' => commands[1].job > stale)
  <2> SUFFICES ASSUME commands # <<>> PROVE commands[1].job > stale' => commands[1].job > stale
    OBVIOUS
  <2>1. commands[1].job \in Nat /\ stale \in Nat
    <3>1. commands[1] \in Asking
      BY TailFacts DEF ServerTypeOK
    <3> QED
      BY <3>1 DEF Asking, ServerTypeOK
  <2> QED
    BY <2>1
<1>5. SyncedRight(s)'
  <2> SUFFICES ASSUME NEW j \in 1..MaxSyncs, syncs[j].on /\ ~syncs[j].late /\ j > stale' /\ s \in syncs[j].got
               PROVE  EndsIn(frames', 0, Voice(s), Voice(s) \in Snapshot(syncs[j])) <=> caller' = Voice(s)
    BY DEF SyncedRight
  <2>3. j > stale
    BY ServerAssumption DEF ServerTypeOK
  <2>1. EndsIn(frames, 0, Voice(s), Voice(s) \in Snapshot(syncs[j])) <=> caller = Voice(s)
    BY <1>1, <2>3 DEF SyncedRight
  <2>2. (Voice(s) \in Snapshot(syncs[j])) \in BOOLEAN
    OBVIOUS
  <2> QED
    BY <1>2, <1>3, <2>1, <2>2
<1>6. AnsweredRight(s)'
  <2> SUFFICES ASSUME NEW i \in DOMAIN frames', StateOf(i, s)', commands[1].job > stale'
               PROVE  EndsIn(frames', i, Voice(s), Voice(s) \in Snapshot(frames'[i])) <=> caller' = Voice(s)
    BY DEF AnsweredRight
  <2>1. /\ i \in DOMAIN frames \/ i = Len(frames) + 1
        /\ i \in DOMAIN frames => frames'[i] = frames[i] /\ i \in Nat /\ i < Len(frames) + 1
        /\ frames'[Len(frames) + 1] = e
        /\ \A k \in DOMAIN frames' : k \in Nat /\ (k \in DOMAIN frames \/ k = Len(frames) + 1)
        /\ \A k \in DOMAIN frames : k \in Nat /\ k < Len(frames) + 1
    BY <1>2, AppendFacts
  <2>2. CASE i \in DOMAIN frames
    <3>1. frames'[i] = frames[i] /\ i \in Nat /\ i <= Len(frames) /\ StateOf(i, s)
      BY <1>2, <2>1, <2>2 DEF StateOf
    <3>5. commands # <<>>
      BY <2>2, <3>1 DEF StateOf, LinkRight
    <3>2. EndsIn(frames, i, Voice(s), Voice(s) \in Snapshot(frames[i])) <=> caller = Voice(s)
      BY <1>1, <1>7, <2>2, <3>1, <3>5 DEF AnsweredRight
    <3>3. (Voice(s) \in Snapshot(frames[i])) \in BOOLEAN
      OBVIOUS
    <3>4. EndsIn(frames', i, Voice(s), Voice(s) \in Snapshot(frames[i]))
            <=> EndsIn(frames, i, Voice(s), Voice(s) \in Snapshot(frames[i]))
      BY <1>3, <3>1, <3>3
    <3> QED
      BY <3>1, <3>2, <3>4
  <2>3. CASE i = Len(frames) + 1
    <3>1. \A k \in DOMAIN frames' : ~(k > i)
      BY <1>2, <2>1, <2>3
    <3>4. i = n /\ frames'[i] = e
      BY <2>1, <2>3
    <3>5. Voice(s) \in Snapshot(e) <=> caller = Voice(s)
      BY <3>4
    <3>2. (Voice(s) \in Snapshot(e)) \in BOOLEAN
      OBVIOUS
    <3>3. EndsIn(frames', i, Voice(s), Voice(s) \in Snapshot(e)) <=> Voice(s) \in Snapshot(e)
      BY <3>1, <3>2, EndsSilent
    <3> QED
      BY <3>3, <3>4, <3>5
  <2> QED
    BY <2>1, <2>2, <2>3
<1>8. HeldRight(s)'
  <2> SUFFICES ASSUME NEW h \in held', commands[1].of = s, commands[1].job > stale'
               PROVE  Voice(s) \in Snapshot(h) <=> caller' = Voice(s)
    BY DEF HeldRight
  <2>1. h \in held /\ commands # <<>>
    BY DEF HubRight
  <2> QED
    BY <1>1, <1>7, <2>1 DEF HeldRight
<1> QED
  BY <1>4, <1>5, <1>6, <1>8

(* The word of a channel that is added is what every list ends with.       *)
LEMMA WordIsLast ==
  ASSUME frames \in Seq(Incoming), NEW s, HeldRight(s)', NEW e \in Incoming,
         frames' = Append(frames, e),
         Word(e, Voice(s)), e.kind = "joined" <=> caller' = Voice(s),
         NEW n, n = Len(frames) + 1, ~StateOf(n, s)'
  PROVE  VoiceRight(s)'
<1>1. Len(frames) \in Nat /\ 0 \in Nat /\ 0 <= Len(frames)
  OBVIOUS
<1>2. \A i \in Nat : \A base \in BOOLEAN : i <= Len(frames) =>
            (EndsIn(frames', i, Voice(s), base) <=> caller' = Voice(s))
  BY EndsWith
<1>3. \A base \in BOOLEAN : EndsIn(frames', 0, Voice(s), base) <=> caller' = Voice(s)
  BY <1>1, <1>2
<1>4. \A X : (Voice(s) \in X) \in BOOLEAN
  OBVIOUS
<1>5. ShownRight(s)'
  <2>1. EndsIn(frames', 0, Voice(s), Voice(s) \in shown') <=> caller' = Voice(s)
    BY <1>3, <1>4
  <2> QED
    BY <2>1 DEF ShownRight
<1>6. SyncedRight(s)'
  <2>1. \A j \in 1..MaxSyncs :
              EndsIn(frames', 0, Voice(s), Voice(s) \in Snapshot(syncs'[j])) <=> caller' = Voice(s)
    BY <1>3, <1>4
  <2> QED
    BY <2>1 DEF SyncedRight
<1>7. AnsweredRight(s)'
  <2> SUFFICES ASSUME NEW i \in DOMAIN frames', StateOf(i, s)'
               PROVE  EndsIn(frames', i, Voice(s), Voice(s) \in Snapshot(frames'[i])) <=> caller' = Voice(s)
    BY DEF AnsweredRight
  <2>1. /\ i \in Nat /\ (i \in DOMAIN frames \/ i = n)
        /\ i \in DOMAIN frames => i < Len(frames) + 1
    BY AppendFacts
  <2>2. i # n
    OBVIOUS
  <2>3. i \in Nat /\ i <= Len(frames)
    BY <1>1, <2>1, <2>2
  <2> QED
    BY <1>2, <1>4, <2>3
<1> QED
  BY <1>5, <1>6, <1>7 DEF VoiceRight

(* What nobody has heard of stays so.                                      *)
LEMMA UntouchedStay ==
  ASSUME LinkRight, Untouched, channels' = channels, shown' = shown, UNCHANGED callVars,
         frames' = frames, commands # <<>> => commands'[1] = commands[1],
         \A j \in 1..MaxSyncs : syncs'[j].on => Voice(2) \notin syncs'[j].voice
  PROVE  Untouched'
<1>1. \A i \in DOMAIN frames : frames[i].kind = "answer" => commands'[1] = commands[1]
  BY DEF LinkRight
<1>2. \A i \in DOMAIN frames' : StateOf(i, 2)' => Voice(2) \notin frames'[i].voice
  BY <1>1 DEF Untouched, StateOf
<1> QED
  BY <1>2 DEF Untouched, callVars

LEMMA UntouchedRest ==
  ASSUME ServerTypeOK, Untouched, channels' = channels, UNCHANGED callVars, Voice(2) \notin shown',
         frames # <<>>, frames' = Tail(frames),
         commands' = commands \/ \A i \in DOMAIN frames' : frames'[i].kind # "answer",
         \A j \in 1..MaxSyncs : syncs'[j].on => Voice(2) \notin syncs'[j].voice
  PROVE  Untouched'
<1>1. frames \in Seq(Incoming)
  BY DEF ServerTypeOK
<1>2. \A i \in DOMAIN frames' : i + 1 \in DOMAIN frames /\ frames'[i] = frames[i + 1]
  BY <1>1, TailFacts
<1>3. ASSUME NEW i \in DOMAIN frames'
      PROVE  ~Word(frames'[i], Voice(2)) /\ (StateOf(i, 2)' => Voice(2) \notin frames'[i].voice)
  <2>1. ~Word(frames'[i], Voice(2))
    BY <1>2 DEF Untouched
  <2>2. ASSUME StateOf(i, 2)' PROVE Voice(2) \notin frames'[i].voice
    <3>1. StateOf(i + 1, 2)
      BY <1>2, <2>2 DEF StateOf
    <3> QED
      BY <1>2, <3>1 DEF Untouched
  <2> QED
    BY <2>1, <2>2
<1> QED
  BY <1>3 DEF Untouched, callVars

LEMMA UntouchedWith ==
  ASSUME ServerTypeOK, Untouched, Voice(2) \notin channels', caller' # Voice(2), shown' = shown,
         Voice(2) \notin departing', held' \subseteq held,
         commands' = commands, syncs' = syncs,
         NEW e \in Incoming, frames' = Append(frames, e), ~Word(e, Voice(2)),
         NEW n, n = Len(frames) + 1, StateOf(n, 2)' => Voice(2) \notin e.voice
  PROVE  Untouched'
<1>1. frames \in Seq(Incoming)
  BY DEF ServerTypeOK
<1>2. /\ \A i \in DOMAIN frames : frames'[i] = frames[i]
      /\ frames'[n] = e
      /\ \A i \in DOMAIN frames' : i \in DOMAIN frames \/ i = n
  BY <1>1, AppendFacts
<1>3. ASSUME NEW i \in DOMAIN frames'
      PROVE  ~Word(frames'[i], Voice(2)) /\ (StateOf(i, 2)' => Voice(2) \notin frames'[i].voice)
  <2>1. CASE i \in DOMAIN frames
    <3>1. StateOf(i, 2)' => StateOf(i, 2)
      BY <1>2, <2>1 DEF StateOf
    <3> QED
      BY <1>2, <2>1, <3>1 DEF Untouched
  <2>2. CASE i = n
    BY <1>2, <2>2
  <2> QED
    BY <1>2, <2>1, <2>2
<1> QED
  BY <1>3 DEF Untouched

(* A command is added.                                                     *)
LEMMA AskedMore ==
  ASSUME ServerInv, linked, NEW a \in Asking, commands' = Append(commands, a),
         UNCHANGED <<members, deleted, channels, callVars, linked, asked, frames, servers, shown,
                     dms, lateVoice, errors>>,
         \A j \in 1..MaxSyncs : Follows(syncs'[j], syncs[j]),
         \A j \in 1..MaxSyncs : syncs'[j].on => syncs'[j].voice = {} \/ (syncs[j].on /\ syncs'[j] = syncs[j]),
         Fits(a), Makes(a) => New /\ ~MakesIn(commands)
  PROVE  /\ LinkRight' /\ HubRight' /\ (\A s \in Servers : VoiceRight(s)') /\ NewRight' /\ TalkRight'
         /\ commands' \in Seq(Asking) /\ Known' = Known
<1>1. /\ commands' \in Seq(Asking) /\ commands' # <<>>
      /\ commands # <<>> => commands'[1] = commands[1]
      /\ Known' = Known /\ commands \in Seq(Asking)
  BY FirstStays DEF ServerInv, ServerTypeOK, Known
<1>2. LinkRight'
  BY <1>1, LinkAsked DEF ServerInv
<1>10. HubRight'
  <2>1. held # {} => commands # <<>> /\ \A i \in DOMAIN frames : frames[i].kind # "answer"
    BY DEF ServerInv, HubRight
  <2> QED
    BY <1>1, <2>1, HubStays DEF ServerInv, callVars
<1>3. \A s \in Servers : VoiceRight(s)'
  BY <1>1, VoiceSame DEF ServerInv
<1>4. /\ MakesRight(commands')
      /\ \A i \in DOMAIN commands' : i \in DOMAIN commands \/ commands'[i] = a
      /\ \A i \in DOMAIN commands : commands'[i] = commands[i]
  BY <1>1, MakesWith DEF ServerInv, NewRight
<1>5. New' = New
  BY <1>1 DEF New
<1>6. ToMake' => ToMake \/ New
  BY <1>4 DEF ToMake
<1>7. Untouched => Untouched'
  <2>1. Untouched => \A j \in 1..MaxSyncs : syncs'[j].on => Voice(2) \notin syncs'[j].voice
    BY DEF Untouched
  <2> QED
    BY <1>1, <2>1, UntouchedStay DEF ServerInv
<1>8. NewRight'
  BY <1>4, <1>5, <1>6, <1>7 DEF NewRight, ServerInv
<1>9. TalkRight'
  BY <1>1, TalkWith DEF TalkRight, ServerInv
<1> QED
  BY <1>1, <1>2, <1>3, <1>8, <1>9, <1>10

(* An answer is taken that changes nothing on screen.                      *)
LEMMA AnswerTaken ==
  ASSUME ServerInv, frames # <<>>, frames[1].kind = "answer", frames' = Tail(frames), asked' = FALSE,
         UNCHANGED <<members, deleted, channels, callVars, linked, servers, shown, lateVoice, errors>>,
         \A j \in 1..MaxSyncs : Follows(syncs'[j], syncs[j]),
         \A j \in 1..MaxSyncs : syncs'[j].on =>
            syncs'[j].voice = {} \/ (syncs[j].on /\ syncs'[j].voice = syncs[j].voice),
         MakesRight(commands'), MakesIn(commands') => ToMake
  PROVE  LinkRight' /\ HubRight' /\ (\A s \in Servers : VoiceRight(s)') /\ NewRight'
<1>1. ServerTypeOK /\ LinkRight
  BY DEF ServerInv
<1>9. held = {}
  BY NothingHeld DEF ServerInv, ServerTypeOK
<1>10. HubRight'
  BY <1>9 DEF HubRight, callVars
<1>2. LinkRight' /\ \A i \in DOMAIN frames' : frames'[i].kind # "answer"
  BY <1>1, LinkTaken
<1>3. \A s \in Servers : ~Word(frames[1], Voice(s))
  BY DEF Word
<1>4. \A s \in Servers : VoiceRight(s)'
  BY <1>1, <1>2, <1>3, <1>9, VoiceRest DEF ServerInv
<1>5. New' = New
  BY DEF New, Known
<1>6. ToMake' => ToMake
  BY DEF ToMake, MakesIn
<1>7. Untouched => Untouched'
  <2>1. Untouched => \A j \in 1..MaxSyncs : syncs'[j].on => Voice(2) \notin syncs'[j].voice
    BY DEF Untouched
  <2>2. Untouched => Voice(2) \notin shown'
    BY DEF Untouched
  <2> QED
    BY <1>1, <1>2, <2>1, <2>2, UntouchedRest
<1>8. NewRight'
  BY <1>5, <1>6, <1>7 DEF NewRight, ServerInv
<1> QED
  BY <1>2, <1>4, <1>8, <1>10

(* The steps that ask.                                                     *)
LEMMA ASyncIsAsked ==
  ASSUME ServerInv, linked, NEW p \in Nat, StartSync(p, commands),
         UNCHANGED <<members, deleted, channels, callVars, linked, asked, frames, servers, shown,
                     dms, lateVoice, errors>>,
         selectedServer' \in Servers \union {0}, p = 0 => selectedServer' = selectedServer
  PROVE  ServerInv'
<1>1. commands \in Seq(Asking) /\ Kept(commands, syncs, started, Known) /\ ServerTypeOK
  BY DEF ServerInv, ServerTypeOK, SyncsRight
<1>2. Begun(commands) /\ ChoiceRight'
  BY <1>1, SyncBegins DEF ServerInv
<1>3. PICK a \in Asking : a.kind = "servers" /\ commands' = Append(commands, a)
  BY <1>2 DEF Begun
<1>4. ~Makes(a) /\ Fits(a)
  BY <1>3 DEF Makes, Fits
<1>5. /\ LinkRight' /\ HubRight' /\ (\A s \in Servers : VoiceRight(s)') /\ NewRight' /\ TalkRight'
      /\ commands' \in Seq(Asking) /\ Known' = Known
  BY <1>2, <1>3, <1>4, AskedMore DEF Begun
<1>6. ServerTypeOK'
  <2>1. stale' \in Nat /\ stale' <= started'
    BY <1>1, <1>2 DEF ServerTypeOK, Begun
  <2> QED
    BY <1>1, <1>2, <1>5, <2>1 DEF ServerTypeOK, Begun
<1>7. SyncsRight'
  BY <1>2, <1>5 DEF SyncsRight, Begun
<1> QED
  BY <1>2, <1>5, <1>6, <1>7 DEF ServerInv

LEMMA StepPeriodicSync == ServerInv /\ PeriodicSync => ServerInv'
<1> SUFFICES ASSUME ServerInv, PeriodicSync PROVE ServerInv'
  OBVIOUS
<1>1. /\ linked /\ StartSync(0, commands) /\ selectedServer' = selectedServer
      /\ UNCHANGED <<members, deleted, channels, callVars, linked, asked, frames, servers, shown,
                     dms, lateVoice, errors>>
  BY DEF PeriodicSync, hubVars, callVars, listVars, limitVars
<1>2. selectedServer' \in Servers \union {0}
  BY <1>1 DEF ServerInv, ServerTypeOK
<1> QED
  BY <1>1, <1>2, ASyncIsAsked

LEMMA StepSelectServer == ServerInv /\ (\E s \in Servers : SelectServer(s)) => ServerInv'
<1> SUFFICES ASSUME ServerInv, NEW s \in Servers, SelectServer(s) PROVE ServerInv'
  OBVIOUS
<1>1. /\ UNCHANGED <<members, deleted, channels, callVars, linked, asked, frames, servers, shown,
                     dms, lateVoice, errors>>
      /\ selectedServer' = s /\ s \in Nat /\ s # 0
  BY DEF SelectServer, hubVars, callVars, limitVars, Servers
<1>2. CASE linked
  <2>1. StartSync(s, commands)
    BY <1>2 DEF SelectServer
  <2> QED
    BY <1>1, <1>2, <2>1, ASyncIsAsked
<1>3. CASE ~linked
  <2>1. choice' = s /\ UNCHANGED <<syncs, started, commands>> /\ spoilt' = FALSE
    BY <1>3 DEF SelectServer
  <2>2. \A j \in 1..MaxSyncs : ~Wants(syncs'[j])
    BY <1>3, <2>1 DEF ServerInv, LinkRight, NoSync, Wants
  <2>3. ChoiceRight'
    BY <1>1, <2>1, <2>2 DEF ChoiceRight
  <2>4. ServerTypeOK'
    BY <1>1, <2>1 DEF ServerInv, ServerTypeOK, Known
  <2>5. LinkRight' /\ HubRight' /\ SyncsRight' /\ TalkRight'
    BY <1>1, <2>1 DEF ServerInv, LinkRight, HubRight, SyncsRight, TalkRight, Known
  <2>6. \A t \in Servers : VoiceRight(t)'
    BY <1>1, <2>1 DEF ServerInv, VoiceRight, ShownRight, SyncedRight, AnsweredRight, HeldRight, StateOf
  <2>7. NewRight'
    BY <1>1, <2>1 DEF ServerInv, NewRight, New, Known, ToMake, Untouched, StateOf
  <2> QED
    BY <2>3, <2>4, <2>5, <2>6, <2>7 DEF ServerInv
<1> QED
  BY <1>2, <1>3

LEMMA StepSelectChannel ==
  ASSUME ServerInv, NEW c, SelectChannel(c)
  PROVE  ServerInv'
<1>1. UNCHANGED <<hubVars, linkVars, syncs, started, servers, shelf, selectedServer, shown,
                   dms, noteVars, limitVars>>
  BY DEF SelectChannel
<1>2. ServerTypeOK' /\ LinkRight' /\ HubRight' /\ SyncsRight' /\ TalkRight' /\ ChoiceRight'
  BY <1>1 DEF hubVars, callVars, linkVars, noteVars, limitVars, ServerInv, ServerTypeOK, LinkRight,
              HubRight, SyncsRight, TalkRight, ChoiceRight, Known
<1>3. \A t \in Servers : VoiceRight(t)'
  BY <1>1 DEF hubVars, callVars, linkVars, noteVars, limitVars, ServerInv, VoiceRight, ShownRight,
              SyncedRight, AnsweredRight, HeldRight, StateOf
<1>4. NewRight'
  BY <1>1 DEF hubVars, callVars, linkVars, noteVars, limitVars, ServerInv, NewRight, New, Known, ToMake,
              Untouched, StateOf
<1> QED
  BY <1>2, <1>3, <1>4 DEF ServerInv

LEMMA AnEditIsAsked ==
  ASSUME ServerInv, NEW kind \in EditKinds, NEW of \in Nat, Edit(kind, of),
         kind \in {"create", "main", "voice"} => New /\ ~Making,
         kind \in {"create", "join"} => of = 2, kind \notin {"main", "voice"},
         kind = "channel" => of \in {Text(1), Text(2)}
  PROVE  ServerInv'
<1> DEFINE a == Ask(kind, 0, of)
<1>1. /\ a \in Asking /\ a.kind = kind /\ a.of = of
      /\ a.kind \notin {"servers", "state"} /\ 0 \in Nat
  BY DEF Ask, Asking, EditKinds
<1>2. /\ linked /\ commands' = Append(commands, a) /\ UNCHANGED <<syncs, started, choice, spoilt>>
      /\ UNCHANGED <<members, deleted, channels, callVars, linked, asked, frames, servers, shown,
                     dms, lateVoice, errors, selectedServer>>
  BY DEF Edit, hubVars, callVars, listVars, noteVars
<1> HIDE DEF a
<1>3. Makes(a) => New /\ ~MakesIn(commands)
  BY <1>1 DEF Makes, MakesIn, Making
<1>4. /\ \A j \in 1..MaxSyncs : Follows(syncs'[j], syncs[j])
      /\ \A j \in 1..MaxSyncs : syncs'[j].on => syncs'[j].voice = {} \/ (syncs[j].on /\ syncs'[j] = syncs[j])
  BY <1>2 DEF Follows
<1>5. Fits(a)
  BY <1>1 DEF Fits
<1>6. /\ LinkRight' /\ HubRight' /\ (\A s \in Servers : VoiceRight(s)') /\ NewRight' /\ TalkRight'
      /\ commands' \in Seq(Asking) /\ Known' = Known
  BY <1>1, <1>2, <1>3, <1>4, <1>5, AskedMore
<1>7. ServerTypeOK'
  BY <1>2, <1>6 DEF ServerInv, ServerTypeOK
<1>8. SyncsRight'
  <2>1. commands \in Seq(Asking) /\ started \in Nat /\ Kept(commands, syncs, started, Known)
    BY DEF ServerInv, ServerTypeOK, SyncsRight
  <2>2. Kept(commands', syncs, started, Known)
    BY <1>1, <1>2, <2>1, KeptWith
  <2> QED
    BY <1>2, <1>6, <2>2 DEF SyncsRight
<1>9. ChoiceRight'
  BY <1>2 DEF ServerInv, ChoiceRight
<1> QED
  BY <1>6, <1>7, <1>8, <1>9 DEF ServerInv

LEMMA StepEdits ==
  ServerInv /\ (CreateServer \/ JoinServer \/ DeleteServer \/ CreateChannel
                \/ \E s \in Servers : \E c \in {Text(s), Voice(s)} : DeleteChannel(c)) => ServerInv'
<1> SUFFICES ASSUME ServerInv PROVE
      (CreateServer \/ JoinServer \/ DeleteServer \/ CreateChannel
       \/ \E s \in Servers : \E c \in {Text(s), Voice(s)} : DeleteChannel(c)) => ServerInv'
  OBVIOUS
<1>1. selectedServer \in Servers \union {0} /\ 2 \in Nat
  BY DEF ServerInv, ServerTypeOK
<1>2. CASE CreateServer
  <2>1. New
    BY <1>2 DEF CreateServer, New, Known
  <2> QED
    BY <1>1, <1>2, <2>1, AnEditIsAsked DEF CreateServer, EditKinds
<1>3. CASE JoinServer
  BY <1>1, <1>3, AnEditIsAsked DEF JoinServer, EditKinds
<1>4. CASE DeleteServer
  <2>1. selectedServer \in Nat
    BY <1>1 DEF Servers
  <2> QED
    BY <1>4, <2>1, AnEditIsAsked DEF DeleteServer, EditKinds
<1>5. CASE CreateChannel
  <2>1. Text(selectedServer) \in Nat /\ Text(selectedServer) \in {Text(1), Text(2)}
    BY <1>1, <1>5 DEF Servers, Text, CreateChannel
  <2> QED
    BY <1>5, <2>1, AnEditIsAsked DEF CreateChannel, EditKinds
<1>6. ASSUME NEW s \in Servers, NEW c \in {Text(s), Voice(s)}, DeleteChannel(c) PROVE ServerInv'
  <2>1. c \in Nat
    BY DEF Servers, Text, Voice
  <2> QED
    BY <1>6, <2>1, AnEditIsAsked DEF DeleteChannel, EditKinds
<1> QED
  BY <1>2, <1>3, <1>4, <1>5, <1>6

(* The steps of the hub.                                                   *)
LEMMA StepHubRefuses == ServerInv /\ HubRefuses => ServerInv'
<1> SUFFICES ASSUME ServerInv, HubRefuses PROVE ServerInv'
  OBVIOUS
<1> DEFINE e == [kind |-> "answer", ok |-> FALSE]  a == commands[1]
<1>1. /\ linked /\ commands # <<>> /\ ~asked /\ asked' = TRUE /\ frames' = Append(frames, e)
      /\ UNCHANGED <<members, deleted, channels, callVars, linked, commands, syncs, started, servers,
                     selectedServer, shown, dms, choice, spoilt, lateVoice>>
  BY DEF HubRefuses, hubVars, callVars, listVars, noteVars
<1>2. ServerTypeOK /\ commands \in Seq(Asking) /\ frames \in Seq(Incoming) /\ errors \in Nat
  BY DEF ServerInv, ServerTypeOK
<1>3. Head(commands) = a
  BY <1>1, <1>2, TailFacts
<1>4. e \in Incoming /\ e.kind = "answer" /\ ~e.ok
  BY DEF Incoming, PlainAnswer
<1>5. errors' \in Nat /\ errors' >= errors /\ (a.kind \in {"servers", "state", "dms"} => errors' > 0)
  BY <1>2, <1>3 DEF HubRefuses, Possible
<1> HIDE DEF e
<1>6. frames' \in Seq(Incoming)
  BY <1>1, <1>2, <1>4, AppendFacts
<1>7. ServerTypeOK' /\ SyncsRight' /\ ChoiceRight' /\ Known' = Known
  BY <1>1, <1>2, <1>5, <1>6 DEF ServerInv, ServerTypeOK, SyncsRight, ChoiceRight, Known
<1>18. held = {} /\ LinkRight /\ HubRight /\ \A i \in DOMAIN frames : frames[i].kind # "answer"
  BY <1>1 DEF ServerInv, LinkRight, HubRight
<1>8. LinkRight'
  <2>1. AnswerRight(e, commands[1], Known', errors')
    BY <1>4, <1>5 DEF AnswerRight
  <2> QED
    BY <1>1, <1>2, <1>4, <1>18, <2>1, LinkSaid
<1>19. HubRight'
  BY <1>1, <1>18 DEF HubRight
<1>9. \A c : ~Word(e, c)
  BY <1>4 DEF Word
<1>10. PICK n \in Nat : n = Len(frames) + 1
  BY <1>2
<1>11. frames'[n] = e
  BY <1>1, <1>2, <1>4, <1>10, AppendFacts
<1>12. \A s : ~StateOf(n, s)'
  BY <1>4, <1>11 DEF StateOf
<1>13. \A s \in Servers : VoiceRight(s)'
  <2>1. stale' \in Nat /\ stale' >= stale /\ held' \subseteq held
    BY <1>1, <1>2 DEF ServerTypeOK
  <2> QED
    BY <1>1, <1>2, <1>4, <1>9, <1>10, <1>12, <2>1, VoiceWith DEF ServerInv
<1>14. Untouched => Untouched'
  <2> SUFFICES ASSUME Untouched PROVE Untouched'
    OBVIOUS
  <2>1. Voice(2) \notin channels' /\ caller' # Voice(2) /\ Voice(2) \notin departing /\ held' \subseteq held
    BY <1>1 DEF Untouched
  <2> QED
    BY <1>1, <1>2, <1>4, <1>9, <1>10, <1>12, <2>1, UntouchedWith
<1>15. New' = New /\ (ToMake' => ToMake)
  BY <1>1, <1>7 DEF New, ToMake
<1>16. NewRight'
  BY <1>1, <1>14, <1>15 DEF ServerInv, NewRight
<1>17. TalkRight'
  BY <1>1, <1>2, <1>5 DEF ServerInv, TalkRight
<1> QED
  BY <1>7, <1>8, <1>13, <1>16, <1>17, <1>19 DEF ServerInv

LEMMA StepMessageIn ==
  ASSUME ServerInv, NEW c \in Chans, MessageIn(c)
  PROVE  ServerInv'
<1> DEFINE e == [kind |-> "message", of |-> c]
<1>1. /\ linked /\ frames' = Append(frames, e)
      /\ UNCHANGED <<members, deleted, channels, callVars, linked, commands, asked, syncs, started,
                     servers, selectedServer, shown, dms, choice, spoilt, lateVoice, errors>>
  BY DEF MessageIn, hubVars, callVars, listVars, noteVars
<1>2. ServerTypeOK /\ frames \in Seq(Incoming)
  BY DEF ServerInv, ServerTypeOK
<1>4. e \in Incoming /\ e.kind = "message"
  BY DEF Incoming, News
<1> HIDE DEF e
<1>6. frames' \in Seq(Incoming)
  BY <1>1, <1>2, <1>4, AppendFacts
<1>7. ServerTypeOK' /\ SyncsRight' /\ ChoiceRight' /\ TalkRight' /\ Known' = Known
  BY <1>1, <1>2, <1>6 DEF ServerInv, ServerTypeOK, SyncsRight, ChoiceRight, TalkRight, Known
<1>8. LinkRight'
  BY <1>1, <1>2, <1>4, <1>7, LinkNews DEF ServerInv
<1>17. HubRight'
  BY <1>1, <1>2, <1>4, HubTold DEF ServerInv
<1>9. \A d : ~Word(e, d)
  BY <1>4 DEF Word
<1>10. PICK n \in Nat : n = Len(frames) + 1
  BY <1>2
<1>11. frames'[n] = e
  BY <1>1, <1>2, <1>4, <1>10, AppendFacts
<1>12. \A s : ~StateOf(n, s)'
  BY <1>4, <1>11 DEF StateOf
<1>13. \A s \in Servers : VoiceRight(s)'
  <2>1. stale' \in Nat /\ stale' >= stale /\ held' \subseteq held
    BY <1>1, <1>2 DEF ServerTypeOK
  <2> QED
    BY <1>1, <1>2, <1>4, <1>9, <1>10, <1>12, <2>1, VoiceWith DEF ServerInv
<1>14. Untouched => Untouched'
  <2> SUFFICES ASSUME Untouched PROVE Untouched'
    OBVIOUS
  <2>1. Voice(2) \notin channels' /\ caller' # Voice(2) /\ Voice(2) \notin departing /\ held' \subseteq held
    BY <1>1 DEF Untouched
  <2> QED
    BY <1>1, <1>2, <1>4, <1>9, <1>10, <1>12, <2>1, UntouchedWith
<1>15. New' = New /\ (ToMake' => ToMake)
  BY <1>1, <1>7 DEF New, ToMake
<1>16. NewRight'
  BY <1>1, <1>14, <1>15 DEF ServerInv, NewRight
<1> QED
  BY <1>7, <1>8, <1>13, <1>16, <1>17 DEF ServerInv

(* Somebody joins, and the members are told at once.                       *)
LEMMA TheVoiceChannel ==
  ASSUME NEW t \in Servers, NEW c \in {Text(t), Voice(t)}, c \in {Voice(1), Voice(2)}
  PROVE  c = Voice(t) /\ c \in Chans /\ Home(c) = t /\ c # 0 /\ \A s \in Servers : s # t => Voice(s) # c
<1>1. c # Text(t)
  BY ServerNumbers
<1>2. t \in {1, 2} /\ Voice(1) = 12 /\ Voice(2) = 22
  BY ServerNumbers
<1>3. c \in {12, 22}
  BY <1>2
<1> QED
  BY <1>1, <1>3, ServerNumbers

LEMMA NobodyLinked ==
  ASSUME LinkRight', ~linked', held' = {}, NEW s
  PROVE  VoiceRight(s)'
<1>1. \A j \in 1..MaxSyncs : ~syncs'[j].on
  BY DEF LinkRight, NoSync
<1> QED
  BY <1>1 DEF VoiceRight, LinkRight, ShownRight, SyncedRight, AnsweredRight, HeldRight

LEMMA StepVoiceJoins ==
  ASSUME ServerInv, NEW t \in Servers, NEW c \in {Text(t), Voice(t)}, VoiceJoins(c)
  PROVE  ServerInv'
<1> DEFINE e == [kind |-> "joined", of |-> c]
<1>1. /\ frames' = (IF linked /\ Home(c) \in members THEN Append(frames, e) ELSE frames)
      /\ c \in channels \intersect {Voice(s) : s \in Servers} /\ caller = 0 /\ caller' = c
      /\ held = {} /\ held' = {}
      /\ UNCHANGED <<members, deleted, channels, departing, stale, linked, commands, asked, syncs,
                     started, servers, selectedServer, shown, dms, choice, spoilt, lateVoice, errors>>
  BY DEF VoiceJoins, PushWord, listVars, noteVars
<1>2. ServerTypeOK /\ frames \in Seq(Incoming) /\ LinkRight /\ HubRight
  BY DEF ServerInv, ServerTypeOK
<1>3. c \in {Voice(1), Voice(2)} /\ c = Voice(t) /\ c \in Chans /\ Home(c) = t /\ c # 0
      /\ \A s \in Servers : s # t => Voice(s) # c
  BY <1>1, TheVoiceChannel DEF Servers
<1>4. e \in Incoming /\ e.kind = "joined" /\ e.of = c
  BY <1>3 DEF Incoming, News
<1> HIDE DEF e
<1>6. frames' \in Seq(Incoming)
  BY <1>1, <1>2, <1>4, AppendFacts
<1>7. ServerTypeOK' /\ SyncsRight' /\ ChoiceRight' /\ TalkRight' /\ Known' = Known
  BY <1>1, <1>2, <1>3, <1>6 DEF ServerInv, ServerTypeOK, SyncsRight, ChoiceRight, TalkRight, Known
<1>8. LinkRight' /\ HubRight'
  <2>1. CASE frames' = Append(frames, e)
    <3>1. linked
      BY <1>1, <1>2, <1>4, <2>1, AppendFacts DEF LinkRight
    <3> QED
      BY <1>1, <1>2, <1>4, <1>7, <2>1, <3>1, LinkNews DEF HubRight
  <2>2. CASE frames' = frames
    BY <1>1, <1>2, <1>7, <2>2 DEF LinkRight, HubRight
  <2> QED
    BY <1>1, <2>1, <2>2
<1>9. \A d : Word(e, d) <=> d = c
  BY <1>4 DEF Word
<1>10. PICK n \in Nat : n = Len(frames) + 1
  BY <1>2
<1>11. frames' = Append(frames, e) => frames'[n] = e /\ \A s : ~StateOf(n, s)'
  <2>1. frames' = Append(frames, e) => frames'[n] = e
    BY <1>2, <1>4, <1>10, AppendFacts
  <2> QED
    BY <1>4, <2>1 DEF StateOf
<1>12. ASSUME NEW s \in Servers, s # t PROVE VoiceRight(s)'
  <2>1. /\ Voice(s) # c /\ (caller' = Voice(s) <=> caller = Voice(s)) /\ VoiceRight(s)
        /\ stale' \in Nat /\ stale' >= stale
    <3>1. Voice(s) # 0
      BY DEF Servers, Voice
    <3>2. Voice(s) # c /\ (caller' = Voice(s) <=> caller = Voice(s)) /\ VoiceRight(s)
      BY <1>1, <1>3, <1>12, <3>1 DEF ServerInv
    <3> QED
      BY <1>1, <1>2, <3>2 DEF ServerTypeOK
  <2>2. CASE frames' = frames
    BY <1>1, <2>1, <2>2 DEF VoiceRight, ShownRight, SyncedRight, AnsweredRight, HeldRight, StateOf
  <2>3. CASE frames' = Append(frames, e)
    <3>1. ~Word(e, Voice(s))
      BY <1>9, <2>1
    <3> QED
      BY <1>1, <1>2, <1>4, <1>10, <1>11, <2>1, <2>3, <3>1, VoiceWith
  <2> QED
    BY <1>1, <2>2, <2>3
<1>13. VoiceRight(t)'
  <2>1. CASE ~linked
    BY <1>1, <1>8, <2>1, NobodyLinked
  <2>2. CASE linked /\ t \in members
    <3>1. frames' = Append(frames, e) /\ Word(e, Voice(t)) /\ caller' = Voice(t)
      BY <1>1, <1>3, <1>9, <2>2
    <3>2. HeldRight(t)'
      BY <1>1 DEF HeldRight
    <3> QED
      BY <1>1, <1>2, <1>4, <1>10, <1>11, <3>1, <3>2, WordIsLast
  <2>3. CASE t \notin members
    BY <1>1, <2>3 DEF VoiceRight
  <2> QED
    BY <2>1, <2>2, <2>3
<1>14. Untouched => Untouched'
  <2> SUFFICES ASSUME Untouched PROVE Untouched'
    OBVIOUS
  <2>1. /\ Voice(2) \notin channels' /\ c # Voice(2) /\ caller' # Voice(2)
        /\ Voice(2) \notin departing' /\ held' \subseteq held
    BY <1>1 DEF Untouched
  <2>2. CASE frames' = frames
    BY <1>1, <2>1, <2>2 DEF Untouched, StateOf
  <2>3. CASE frames' = Append(frames, e)
    <3>1. ~Word(e, Voice(2))
      BY <1>9, <2>1
    <3> QED
      BY <1>1, <1>2, <1>4, <1>10, <1>11, <2>1, <2>3, <3>1, UntouchedWith
  <2> QED
    BY <1>1, <2>2, <2>3
<1>15. New' = New /\ (ToMake' => ToMake)
  BY <1>1, <1>7 DEF New, ToMake
<1>16. NewRight'
  BY <1>1, <1>14, <1>15 DEF ServerInv, NewRight
<1> QED
  BY <1>7, <1>8, <1>12, <1>13, <1>16 DEF ServerInv

(* Somebody leaves, and nobody has been told.                              *)
LEMMA StepVoiceLeaves ==
  ASSUME ServerInv, NEW t \in Servers, NEW c \in {Text(t), Voice(t)}, VoiceLeaves(c)
  PROVE  ServerInv'
<1>1. /\ caller = c /\ caller' = 0 /\ departing' = departing \union {c} /\ held' = held
      /\ UNCHANGED <<members, deleted, channels, stale, linked, commands, asked, frames, syncs,
                     started, servers, selectedServer, shown, dms, choice, spoilt, lateVoice, errors>>
  BY DEF VoiceLeaves, linkVars, listVars, noteVars
<1>2. c \in {Voice(1), Voice(2)} /\ c = Voice(t) /\ \A s \in Servers : s # t => Voice(s) # c
  <2>1. Text(t) # 0 /\ Voice(t) # 0
    BY DEF Servers, Text, Voice
  <2>2. c \in {Voice(1), Voice(2)}
    BY <1>1, <2>1 DEF ServerInv, ServerTypeOK
  <2> QED
    BY <2>2, TheVoiceChannel
<1>3. /\ ServerTypeOK' /\ LinkRight' /\ HubRight' /\ SyncsRight' /\ ChoiceRight' /\ TalkRight'
      /\ Known' = Known
  BY <1>1, <1>2 DEF ServerInv, ServerTypeOK, LinkRight, HubRight, SyncsRight, ChoiceRight, TalkRight, Known
<1>4. ASSUME NEW s \in Servers PROVE VoiceRight(s)'
  <2>1. CASE s = t
    BY <1>1, <1>2, <2>1 DEF VoiceRight
  <2>2. CASE s # t
    <3>1. Voice(s) # 0 /\ Voice(s) # c /\ VoiceRight(s)
      BY <1>2, <2>2 DEF ServerInv, Servers, Voice
    <3>2. caller' # Voice(s) /\ caller # Voice(s)
      BY <1>1, <3>1
    <3> QED
      BY <1>1, <3>1, <3>2 DEF VoiceRight, ShownRight, SyncedRight, AnsweredRight, HeldRight, StateOf
  <2> QED
    BY <2>1, <2>2
<1>5. Untouched => Untouched'
  BY <1>1, ServerNumbers DEF Untouched, StateOf
<1>6. New' = New /\ (ToMake' => ToMake)
  BY <1>1, <1>3 DEF New, ToMake
<1>7. NewRight'
  BY <1>1, <1>5, <1>6 DEF ServerInv, NewRight
<1> QED
  BY <1>3, <1>4, <1>7 DEF ServerInv

(* The members are told of a leaving, in order or not.                     *)
LEMMA VoiceOlder ==
  ASSUME ServerTypeOK, HubRight, LinkRight, NEW s, VoiceRight(s),
         Voice(s) \in channels' \ departing' => Voice(s) \in channels \ departing,
         stale' \in Nat, stale' >= stale, lateVoice => lateVoice',
         UNCHANGED <<members, channels, caller, held, linked, commands, frames, syncs, servers, shown>>
  PROVE  VoiceRight(s)'
<1> SUFFICES ASSUME s \in members, Voice(s) \in channels \ departing
             PROVE  ShownRight(s)' /\ SyncedRight(s)' /\ AnsweredRight(s)' /\ HeldRight(s)'
  BY DEF VoiceRight
<1>1. ShownRight(s) /\ SyncedRight(s) /\ AnsweredRight(s) /\ HeldRight(s)
  BY DEF VoiceRight
<1>2. stale \in Nat /\ \A j \in 1..MaxSyncs : j > stale' => j > stale
  BY ServerAssumption DEF ServerTypeOK
<1>3. commands # <<>> => (commands[1].job > stale' => commands[1].job > stale)
  <2> SUFFICES ASSUME commands # <<>> PROVE commands[1].job > stale' => commands[1].job > stale
    OBVIOUS
  <2>1. commands[1] \in Asking
    BY TailFacts DEF ServerTypeOK
  <2>2. commands[1].job \in Nat
    BY <2>1 DEF Asking
  <2> QED
    BY <1>2, <2>2
<1>4. ~lateVoice' => ~lateVoice
  OBVIOUS
<1>5. ShownRight(s)'
  BY <1>1, <1>4 DEF ShownRight
<1>6. SyncedRight(s)'
  BY <1>1, <1>2 DEF SyncedRight
<1>7. AnsweredRight(s)'
  <2>1. \A i \in DOMAIN frames : frames[i].kind = "answer" => commands # <<>>
    BY DEF LinkRight
  <2> QED
    BY <1>1, <1>3, <2>1 DEF AnsweredRight, StateOf
<1>8. HeldRight(s)'
  <2>1. held # {} => commands # <<>>
    BY DEF HubRight
  <2> QED
    BY <1>1, <1>3, <2>1 DEF HeldRight
<1> QED
  BY <1>5, <1>6, <1>7, <1>8

LEMMA StepTellMembers ==
  ASSUME ServerInv, NEW t \in Servers, NEW c \in {Text(t), Voice(t)}, TellMembers(c)
  PROVE  ServerInv'
<1> DEFINE e == [kind |-> "left", of |-> c]
           outOfTurn == caller = c \/ \E h \in held : c \in h.voice
<1>1. /\ frames' = (IF linked /\ Home(c) \in members THEN Append(frames, e) ELSE frames)
      /\ c \in departing /\ departing' = departing \ {c}
      /\ stale' = (IF outOfTurn THEN started ELSE stale) /\ lateVoice' = (lateVoice \/ caller = c)
      /\ UNCHANGED <<members, deleted, channels, caller, held, linked, commands, asked, syncs,
                     started, servers, selectedServer, shown, dms, choice, spoilt, errors>>
  BY DEF TellMembers, PushWord, listVars, limitVars
<1>2. ServerTypeOK /\ frames \in Seq(Incoming) /\ LinkRight /\ HubRight
  BY DEF ServerInv, ServerTypeOK
<1>3. c \in {Voice(1), Voice(2)} /\ c = Voice(t) /\ c \in Chans /\ Home(c) = t /\ c # 0
      /\ \A s \in Servers : s # t => Voice(s) # c
  BY <1>1, <1>2, TheVoiceChannel DEF ServerTypeOK
<1>4. e \in Incoming /\ e.kind = "left" /\ e.of = c
  BY <1>3 DEF Incoming, News
<1>5. stale' \in Nat /\ stale' >= stale /\ stale' <= started /\ (outOfTurn => stale' = started)
  BY <1>1, <1>2, ServerAssumption DEF ServerTypeOK
<1> HIDE DEF e, outOfTurn
<1>6. frames' \in Seq(Incoming)
  BY <1>1, <1>2, <1>4, AppendFacts
<1>7. ServerTypeOK' /\ SyncsRight' /\ ChoiceRight' /\ TalkRight' /\ Known' = Known
  <2>1. lateVoice' \in BOOLEAN
    BY <1>1, <1>2 DEF ServerTypeOK
  <2> QED
    BY <1>1, <1>2, <1>3, <1>5, <1>6, <2>1
       DEF ServerInv, ServerTypeOK, SyncsRight, ChoiceRight, TalkRight, Known
<1>8. LinkRight' /\ HubRight'
  <2>1. CASE frames' = Append(frames, e)
    <3>1. linked
      BY <1>1, <1>2, <1>4, <2>1, AppendFacts DEF LinkRight
    <3>2. e.kind # "answer"
      BY <1>4
    <3> QED
      BY <1>1, <1>2, <1>4, <1>7, <2>1, <3>1, <3>2, LinkNews, HubTold
  <2>2. CASE frames' = frames
    <3>1. lateVoice => lateVoice'
      BY <1>1
    <3> QED
      BY <1>1, <1>2, <1>7, <2>2, <3>1 DEF LinkRight, HubRight
  <2> QED
    BY <1>1, <2>1, <2>2
<1>9. \A d : Word(e, d) <=> d = c
  BY <1>4 DEF Word
<1>10. PICK n \in Nat : n = Len(frames) + 1
  BY <1>2
<1>11. frames' = Append(frames, e) => frames'[n] = e /\ \A s : ~StateOf(n, s)'
  <2>1. frames' = Append(frames, e) => frames'[n] = e
    BY <1>2, <1>4, <1>10, AppendFacts
  <2> QED
    BY <1>4, <2>1 DEF StateOf
<1>20. lateVoice => lateVoice'
  BY <1>1
<1>12. ASSUME NEW s \in Servers, s # t PROVE VoiceRight(s)'
  <2>1. /\ Voice(s) # c /\ VoiceRight(s)
        /\ (Voice(s) \in channels' \ departing' => Voice(s) \in channels \ departing)
    BY <1>1, <1>3, <1>12 DEF ServerInv
  <2>2. CASE frames' = frames
    BY <1>1, <1>2, <1>5, <1>20, <2>1, <2>2, VoiceOlder
  <2>3. CASE frames' = Append(frames, e)
    <3>1. ~Word(e, Voice(s)) /\ held' \subseteq held
      BY <1>1, <1>9, <2>1
    <3> QED
      BY <1>1, <1>2, <1>4, <1>5, <1>10, <1>11, <1>20, <2>1, <2>3, <3>1, VoiceWith
  <2> QED
    BY <1>1, <2>2, <2>3
<1>13. VoiceRight(t)'
  <2>1. CASE ~linked
    <3>1. held' = {}
      BY <1>1, <1>2, <2>1 DEF HubRight
    <3> QED
      BY <1>1, <1>8, <2>1, <3>1, NobodyLinked
  <2>2. CASE t \notin members
    BY <1>1, <2>2 DEF VoiceRight
  <2>3. CASE linked /\ t \in members /\ ~outOfTurn
    <3>1. frames' = Append(frames, e) /\ Word(e, Voice(t)) /\ caller' # Voice(t) /\ e.kind # "joined"
      BY <1>1, <1>3, <1>4, <1>9, <2>3 DEF outOfTurn
    <3>2. HeldRight(t)'
      <4>1. \A h \in held : Voice(t) \notin h.voice
        BY <1>3, <2>3 DEF outOfTurn
      <4> QED
        BY <1>1, <3>1, <4>1 DEF HeldRight, Snapshot
    <3> QED
      BY <1>2, <1>4, <1>10, <1>11, <3>1, <3>2, WordIsLast
  <2>4. CASE linked /\ t \in members /\ outOfTurn
    <3>1. frames' = Append(frames, e) /\ Word(e, Voice(t)) /\ e.kind # "joined" /\ stale' = started
      BY <1>1, <1>3, <1>4, <1>5, <1>9, <2>4
    <3>2. ShownRight(t)'
      <4>1. \A base \in BOOLEAN : EndsIn(frames', 0, Voice(t), base) <=> (e.kind = "joined")
        <5>1. 0 \in Nat /\ 0 <= Len(frames)
          BY <1>2
        <5> QED
          BY <1>2, <1>4, <3>1, <5>1, EndsWith
      <4>2. (Voice(t) \in shown') \in BOOLEAN
        OBVIOUS
      <4>3. ~lateVoice' => caller' # Voice(t)
        BY <1>1, <1>3
      <4> QED
        BY <3>1, <4>1, <4>2, <4>3 DEF ShownRight
    <3>3. commands # <<>> /\ commands[1].kind = "state" => ~(commands[1].job > started)
      <4>1. InOrder(commands, started, Known) /\ started \in Nat
        BY <1>2, ServerAssumption DEF ServerInv, SyncsRight, Kept, ServerTypeOK
      <4>2. commands # <<>> => 1 \in DOMAIN commands
        BY <1>2, TailFacts DEF ServerTypeOK
      <4> QED
        BY <4>1, <4>2 DEF InOrder
    <3>4. SyncedRight(t)'
      <4>1. \A j \in 1..MaxSyncs : syncs[j].on => ~(j > started)
        BY <1>2, ServerAssumption DEF ServerInv, SyncsRight, Kept, ServerTypeOK
      <4> QED
        BY <1>1, <3>1, <4>1 DEF SyncedRight
    <3>5. AnsweredRight(t)'
      <4>1. \A i \in DOMAIN frames' : StateOf(i, t)' => commands # <<>>
        BY <1>1, <1>8 DEF StateOf, LinkRight
      <4> QED
        BY <1>1, <3>1, <3>3, <4>1 DEF AnsweredRight, StateOf
    <3>6. HeldRight(t)'
      BY <1>1, <1>2, <3>1, <3>3 DEF HeldRight, HubRight
    <3> QED
      BY <3>2, <3>4, <3>5, <3>6 DEF VoiceRight
  <2> QED
    BY <2>1, <2>2, <2>3, <2>4
<1>14. Untouched => Untouched'
  <2> SUFFICES ASSUME Untouched PROVE Untouched'
    OBVIOUS
  <2>1. /\ Voice(2) \notin channels' /\ c # Voice(2) /\ caller' # Voice(2)
        /\ Voice(2) \notin departing' /\ held' \subseteq held
    BY <1>1 DEF Untouched
  <2>2. CASE frames' = frames
    BY <1>1, <2>1, <2>2 DEF Untouched, StateOf
  <2>3. CASE frames' = Append(frames, e)
    <3>1. ~Word(e, Voice(2))
      BY <1>9, <2>1
    <3> QED
      BY <1>1, <1>2, <1>4, <1>10, <1>11, <2>1, <2>3, <3>1, UntouchedWith
  <2> QED
    BY <1>1, <2>2, <2>3
<1>15. New' = New /\ (ToMake' => ToMake)
  BY <1>1, <1>7 DEF New, ToMake
<1>16. NewRight'
  BY <1>1, <1>14, <1>15 DEF ServerInv, NewRight
<1> QED
  BY <1>7, <1>8, <1>12, <1>13, <1>16 DEF ServerInv

(* What a command that is carried out changes and says.                    *)
HubDid(a) ==
    /\ members' \subseteq Servers /\ deleted' \subseteq Servers /\ channels' \subseteq Chans
    /\ Known \subseteq Known'
    /\ \A s \in Servers : s \in members' \ members => a.kind \in {"create", "join"} /\ s \notin Known
    /\ \A c \in channels' \ channels :
         a.kind \in {"main", "voice", "channel"} /\ c = a.of /\ Home(c) \in members
    /\ (Text(2) \in channels \ channels' => 2 \in Known')
HubSaid(e, a) == e \in Incoming /\ e.kind = "answer" /\ AnswerRight(e, a, Known', errors)

LEMMA HubDoes ==
  ASSUME ServerTypeOK, NEW a \in Asking, Fits(a), Possible(a),
         members' = Edited(a)[1], channels' = Edited(a)[2], deleted' = deleted \union (members \ members')
  PROVE  HubDid(a)
<1>1. members \subseteq Servers /\ deleted \subseteq Servers /\ channels \subseteq Chans
  BY DEF ServerTypeOK
<1>2. CASE a.kind \in {"create", "join"}
  <2>1. members' = members \union {a.of} /\ channels' = channels /\ a.of = 2 /\ a.of \notin Known
    BY <1>2 DEF Edited, Fits, Possible, Known
  <2> QED
    BY <1>1, <1>2, <2>1 DEF HubDid, Known, Servers
<1>3. CASE a.kind = "deleteServer"
  <2>1. members' = members \ {a.of} /\ channels' = {c \in channels : Home(c) # a.of} /\ a.of \in members
    BY <1>3 DEF Edited, Possible
  <2>2. Home(Text(2)) = 2
    BY ServerNumbers
  <2> QED
    BY <1>1, <2>1, <2>2 DEF HubDid, Known
<1>4. CASE a.kind \in {"main", "voice", "channel"}
  <2>1. members' = members /\ channels' = channels \union {a.of} /\ Home(a.of) \in members
    BY <1>4 DEF Edited, Possible
  <2>2. a.of \in Chans
    BY <1>4, ServerNumbers DEF Fits
  <2> QED
    BY <1>1, <1>4, <2>1, <2>2 DEF HubDid, Known
<1>5. CASE a.kind = "deleteChannel"
  <2>1. members' = members /\ channels' = channels \ {a.of} /\ Home(a.of) \in members
    BY <1>5 DEF Edited, Possible
  <2>2. Home(Text(2)) = 2
    BY ServerNumbers
  <2> QED
    BY <1>1, <2>1, <2>2 DEF HubDid, Known
<1>6. CASE a.kind \notin {"create", "join", "deleteServer", "main", "voice", "channel", "deleteChannel"}
  <2>1. members' = members /\ channels' = channels
    BY <1>6 DEF Edited
  <2> QED
    BY <1>1, <2>1 DEF HubDid, Known
<1> QED
  BY <1>2, <1>3, <1>4, <1>5, <1>6

LEMMA HubSays ==
  ASSUME ServerTypeOK, NEW a \in Asking, a.kind # "state", members' = Edited(a)[1],
         deleted' = deleted \union (members \ members')
  PROVE  HubSaid(Answer(a), a)
<1>1. CASE a.kind = "servers"
  <2>1. Answer(a) = [kind |-> "answer", ok |-> TRUE, servers |-> members] /\ members' = members
    BY <1>1 DEF Answer, Edited
  <2>2. Answer(a) \in ServersAnswer
    BY <2>1 DEF ServersAnswer, ServerTypeOK
  <2> QED
    BY <1>1, <2>1, <2>2 DEF HubSaid, AnswerRight, Incoming, Known
<1>2. CASE a.kind # "servers"
  <2>1. Answer(a) = [kind |-> "answer", ok |-> TRUE]
    BY <1>2 DEF Answer
  <2>2. Answer(a) \in PlainAnswer
    BY <2>1 DEF PlainAnswer
  <2> QED
    BY <1>2, <2>1, <2>2 DEF HubSaid, AnswerRight, Incoming
<1> QED
  BY <1>1, <1>2

LEMMA StepHubAnswers == ServerInv /\ HubAnswers => ServerInv'
<1> SUFFICES ASSUME ServerInv, HubAnswers PROVE ServerInv'
  OBVIOUS
<1> DEFINE a == commands[1]  e == Answer(a)
<1>1. ServerTypeOK /\ commands \in Seq(Asking) /\ frames \in Seq(Incoming) /\ LinkRight /\ HubRight
  BY DEF ServerInv, ServerTypeOK
<1>2. Head(commands) = a /\ a \in Asking /\ 1 \in DOMAIN commands
  BY <1>1, TailFacts DEF HubAnswers
<1>3. /\ linked /\ commands # <<>> /\ ~asked /\ asked' = TRUE /\ Possible(a) /\ a.kind # "state"
      /\ members' = Edited(a)[1] /\ channels' = Edited(a)[2]
      /\ deleted' = deleted \union (members \ members')
      /\ frames' = Append(frames, e)
      /\ UNCHANGED <<caller, departing, held, stale, linked, commands, syncs, started, servers,
                     selectedServer, shown, dms, choice, spoilt, lateVoice, errors>>
  BY <1>2 DEF HubAnswers, listVars, noteVars, limitVars
<1>4. Fits(a)
  BY <1>2 DEF ServerInv, NewRight, MakesRight
<1>5. HubDid(a) /\ HubSaid(e, a)
  BY <1>1, <1>2, <1>3, <1>4, HubDoes, HubSays
<1> HIDE DEF e
<1>6. frames' \in Seq(Incoming)
  BY <1>1, <1>3, <1>5, AppendFacts DEF HubSaid
<1>7. ServerTypeOK'
  BY <1>1, <1>3, <1>5, <1>6 DEF ServerTypeOK, HubDid
<1>13. held = {} /\ \A i \in DOMAIN frames : frames[i].kind # "answer"
  BY <1>1, <1>3 DEF LinkRight, HubRight
<1>8. LinkRight' /\ HubRight'
  <2>1. HubRight'
    BY <1>3, <1>13 DEF HubRight
  <2> QED
    BY <1>1, <1>3, <1>5, <1>13, <2>1, LinkSaid DEF HubSaid
<1>9. SyncsRight' /\ ChoiceRight' /\ TalkRight'
  <2>1. Kept(commands, syncs, started, Known) /\ started \in Nat /\ Known \subseteq Known'
    BY <1>1, <1>5 DEF ServerInv, SyncsRight, ServerTypeOK, HubDid
  <2>2. Kept(commands, syncs, started, Known')
    BY <2>1, KeptGrows
  <2>3. SyncsRight'
    BY <1>3, <2>2 DEF SyncsRight
  <2>4. ChoiceRight' /\ TalkRight'
    BY <1>3 DEF ServerInv, ChoiceRight, TalkRight
  <2> QED
    BY <2>3, <2>4
<1>10. \A d : ~Word(e, d)
  BY <1>5 DEF Word, HubSaid
<1>11. PICK n \in Nat : n = Len(frames) + 1
  BY <1>1
<1>12. /\ frames'[n] = e /\ e \in Incoming /\ \A i \in DOMAIN frames : frames'[i] = frames[i]
       /\ \A i \in DOMAIN frames' : i \in DOMAIN frames \/ i = n
  BY <1>1, <1>3, <1>5, <1>11, AppendFacts DEF HubSaid
<1>14. \A i \in DOMAIN frames' : \A s \in Servers : ~StateOf(i, s)'
  BY <1>3 DEF StateOf
<1>19. \A s \in Servers : AnsweredRight(s)' /\ HeldRight(s)'
  BY <1>3, <1>13, <1>14 DEF AnsweredRight, HeldRight
<1>15. ASSUME NEW s \in Servers PROVE VoiceRight(s)'
  <2>1. VoiceRight(s) /\ s \in Servers
    BY DEF ServerInv
  <2>2. CASE (s \in members' => s \in members) /\ (Voice(s) \in channels' => Voice(s) \in channels)
    <3>1. ~StateOf(n, s)'
      BY <1>3 DEF StateOf
    <3>2. stale' \in Nat /\ stale' >= stale /\ held' \subseteq held
      BY <1>1, <1>3 DEF ServerTypeOK
    <3>3. Voice(s) \in channels' \ departing' => Voice(s) \in channels \ departing
      BY <1>3, <2>2
    <3> QED
      BY <1>1, <1>3, <1>10, <1>11, <1>12, <2>1, <2>2, <3>1, <3>2, <3>3, VoiceWith
  <2>3. CASE s \in members' \ members
    <3>1. a.kind \in {"create", "join"} /\ s \notin Known
      BY <1>5, <2>3 DEF HubDid
    <3>2. s \notin servers /\ \A j \in 1..MaxSyncs : syncs[j].on => s \notin syncs[j].got
      BY <1>1, <3>1 DEF ServerInv, ServerTypeOK, SyncsRight, Kept, Awaited
    <3>3. ShownRight(s)' /\ SyncedRight(s)'
      BY <1>3, <3>2 DEF ShownRight, SyncedRight
    <3> QED
      BY <1>19, <3>3 DEF VoiceRight
  <2>4. CASE Voice(s) \in channels' \ channels
    <3>1. a.kind \in {"main", "voice", "channel"} /\ Voice(s) = a.of
      BY <1>5, <2>4 DEF HubDid
    <3>2. a.kind = "voice" /\ s = 2
      BY <1>4, <3>1, ServerNumbers DEF Fits
    <3>3. Untouched
      BY <1>2, <1>3, <3>2 DEF ServerInv, NewRight, ToMake, Makes
    <3>4. \A i \in DOMAIN frames' : ~Word(frames'[i], Voice(s))
      BY <1>10, <1>12, <3>2, <3>3 DEF Untouched
    <3>5. \A base \in BOOLEAN : EndsIn(frames', 0, Voice(s), base) <=> base
      BY <3>4, EndsSilent
    <3>6. \A X : (Voice(s) \in X) \in BOOLEAN
      OBVIOUS
    <3>7. ShownRight(s)'
      <4>1. EndsIn(frames', 0, Voice(s), Voice(s) \in shown') <=> Voice(s) \in shown'
        BY <3>5, <3>6
      <4> QED
        BY <1>3, <3>2, <3>3, <4>1 DEF ShownRight, Untouched
    <3>8. SyncedRight(s)'
      <4> SUFFICES ASSUME NEW j \in 1..MaxSyncs, syncs'[j].on
                   PROVE  EndsIn(frames', 0, Voice(s), Voice(s) \in Snapshot(syncs'[j])) <=> caller' = Voice(s)
        BY DEF SyncedRight
      <4>1. EndsIn(frames', 0, Voice(s), Voice(s) \in Snapshot(syncs'[j])) <=> Voice(s) \in Snapshot(syncs'[j])
        BY <3>5, <3>6
      <4>2. Voice(s) \notin Snapshot(syncs'[j]) /\ caller' # Voice(s)
        BY <1>3, <3>2, <3>3 DEF Untouched, Snapshot
      <4> QED
        BY <4>1, <4>2
    <3> QED
      BY <1>19, <3>7, <3>8 DEF VoiceRight
  <2> QED
    BY <2>2, <2>3, <2>4
<1>16. New' \/ ToMake' => New \/ ToMake
  <2>1. New' => New
    BY <1>5 DEF New, HubDid
  <2>2. ToMake' => ToMake
    BY <1>3 DEF ToMake
  <2> QED
    BY <2>1, <2>2
<1>17. ASSUME New' \/ ToMake', Voice(2) \in channels' \ channels PROVE FALSE
  <2>1. a.kind \in {"main", "voice", "channel"} /\ Voice(2) = a.of /\ Home(a.of) \in members
    BY <1>5, <1>17 DEF HubDid
  <2>2. a.kind = "voice" /\ 2 \in members
    BY <1>4, <2>1, ServerNumbers DEF Fits
  <2>3. ~New'
    BY <1>5, <2>2 DEF New, HubDid, Known
  <2>4. ~ToMake'
    BY <1>2, <1>3, <2>2 DEF ServerInv, NewRight, MakesRight, ToMake, Makes
  <2> QED
    BY <1>17, <2>3, <2>4
<1>18. NewRight'
  <2>1. MakesRight(commands')
    BY <1>3 DEF ServerInv, NewRight
  <2>2. ASSUME New' \/ ToMake' PROVE Untouched'
    <3>1. Untouched
      BY <1>16, <2>2 DEF ServerInv, NewRight
    <3>2. Voice(2) \notin channels' /\ caller' # Voice(2)
      BY <1>3, <1>17, <2>2, <3>1 DEF Untouched
    <3>3. ~StateOf(n, 2)' /\ Voice(2) \notin departing' /\ held' \subseteq held
      BY <1>3, <3>1 DEF StateOf, Untouched
    <3> QED
      BY <1>1, <1>3, <1>10, <1>11, <1>12, <3>1, <3>2, <3>3, UntouchedWith
  <2> QED
    BY <2>1, <2>2 DEF NewRight
<1> QED
  BY <1>7, <1>8, <1>9, <1>15, <1>18 DEF ServerInv

(* What a server's state is read as, and is pushed as later.               *)
LEMMA StepHubReads == ServerInv /\ HubReads => ServerInv'
<1> SUFFICES ASSUME ServerInv, HubReads PROVE ServerInv'
  OBVIOUS
<1> DEFINE a == commands[1]  e == Answer(a)
<1>1. ServerTypeOK /\ commands \in Seq(Asking) /\ LinkRight /\ HubRight
  BY DEF ServerInv, ServerTypeOK
<1>2. Head(commands) = a /\ a \in Asking
  BY <1>1, TailFacts DEF HubReads
<1>3. /\ linked /\ commands # <<>> /\ ~asked /\ asked' = TRUE /\ a.kind = "state" /\ held' = {e}
      /\ UNCHANGED <<members, deleted, channels, caller, departing, stale, linked, commands, frames, syncs,
                     started, servers, selectedServer, shown, dms, choice, spoilt, lateVoice, errors>>
  BY <1>2 DEF HubReads, listVars, noteVars, limitVars
<1>4. \A i \in DOMAIN frames : frames[i].kind # "answer"
  BY <1>1, <1>3 DEF LinkRight
<1>5. /\ e \in StateAnswer /\ (\A c \in e.chans \union e.voice : Home(c) = a.of) /\ e.voice \subseteq {caller}
      /\ \A s \in Servers : a.of = s /\ Voice(s) \in channels => (Voice(s) \in Snapshot(e) <=> caller = Voice(s))
  <2> DEFINE owned == {c \in channels : Home(c) = a.of}
  <2>1. e = [kind |-> "answer", ok |-> TRUE, chans |-> owned, voice |-> {caller} \intersect owned]
    BY <1>3 DEF Answer
  <2>2. owned \subseteq Chans /\ {caller} \intersect owned \subseteq Chans
    BY <1>1 DEF ServerTypeOK
  <2>3. \A s \in Servers : a.of = s /\ Voice(s) \in channels => Voice(s) \in owned
    BY ServerNumbers
  <2>4. \A c \in owned : Home(c) = a.of
    OBVIOUS
  <2> HIDE DEF owned, e
  <2>5. e \in StateAnswer
    BY <2>1, <2>2 DEF StateAnswer
  <2> QED
    BY <2>1, <2>3, <2>4, <2>5 DEF Snapshot
<1> HIDE DEF e
<1>6. ServerTypeOK' /\ SyncsRight' /\ ChoiceRight' /\ TalkRight' /\ Known' = Known
  BY <1>1, <1>3 DEF ServerInv, ServerTypeOK, SyncsRight, ChoiceRight, TalkRight, Known
<1>7. LinkRight' /\ HubRight'
  BY <1>1, <1>3, <1>4, <1>5 DEF LinkRight, HubRight
<1>8. ASSUME NEW s \in Servers PROVE VoiceRight(s)'
  <2> SUFFICES ASSUME s \in members, Voice(s) \in channels \ departing
               PROVE  ShownRight(s)' /\ SyncedRight(s)' /\ AnsweredRight(s)' /\ HeldRight(s)'
    BY <1>3 DEF VoiceRight
  <2>1. ShownRight(s) /\ SyncedRight(s)
    BY DEF ServerInv, VoiceRight
  <2>2. ShownRight(s)' /\ SyncedRight(s)'
    BY <1>3, <2>1 DEF ShownRight, SyncedRight
  <2>3. AnsweredRight(s)'
    BY <1>3, <1>4 DEF AnsweredRight, StateOf
  <2>4. HeldRight(s)'
    BY <1>3, <1>5 DEF HeldRight
  <2> QED
    BY <2>2, <2>3, <2>4
<1>9. NewRight'
  <2>1. MakesRight(commands') /\ New' = New /\ (ToMake' => ToMake)
    BY <1>3, <1>6 DEF ServerInv, NewRight, New, ToMake
  <2>2. Untouched => Untouched'
    BY <1>3, <1>4, <1>5 DEF Untouched, StateOf
  <2> QED
    BY <2>1, <2>2 DEF ServerInv, NewRight
<1> QED
  BY <1>6, <1>7, <1>8, <1>9 DEF ServerInv

LEMMA StepHubPushes == ServerInv /\ HubPushes => ServerInv'
<1> SUFFICES ASSUME ServerInv, HubPushes PROVE ServerInv'
  OBVIOUS
<1>1. PICK e \in held : frames' = Append(frames, e)
  BY DEF HubPushes
<1>2. /\ held' = {}
      /\ UNCHANGED <<members, deleted, channels, caller, departing, stale, linked, commands, asked, syncs,
                     started, servers, selectedServer, shown, dms, choice, spoilt, lateVoice, errors>>
  BY DEF HubPushes, listVars, noteVars, limitVars
<1>3. ServerTypeOK /\ frames \in Seq(Incoming) /\ LinkRight /\ HubRight
  BY DEF ServerInv, ServerTypeOK
<1>4. /\ linked /\ asked /\ commands # <<>> /\ commands[1].kind = "state"
      /\ \A i \in DOMAIN frames : frames[i].kind # "answer"
      /\ e \in StateAnswer /\ \A c \in e.chans \union e.voice : Home(c) = commands[1].of
  BY <1>3 DEF HubRight
<1>5. e \in Incoming /\ e.kind = "answer" /\ e.ok
  BY <1>4 DEF StateAnswer, Incoming
<1>6. frames' \in Seq(Incoming)
  BY <1>1, <1>3, <1>5, AppendFacts
<1>7. ServerTypeOK' /\ SyncsRight' /\ ChoiceRight' /\ TalkRight' /\ Known' = Known
  BY <1>2, <1>3, <1>6 DEF ServerInv, ServerTypeOK, SyncsRight, ChoiceRight, TalkRight, Known
<1>8. LinkRight' /\ HubRight'
  <2>1. AnswerRight(e, commands[1], Known', errors')
    BY <1>4, <1>5 DEF AnswerRight
  <2>2. HubRight'
    BY <1>2 DEF HubRight
  <2>3. asked' = TRUE
    BY <1>2, <1>3, <1>4 DEF ServerTypeOK
  <2> QED
    BY <1>1, <1>2, <1>3, <1>4, <1>5, <2>1, <2>2, <2>3, LinkSaid
<1>9. \A d : ~Word(e, d)
  BY <1>5 DEF Word
<1>10. PICK n \in Nat : n = Len(frames) + 1
  BY <1>3
<1>11. frames'[n] = e
  BY <1>1, <1>3, <1>5, <1>10, AppendFacts
<1>12. ASSUME NEW s \in Servers PROVE VoiceRight(s)'
  <2>1. VoiceRight(s) /\ stale' \in Nat /\ stale' >= stale /\ held' \subseteq held
    BY <1>2, <1>3 DEF ServerInv, ServerTypeOK
  <2>2. VoiceRight(s) /\ s \in members' /\ Voice(s) \in channels' \ departing'
            /\ StateOf(n, s)' /\ commands[1].job > stale' =>
               (Voice(s) \in Snapshot(e) <=> caller = Voice(s))
    BY <1>2 DEF VoiceRight, HeldRight, StateOf
  <2> QED
    BY <1>1, <1>2, <1>3, <1>5, <1>9, <1>10, <2>1, <2>2, VoiceWith
<1>13. NewRight'
  <2>1. MakesRight(commands') /\ New' = New /\ (ToMake' => ToMake)
    BY <1>2, <1>7 DEF ServerInv, NewRight, New, ToMake
  <2>2. Untouched => Untouched'
    <3> SUFFICES ASSUME Untouched PROVE Untouched'
      OBVIOUS
    <3>1. /\ Voice(2) \notin channels' /\ caller' # Voice(2) /\ Voice(2) \notin departing'
          /\ held' \subseteq held /\ Voice(2) \notin e.voice
      BY <1>2 DEF Untouched
    <3> QED
      BY <1>1, <1>2, <1>3, <1>5, <1>9, <1>10, <3>1, UntouchedWith
  <2> QED
    BY <2>1, <2>2 DEF ServerInv, NewRight
<1> QED
  BY <1>7, <1>8, <1>12, <1>13 DEF ServerInv

(* The steps of events.                                                    *)
LEMMA AnEventIsTaken ==
  ASSUME ServerInv, NEW kind, NEW c, Event(kind, c)
  PROVE  /\ frames # <<>> /\ frames[1].kind = kind /\ frames[1].of = c /\ frames' = Tail(frames)
         /\ frames' \in Seq(Incoming) /\ 1 \in DOMAIN frames
         /\ \A d : Word(frames[1], d) <=> kind \in {"joined", "left"} /\ c = d
<1>1. frames \in Seq(Incoming) /\ frames # <<>>
  BY DEF ServerInv, ServerTypeOK, Event
<1>2. Head(frames) = frames[1] /\ Tail(frames) \in Seq(Incoming) /\ 1 \in DOMAIN frames
  BY <1>1, TailFacts
<1> QED
  BY <1>1, <1>2 DEF Event, Word

LEMMA StepMessageArrives ==
  ASSUME ServerInv, NEW c, MessageArrives(c)
  PROVE  ServerInv'
<1>1. /\ Event("message", c)
      /\ UNCHANGED <<members, deleted, channels, callVars, linked, commands, asked, syncs, started,
                     servers, selectedServer, shown, dms, choice, spoilt, lateVoice, errors>>
  BY DEF MessageArrives, hubVars, callVars, noteVars, limitVars
<1>2. /\ frames # <<>> /\ frames' = Tail(frames) /\ frames' \in Seq(Incoming)
      /\ \A d : ~Word(frames[1], d)
  BY <1>1, AnEventIsTaken
<1>3. ServerTypeOK /\ LinkRight /\ frames \in Seq(Incoming)
  BY DEF ServerInv, ServerTypeOK
<1>4. ServerTypeOK' /\ SyncsRight' /\ ChoiceRight' /\ TalkRight' /\ Known' = Known
  BY <1>1, <1>2, <1>3 DEF ServerInv, ServerTypeOK, SyncsRight, ChoiceRight, TalkRight, Known
<1>5. LinkRight' /\ HubRight'
  BY <1>1, <1>2, <1>3, <1>4, LinkEvent, HubHeard DEF ServerInv
<1>6. \A j \in 1..MaxSyncs : Follows(syncs'[j], syncs[j])
  BY <1>1 DEF Follows
<1>7. \A s \in Servers : VoiceRight(s)'
  BY <1>1, <1>2, <1>3, <1>6, VoiceRest DEF ServerInv
<1>8. Untouched => Untouched'
  <2> SUFFICES ASSUME Untouched PROVE Untouched'
    OBVIOUS
  <2>1. Voice(2) \notin shown' /\ \A j \in 1..MaxSyncs : syncs'[j].on => Voice(2) \notin syncs'[j].voice
    BY <1>1 DEF Untouched
  <2> QED
    BY <1>1, <1>2, <1>3, <2>1, UntouchedRest
<1>9. New' = New /\ (ToMake' => ToMake)
  BY <1>1, <1>4 DEF New, ToMake
<1>10. NewRight'
  BY <1>1, <1>8, <1>9 DEF ServerInv, NewRight
<1> QED
  BY <1>4, <1>5, <1>7, <1>10 DEF ServerInv

LEMMA StepVoiceArrives ==
  ASSUME ServerInv, NEW t \in Servers, NEW c \in {Text(t), Voice(t)}, VoiceArrives(c)
  PROVE  ServerInv'
<1>1. /\ syncs' = [j \in 1..MaxSyncs |-> [syncs[j] EXCEPT !.late = @ \/ syncs[j].got # {}]]
      /\ UNCHANGED <<members, deleted, channels, callVars, linked, commands, asked, started,
                     servers, selectedServer, dms, choice, spoilt, lateVoice, errors>>
  BY DEF VoiceArrives, hubVars, callVars, noteVars, limitVars
<1>2. PICK kind \in {"joined", "left"} : /\ Event(kind, c)
                                         /\ shown' = IF kind = "joined" THEN shown \union {c} ELSE shown \ {c}
  BY DEF VoiceArrives
<1>3. /\ frames # <<>> /\ frames' = Tail(frames) /\ frames' \in Seq(Incoming)
      /\ frames[1].kind = kind /\ \A d : Word(frames[1], d) <=> c = d
  BY <1>2, AnEventIsTaken
<1>4. ServerTypeOK /\ LinkRight /\ frames \in Seq(Incoming) /\ syncs \in [1..MaxSyncs -> Sync]
  BY DEF ServerInv, ServerTypeOK
<1>5. ASSUME NEW j \in 1..MaxSyncs
      PROVE  /\ syncs'[j].on = syncs[j].on /\ syncs'[j].list = syncs[j].list
             /\ syncs'[j].got = syncs[j].got /\ syncs'[j].chans = syncs[j].chans
             /\ syncs'[j].voice = syncs[j].voice /\ syncs'[j].prefers = syncs[j].prefers
             /\ syncs'[j].late = (syncs[j].late \/ syncs[j].got # {})
             /\ syncs'[j] \in Sync
  <2>1. syncs[j] \in Sync /\ syncs'[j] = [syncs[j] EXCEPT !.late = @ \/ syncs[j].got # {}]
    BY <1>1, <1>4
  <2> QED
    BY <2>1 DEF Sync
<1>6. syncs' \in [1..MaxSyncs -> Sync]
  BY <1>1, <1>5
<1>7. ServerTypeOK' /\ Known' = Known
  BY <1>1, <1>3, <1>4, <1>6 DEF ServerTypeOK, Known
<1>8. LinkRight' /\ HubRight'
  BY <1>1, <1>3, <1>4, <1>7, LinkEvent, HubHeard DEF ServerInv
<1>9. SyncsRight' /\ ChoiceRight' /\ TalkRight'
  <2>1. Kept(commands, syncs', started, Known)
    BY <1>5, KeptLate DEF ServerInv, SyncsRight
  <2>2. SyncsRight'
    BY <1>1, <1>7, <2>1 DEF SyncsRight
  <2>3. \A j \in 1..MaxSyncs : Wants(syncs'[j]) = Wants(syncs[j]) /\ syncs'[j].prefers = syncs[j].prefers
    BY <1>5 DEF Wants
  <2>4. ChoiceRight' /\ TalkRight'
    BY <1>1, <2>3 DEF ServerInv, ChoiceRight, TalkRight
  <2> QED
    BY <2>2, <2>4
<1>10. \A j \in 1..MaxSyncs : Follows(syncs'[j], syncs[j])
  BY <1>5 DEF Follows
<1>11. ASSUME NEW s \in Servers, Voice(s) # c PROVE VoiceRight(s)'
  <2>1. Voice(s) \in shown' <=> Voice(s) \in shown
    BY <1>2, <1>11
  <2>2. ~Word(frames[1], Voice(s)) /\ VoiceRight(s)
    BY <1>3, <1>11 DEF ServerInv
  <2> QED
    BY <1>1, <1>3, <1>4, <1>10, <2>1, <2>2, VoiceRest
<1>12. ASSUME NEW s \in Servers, Voice(s) = c PROVE VoiceRight(s)'
  <2> SUFFICES ASSUME s \in members, Voice(s) \in channels \ departing
               PROVE  ShownRight(s)' /\ SyncedRight(s)' /\ AnsweredRight(s)' /\ HeldRight(s)'
    BY <1>1 DEF VoiceRight
  <2>1. ShownRight(s) /\ AnsweredRight(s) /\ HeldRight(s)
    BY DEF ServerInv, VoiceRight
  <2>2. \A base \in BOOLEAN : EndsIn(frames', 0, Voice(s), kind = "joined") <=> EndsIn(frames, 0, Voice(s), base)
    <3> SUFFICES ASSUME NEW base \in BOOLEAN
                 PROVE  EndsIn(frames', 0, Voice(s), kind = "joined") <=> EndsIn(frames, 0, Voice(s), base)
      OBVIOUS
    <3>1. EndsIn(Tail(frames), 0, Voice(s), kind = "joined") <=> EndsIn(frames, 0 + 1, Voice(s), kind = "joined")
      <4>1. (kind = "joined") \in BOOLEAN
        OBVIOUS
      <4> QED
        BY <1>3, <1>4, <4>1, EndsRest
    <3>2. EndsIn(frames, 0, Voice(s), base) <=> EndsIn(frames, 1, Voice(s), frames[1].kind = "joined")
      BY <1>3, <1>4, <1>12, EndsFirst
    <3>3. 0 + 1 = 1
      OBVIOUS
    <3> QED
      BY <1>3, <3>1, <3>2, <3>3
  <2>3. ShownRight(s)'
    <3>1. (Voice(s) \in shown) \in BOOLEAN /\ (Voice(s) \in shown') = (kind = "joined")
      BY <1>2, <1>12
    <3>2. EndsIn(frames', 0, Voice(s), Voice(s) \in shown') <=> EndsIn(frames, 0, Voice(s), Voice(s) \in shown)
      BY <2>2, <3>1
    <3> QED
      BY <1>1, <2>1, <3>2 DEF ShownRight
  <2>4. SyncedRight(s)'
    <3>1. \A j \in 1..MaxSyncs : ~syncs'[j].late => s \notin syncs'[j].got
      BY <1>5
    <3> QED
      BY <3>1 DEF SyncedRight
  <2>5. AnsweredRight(s)'
    <3> SUFFICES ASSUME NEW i \in DOMAIN frames', StateOf(i, s)', commands[1].job > stale
                 PROVE  EndsIn(frames', i, Voice(s), Voice(s) \in Snapshot(frames'[i])) <=> caller = Voice(s)
      BY <1>1 DEF AnsweredRight
    <3>1. i \in Nat /\ i + 1 \in DOMAIN frames /\ frames'[i] = frames[i + 1]
      BY <1>3, <1>4, TailFacts
    <3>2. StateOf(i + 1, s)
      BY <1>1, <3>1 DEF StateOf
    <3>3. EndsIn(frames, i + 1, Voice(s), Voice(s) \in Snapshot(frames[i + 1])) <=> caller = Voice(s)
      BY <2>1, <3>1, <3>2 DEF AnsweredRight
    <3>4. (Voice(s) \in Snapshot(frames[i + 1])) \in BOOLEAN
      OBVIOUS
    <3>5. EndsIn(Tail(frames), i, Voice(s), Voice(s) \in Snapshot(frames[i + 1]))
            <=> EndsIn(frames, i + 1, Voice(s), Voice(s) \in Snapshot(frames[i + 1]))
      BY <1>3, <1>4, <3>1, <3>4, EndsRest
    <3> QED
      BY <1>3, <3>1, <3>3, <3>5
  <2>6. HeldRight(s)'
    BY <1>1, <2>1 DEF HeldRight
  <2> QED
    BY <2>3, <2>4, <2>5, <2>6
<1>13. Untouched => Untouched'
  <2> SUFFICES ASSUME Untouched PROVE Untouched'
    OBVIOUS
  <2>1. c # Voice(2)
    <3>1. 1 \in DOMAIN frames
      BY <1>3, <1>4, TailFacts
    <3> QED
      BY <1>3, <3>1 DEF Untouched
  <2>2. Voice(2) \notin shown' /\ \A j \in 1..MaxSyncs : syncs'[j].on => Voice(2) \notin syncs'[j].voice
    BY <1>2, <1>5, <2>1 DEF Untouched
  <2> QED
    BY <1>1, <1>3, <1>4, <2>2, UntouchedRest
<1>14. New' = New /\ (ToMake' => ToMake)
  BY <1>1, <1>7 DEF New, ToMake
<1>15. NewRight'
  BY <1>1, <1>13, <1>14 DEF ServerInv, NewRight
<1> QED
  BY <1>7, <1>8, <1>9, <1>11, <1>12, <1>15 DEF ServerInv

(* The steps of answers.                                                   *)
LEMMA AnAnswerIsTaken ==
  ASSUME ServerInv, frames # <<>>, Head(frames).kind = "answer", frames' = Tail(frames), asked' = FALSE,
         linked' = linked
  PROVE  /\ frames[1] = Head(frames) /\ frames[1].kind = "answer" /\ frames' \in Seq(Incoming)
         /\ 1 \in DOMAIN frames /\ linked /\ asked /\ commands \in Seq(Asking) /\ commands # <<>>
         /\ Head(commands) = commands[1] /\ commands[1] \in Asking /\ 1 \in DOMAIN commands
         /\ Tail(commands) \in Seq(Asking) /\ Fits(commands[1])
         /\ AnswerRight(frames[1], commands[1], Known, errors)
         /\ \A i \in DOMAIN frames' : frames'[i].kind # "answer"
         /\ LinkRight' /\ held = {}
<1>1. ServerTypeOK /\ LinkRight /\ frames \in Seq(Incoming) /\ commands \in Seq(Asking)
  BY DEF ServerInv, ServerTypeOK
<1>2. Head(frames) = frames[1] /\ Tail(frames) \in Seq(Incoming) /\ 1 \in DOMAIN frames
  BY <1>1, TailFacts
<1>3. /\ LinkRight' /\ linked /\ asked /\ commands # <<>>
      /\ AnswerRight(frames[1], commands[1], Known, errors)
      /\ \A i \in DOMAIN frames' : frames'[i].kind # "answer"
  BY <1>1, <1>2, LinkTaken
<1>4. /\ Head(commands) = commands[1] /\ commands[1] \in Asking /\ 1 \in DOMAIN commands
      /\ Tail(commands) \in Seq(Asking)
  BY <1>1, <1>3, TailFacts
<1>5. Fits(commands[1])
  BY <1>4 DEF ServerInv, NewRight, MakesRight
<1>6. held = {}
  BY <1>1, <1>2, NothingHeld DEF ServerInv
<1> QED
  BY <1>1, <1>2, <1>3, <1>4, <1>5, <1>6

(* What is being made behind the first command still is.                   *)
LEMMA StillMade ==
  ASSUME ServerInv, commands # <<>>
  PROVE  /\ MakesRight(Tail(commands)) /\ (MakesIn(Tail(commands)) => ToMake)
         /\ (Makes(commands[1]) => ~MakesIn(Tail(commands)))
<1>1. commands \in Seq(Asking) /\ MakesRight(commands)
  BY DEF ServerInv, ServerTypeOK, NewRight
<1>2. MakesIn(Tail(commands)) => \E i \in DOMAIN commands : Makes(commands[i]) /\ i # 1
  BY <1>1, MakesRest
<1>3. MakesIn(Tail(commands)) => ToMake
  BY <1>2 DEF ToMake
<1> QED
  BY <1>1, <1>3, MakesRest

LEMMA StepConversationsArrive == ServerInv /\ ConversationsArrive => ServerInv'
<1> SUFFICES ASSUME ServerInv, ConversationsArrive PROVE ServerInv'
  OBVIOUS
<1>1. /\ frames # <<>> /\ Head(frames).kind = "answer" /\ frames' = Tail(frames) /\ asked' = FALSE
      /\ Head(commands).kind = "dms" /\ commands' = Tail(commands) /\ dms' = {TheDM}
      /\ UNCHANGED <<members, deleted, channels, callVars, linked, syncs, started,
                     servers, selectedServer, shown, choice, spoilt, lateVoice, errors>>
  BY DEF ConversationsArrive, Answered, hubVars, callVars, noteVars, limitVars
<1>2. /\ frames[1].kind = "answer" /\ frames' \in Seq(Incoming) /\ commands \in Seq(Asking)
      /\ commands # <<>> /\ Head(commands) = commands[1] /\ Tail(commands) \in Seq(Asking)
  BY <1>1, AnAnswerIsTaken
<1>3. /\ \A j \in 1..MaxSyncs : Follows(syncs'[j], syncs[j])
      /\ \A j \in 1..MaxSyncs : syncs'[j].on =>
            syncs'[j].voice = {} \/ (syncs[j].on /\ syncs'[j].voice = syncs[j].voice)
  BY <1>1 DEF Follows
<1>4. MakesRight(commands') /\ (MakesIn(commands') => ToMake)
  BY <1>1, <1>2, StillMade
<1>5. LinkRight' /\ HubRight' /\ (\A s \in Servers : VoiceRight(s)') /\ NewRight'
  BY <1>1, <1>2, <1>3, <1>4, AnswerTaken
<1>6. ServerTypeOK' /\ Known' = Known
  BY <1>1, <1>2 DEF ServerInv, ServerTypeOK, Known
<1>7. SyncsRight'
  <2>1. Kept(commands, syncs, started, Known) /\ started \in Nat
    BY DEF ServerInv, SyncsRight, ServerTypeOK
  <2>2. Kept(Tail(commands), syncs, started, Known)
    BY <1>1, <1>2, <2>1, KeptRest
  <2> QED
    BY <1>1, <1>6, <2>2 DEF SyncsRight
<1>8. ChoiceRight' /\ TalkRight'
  BY <1>1 DEF ServerInv, ChoiceRight, TalkRight
<1> QED
  BY <1>5, <1>6, <1>7, <1>8 DEF ServerInv

(* Behind a command that is answered, the conversations are still first.   *)
LEMMA TalkStays ==
  ASSUME ServerInv, linked, commands # <<>>, commands[1].kind # "dms",
         errors' = errors, dms' = dms, linked' = linked,
         commands' = Tail(commands) \/ (\E a \in Asking : commands' = Append(Tail(commands), a))
         \/ (\E t \in Seq(Asking) : commands' = Tail(commands) \o t)
  PROVE  TalkRight'
<1>1. commands \in Seq(Asking) /\ Tail(commands) \in Seq(Asking)
  BY TailFacts DEF ServerInv, ServerTypeOK
<1>2. SUFFICES ASSUME errors = 0, TheDM \notin dms PROVE AsksDMsFirst(commands')
  BY DEF TalkRight
<1>3. AsksDMsFirst(Tail(commands))
  BY <1>1, <1>2, TalkRest DEF ServerInv, TalkRight
<1> QED
  BY <1>1, <1>3, TalkWith, TalkJoined

LEMMA StepRefused == ServerInv /\ Refused => ServerInv'
<1> SUFFICES ASSUME ServerInv, Refused PROVE ServerInv'
  OBVIOUS
<1> DEFINE job == Head(commands).job
<1>1. /\ frames # <<>> /\ Head(frames).kind = "answer" /\ frames' = Tail(frames) /\ asked' = FALSE
      /\ ~Head(frames).ok /\ commands' = Tail(commands) /\ spoilt' = TRUE
      /\ syncs' = [j \in 1..MaxSyncs |-> IF j = job THEN NoSync ELSE syncs[j]]
      /\ UNCHANGED <<members, deleted, channels, callVars, linked, started,
                     servers, selectedServer, shown, dms, choice, lateVoice, errors>>
  BY DEF Refused, hubVars, callVars, listVars, limitVars
<1>2. /\ frames[1].kind = "answer" /\ frames' \in Seq(Incoming) /\ commands \in Seq(Asking)
      /\ commands # <<>> /\ Head(commands) = commands[1] /\ Tail(commands) \in Seq(Asking)
      /\ linked /\ AnswerRight(frames[1], commands[1], Known, errors) /\ frames[1] = Head(frames)
  BY <1>1, AnAnswerIsTaken
<1>3. /\ syncs \in [1..MaxSyncs -> Sync] /\ NoSync \in Sync /\ ~NoSync.on
  BY DEF ServerInv, ServerTypeOK, NoSync, Sync
<1>4. \A j \in 1..MaxSyncs : syncs'[j] = syncs[j] \/ ~syncs'[j].on
  BY <1>1, <1>3
<1>5. /\ \A j \in 1..MaxSyncs : Follows(syncs'[j], syncs[j])
      /\ \A j \in 1..MaxSyncs : syncs'[j].on =>
            syncs'[j].voice = {} \/ (syncs[j].on /\ syncs'[j].voice = syncs[j].voice)
  BY <1>4 DEF Follows
<1>6. MakesRight(commands') /\ (MakesIn(commands') => ToMake)
  BY <1>1, <1>2, StillMade
<1>7. LinkRight' /\ HubRight' /\ (\A s \in Servers : VoiceRight(s)') /\ NewRight'
  BY <1>1, <1>2, <1>5, <1>6, AnswerTaken
<1>8. ServerTypeOK' /\ Known' = Known
  <2>1. syncs' \in [1..MaxSyncs -> Sync]
    BY <1>1, <1>3
  <2> QED
    BY <1>1, <1>2, <2>1 DEF ServerInv, ServerTypeOK, Known
<1>9. SyncsRight'
  <2>1. Kept(commands, syncs, started, Known) /\ started \in Nat
    BY DEF ServerInv, SyncsRight, ServerTypeOK
  <2>2. \A j \in 1..MaxSyncs : commands[1].kind \in {"servers", "state"} /\ commands[1].job = j => ~syncs'[j].on
    BY <1>1, <1>2, <1>3
  <2>3. Kept(Tail(commands), syncs', started, Known)
    BY <1>2, <1>4, <2>1, <2>2, KeptRest
  <2> QED
    BY <1>1, <1>8, <2>3 DEF SyncsRight
<1>10. ChoiceRight'
  BY <1>1 DEF ChoiceRight
<1>11. TalkRight'
  <2>1. CASE commands[1].kind = "dms"
    <3>1. errors > 0 /\ errors \in Nat
      BY <1>1, <1>2, <2>1 DEF AnswerRight, ServerInv, ServerTypeOK
    <3> QED
      BY <1>1, <3>1 DEF TalkRight
  <2>2. CASE commands[1].kind # "dms"
    BY <1>1, <1>2, <2>2, TalkStays
  <2> QED
    BY <2>1, <2>2
<1> QED
  BY <1>7, <1>8, <1>9, <1>10, <1>11 DEF ServerInv

(* An edit is answered: more of the new server is asked for, or a sync.    *)
LEMMA StepEditAnswered ==
  ASSUME ServerInv, NEW kind \in EditKinds, NEW of \in Nat, EditAnswered(kind, of)
  PROVE  ServerInv'
<1> DEFINE rest == Tail(commands)
<1>1. /\ frames # <<>> /\ Head(frames).kind = "answer" /\ frames' = Tail(frames) /\ asked' = FALSE
      /\ Head(commands).kind = kind /\ Head(commands).of = of
      /\ UNCHANGED <<members, deleted, channels, callVars, linked, servers, selectedServer, shown, dms,
                     lateVoice, errors>>
  BY DEF EditAnswered, Answered, hubVars, callVars, listVars, limitVars
<1>2. /\ frames[1].kind = "answer" /\ frames' \in Seq(Incoming) /\ commands \in Seq(Asking)
      /\ commands # <<>> /\ Head(commands) = commands[1] /\ rest \in Seq(Asking) /\ 1 \in DOMAIN commands
      /\ linked /\ Fits(commands[1])
  BY <1>1, AnAnswerIsTaken
<1>3. kind \notin {"servers", "state", "dms"} /\ commands[1].kind = kind /\ commands[1].of = of
  BY <1>1, <1>2 DEF EditKinds
<1>4. /\ Kept(commands, syncs, started, Known) /\ started \in Nat /\ ServerTypeOK /\ Known' = Known
      /\ SyncsRight /\ ChoiceRight
  BY <1>1 DEF ServerInv, SyncsRight, ServerTypeOK, Known
<1>5. Kept(rest, syncs, started, Known)
  BY <1>2, <1>3, <1>4, KeptRest
<1>6. MakesRight(rest) /\ (MakesIn(rest) => ToMake) /\ (Makes(commands[1]) => ~MakesIn(rest))
  BY <1>2, StillMade
<1> HIDE DEF rest
<1>7. CASE kind \in {"create", "main"}
  <2>1. PICK a \in Asking : /\ commands' = Append(rest, a) /\ a.kind \in {"main", "voice"} /\ Fits(a)
                            /\ UNCHANGED <<syncs, started, choice, spoilt>>
    <3>1. CASE kind = "create"
      <4>1. of = 2 /\ Text(of) \in Nat /\ 0 \in Nat
        BY <1>2, <1>3, <3>1 DEF Fits, Text
      <4> DEFINE a == Ask("main", 0, Text(of))
      <4>2. a \in Asking /\ a.kind = "main" /\ Fits(a)
        BY <4>1 DEF Ask, Asking, EditKinds, Fits
      <4>3. commands' = Append(rest, a) /\ UNCHANGED <<syncs, started, choice, spoilt>>
        BY <3>1 DEF EditAnswered, rest
      <4> HIDE DEF a
      <4> QED
        BY <4>2, <4>3
    <3>2. CASE kind = "main"
      <4>0. of = 21
        BY <1>2, <1>3, <3>2, ServerNumbers DEF Fits
      <4>1. Home(of) = 2 /\ Voice(Home(of)) \in Nat /\ 0 \in Nat
        BY <4>0, ServerNumbers
      <4> DEFINE a == Ask("voice", 0, Voice(Home(of)))
      <4>2. a \in Asking /\ a.kind = "voice" /\ Fits(a)
        BY <4>1 DEF Ask, Asking, EditKinds, Fits
      <4>3. commands' = Append(rest, a) /\ UNCHANGED <<syncs, started, choice, spoilt>>
        BY <3>2 DEF EditAnswered, rest
      <4> HIDE DEF a
      <4> QED
        BY <4>2, <4>3
    <3> QED
      BY <1>7, <3>1, <3>2
  <2>2. commands' \in Seq(Asking)
    BY <1>2, <2>1, FirstStays
  <2>3. Makes(commands[1]) /\ commands[1].kind # "voice" /\ ~MakesIn(rest)
    BY <1>3, <1>6, <1>7 DEF Makes
  <2>4. ToMake
    BY <1>2, <2>3 DEF ToMake
  <2>5. MakesRight(commands')
    BY <1>2, <1>6, <2>1, <2>3, MakesWith
  <2>6. /\ \A j \in 1..MaxSyncs : Follows(syncs'[j], syncs[j])
        /\ \A j \in 1..MaxSyncs : syncs'[j].on =>
            syncs'[j].voice = {} \/ (syncs[j].on /\ syncs'[j].voice = syncs[j].voice)
    BY <2>1 DEF Follows
  <2>7. LinkRight' /\ HubRight' /\ (\A s \in Servers : VoiceRight(s)') /\ NewRight'
    BY <1>1, <1>2, <2>4, <2>5, <2>6, AnswerTaken
  <2>8. ServerTypeOK'
    BY <1>1, <1>2, <1>4, <2>1, <2>2 DEF ServerTypeOK
  <2>9. SyncsRight'
    <3>1. Kept(commands', syncs, started, Known)
      BY <1>2, <1>4, <1>5, <2>1, KeptWith
    <3> QED
      BY <1>4, <2>1, <3>1 DEF SyncsRight
  <2>10. ChoiceRight'
    BY <1>1, <2>1 DEF ServerInv, ChoiceRight
  <2>11. TalkRight'
    BY <1>1, <1>2, <1>3, <2>1, TalkStays DEF rest
  <2> QED
    BY <2>7, <2>8, <2>9, <2>10, <2>11 DEF ServerInv
<1>8. CASE kind \notin {"create", "main"}
  <2>1. PICK p \in Nat : StartSync(p, rest)
    <3>1. of \in Nat /\ 0 \in Nat /\ Home(of) \in Nat
      BY ServerNumbers
    <3>2. StartSync(of, rest) \/ StartSync(0, rest) \/ StartSync(Home(of), rest)
      BY <1>8 DEF EditAnswered, rest
    <3> QED
      BY <3>1, <3>2
  <2>2. Begun(rest) /\ ChoiceRight'
    BY <1>1, <1>2, <1>4, <1>5, <2>1, SyncBegins
  <2>3. PICK a \in Asking : a.kind = "servers" /\ commands' = Append(rest, a)
    BY <2>2 DEF Begun
  <2>4. ~Makes(a) /\ Fits(a)
    BY <2>3 DEF Makes, Fits
  <2>5. commands' \in Seq(Asking)
    BY <1>2, <2>3, FirstStays
  <2>6. MakesRight(commands') /\ (MakesIn(commands') => ToMake)
    BY <1>2, <1>6, <2>3, <2>4, MakesWith
  <2>7. /\ \A j \in 1..MaxSyncs : Follows(syncs'[j], syncs[j])
        /\ \A j \in 1..MaxSyncs : syncs'[j].on =>
            syncs'[j].voice = {} \/ (syncs[j].on /\ syncs'[j].voice = syncs[j].voice)
    BY <2>2 DEF Begun
  <2>8. LinkRight' /\ HubRight' /\ (\A s \in Servers : VoiceRight(s)') /\ NewRight'
    BY <1>1, <1>2, <2>6, <2>7, AnswerTaken
  <2>9. ServerTypeOK'
    <3>1. stale' \in Nat /\ stale' <= started'
      BY <1>1, <1>4, <2>2 DEF ServerTypeOK, Begun
    <3> QED
      BY <1>1, <1>2, <1>4, <2>2, <2>5, <3>1 DEF ServerTypeOK, Begun
  <2>10. SyncsRight'
    BY <1>4, <2>2 DEF SyncsRight, Begun
  <2>11. TalkRight'
    BY <1>1, <1>2, <1>3, <2>3, TalkStays DEF rest
  <2> QED
    BY <2>2, <2>8, <2>9, <2>10, <2>11 DEF ServerInv
<1> QED
  BY <1>7, <1>8

(* The servers come: none, and all is emptied; some, and the sync asks on. *)
LEMMA StepServersArrive == ServerInv /\ ServersArrive => ServerInv'
<1> SUFFICES ASSUME ServerInv, ServersArrive PROVE ServerInv'
  OBVIOUS
<1> DEFINE job == Head(commands).job  list == Head(frames).servers
<1>1. /\ frames # <<>> /\ Head(frames).kind = "answer" /\ Head(frames).ok /\ frames' = Tail(frames)
      /\ asked' = FALSE /\ Head(commands).kind = "servers"
      /\ UNCHANGED <<members, deleted, channels, callVars, linked, started, dms, spoilt, errors>>
  BY DEF ServersArrive, Answered, hubVars, callVars, limitVars
<1>2. /\ frames[1].kind = "answer" /\ frames' \in Seq(Incoming) /\ commands \in Seq(Asking)
      /\ commands # <<>> /\ Head(commands) = commands[1] /\ Tail(commands) \in Seq(Asking)
      /\ linked /\ AnswerRight(frames[1], commands[1], Known, errors) /\ frames[1] = Head(frames)
      /\ 1 \in DOMAIN commands /\ held = {}
  BY <1>1, AnAnswerIsTaken
<1>3. list \in SUBSET Servers /\ list \subseteq Known
  <2>1. frames[1] \in ServersAnswer /\ frames[1].servers \subseteq Known
    BY <1>1, <1>2 DEF AnswerRight
  <2> QED
    BY <1>2, <2>1 DEF ServersAnswer
<1>4. /\ Kept(commands, syncs, started, Known) /\ started \in 1..MaxSyncs /\ started \in Nat
      /\ ServerTypeOK /\ syncs \in [1..MaxSyncs -> Sync]
  BY DEF ServerInv, SyncsRight, ServerTypeOK
<1>5. job \in 1..MaxSyncs /\ job = commands[1].job /\ job \in Nat
  <2>1. job \in 1..started
    BY <1>1, <1>2, <1>4 DEF Kept, InOrder
  <2> QED
    BY <1>2, <1>4, <2>1, ServerAssumption
<1>6. Known' = Known
  BY <1>1 DEF Known
<1>7. TalkRight'
  <2>1. /\ commands' = Tail(commands) \/ \E t \in Seq(Asking) : commands' = Tail(commands) \o t
        /\ commands[1].kind # "dms"
    <3>1. StatesFor(job, list) \in Seq(Asking)
      BY <1>3, <1>5, StatesAsked
    <3>2. commands' = Tail(commands) \/ commands' = Tail(commands) \o StatesFor(job, list)
      BY DEF ServersArrive, StatesFor
    <3> QED
      BY <1>1, <1>2, <3>1, <3>2
  <2> QED
    BY <1>1, <1>2, <2>1, TalkStays
<1>8. /\ MakesRight(Tail(commands)) /\ (MakesIn(Tail(commands)) => ToMake)
  BY <1>2, StillMade
<1> HIDE DEF job, list
<1>9. CASE list = {}
  <2>1. /\ servers' = {} /\ shown' = {} /\ selectedServer' = 0 /\ syncs' = [syncs EXCEPT ![job] = NoSync]
        /\ commands' = Tail(commands) /\ choice' = 0 /\ lateVoice' = FALSE
    BY <1>9 DEF ServersArrive, WipeAll, job, list
  <2>2. NoSync \in Sync /\ ~NoSync.on
    BY DEF NoSync, Sync
  <2>3. /\ \A j \in 1..MaxSyncs : syncs'[j] = syncs[j] \/ ~syncs'[j].on
        /\ ~syncs'[job].on /\ syncs' \in [1..MaxSyncs -> Sync]
    BY <1>4, <1>5, <2>1, <2>2
  <2>4. ServerTypeOK'
    BY <1>1, <1>2, <1>4, <1>6, <2>1, <2>3 DEF ServerTypeOK
  <2>5. /\ LinkRight' /\ \A i \in DOMAIN frames' : frames'[i].kind # "answer"
    BY <1>1, AnAnswerIsTaken
  <2>10. HubRight'
    BY <1>1, <1>2 DEF HubRight
  <2>6. SyncsRight'
    <3>1. Kept(Tail(commands), syncs', started, Known)
      BY <1>2, <1>4, <1>5, <2>3, KeptRest
    <3> QED
      BY <1>1, <1>6, <2>1, <3>1 DEF SyncsRight
  <2>7. ChoiceRight'
    BY <2>1 DEF ChoiceRight
  <2>8. ASSUME NEW s \in Servers PROVE VoiceRight(s)'
    <3> SUFFICES ASSUME s \in members, Voice(s) \in channels \ departing
                 PROVE  ShownRight(s)' /\ SyncedRight(s)' /\ AnsweredRight(s)' /\ HeldRight(s)'
      BY <1>1 DEF VoiceRight
    <3>1. SyncedRight(s) /\ ~Word(frames[1], Voice(s))
      BY <1>2 DEF ServerInv, VoiceRight, Word
    <3>2. \A j \in 1..MaxSyncs : Follows(syncs'[j], syncs[j])
      BY <2>3 DEF Follows
    <3>3. SyncedRight(s)'
      <4> SUFFICES ASSUME NEW j \in 1..MaxSyncs, syncs'[j].on /\ ~syncs'[j].late /\ j > stale' /\ s \in syncs'[j].got
                   PROVE  EndsIn(frames', 0, Voice(s), Voice(s) \in Snapshot(syncs'[j])) <=> caller' = Voice(s)
        BY DEF SyncedRight
      <4> QED
        BY <1>1, <1>4, <3>1, <3>2, SyncedRest
    <3>4. ShownRight(s)'
      BY <2>1 DEF ShownRight
    <3>5. AnsweredRight(s)' /\ HeldRight(s)'
      BY <1>1, <1>2, <2>5 DEF AnsweredRight, HeldRight, StateOf
    <3> QED
      BY <3>3, <3>4, <3>5
  <2>9. NewRight'
    <3>1. Untouched => Untouched'
      <4> SUFFICES ASSUME Untouched PROVE Untouched'
        OBVIOUS
      <4>1. Voice(2) \notin shown' /\ \A j \in 1..MaxSyncs : syncs'[j].on => Voice(2) \notin syncs'[j].voice
        BY <2>1, <2>3 DEF Untouched
      <4> QED
        BY <1>1, <1>4, <2>5, <4>1, UntouchedRest
    <3>2. New' = New
      BY <1>1, <1>6 DEF New
    <3>3. ToMake' => ToMake
      BY <1>1, <1>8, <2>1 DEF ToMake, MakesIn
    <3>4. MakesRight(commands')
      BY <1>8, <2>1
    <3> QED
      BY <3>1, <3>2, <3>3, <3>4 DEF ServerInv, NewRight
  <2> QED
    BY <1>7, <2>4, <2>5, <2>6, <2>7, <2>8, <2>9, <2>10 DEF ServerInv
<1>10. CASE list # {}
  <2>1. /\ syncs' = [syncs EXCEPT ![job].list = list]
        /\ commands' = Tail(commands) \o StatesFor(job, list)
        /\ UNCHANGED <<servers, shown, selectedServer, choice, lateVoice>>
    BY <1>10 DEF ServersArrive, job, list, StatesFor
  <2>2. /\ \A j \in 1..MaxSyncs : j # job => syncs'[j] = syncs[j]
        /\ syncs'[job].list = list /\ syncs'[job].on = syncs[job].on /\ syncs'[job].got = syncs[job].got
        /\ syncs'[job].chans = syncs[job].chans /\ syncs'[job].voice = syncs[job].voice
        /\ syncs'[job].prefers = syncs[job].prefers /\ syncs'[job].late = syncs[job].late
        /\ syncs'[job] \in Sync
    <3>1. syncs[job] \in Sync /\ syncs'[job] = [syncs[job] EXCEPT !.list = list]
      BY <1>4, <1>5, <2>1
    <3>2. \A j \in 1..MaxSyncs : j # job => syncs'[j] = syncs[j]
      BY <1>4, <1>5, <2>1
    <3> QED
      BY <1>3, <3>1, <3>2 DEF Sync
  <2>3. syncs' \in [1..MaxSyncs -> Sync]
    <3>1. \A j \in 1..MaxSyncs : syncs'[j] \in Sync
      BY <1>4, <2>2
    <3>2. DOMAIN syncs' = 1..MaxSyncs /\ syncs' = [j \in 1..MaxSyncs |-> syncs'[j]]
      BY <1>4, <2>1
    <3> QED
      BY <3>1, <3>2
  <2>4. /\ \A j \in 1..MaxSyncs : Follows(syncs'[j], syncs[j])
        /\ \A j \in 1..MaxSyncs : syncs'[j].on =>
              syncs'[j].voice = {} \/ (syncs[j].on /\ syncs'[j].voice = syncs[j].voice)
    BY <2>2 DEF Follows, Snapshot
  <2>5. /\ StatesFor(job, list) \in Seq(Asking)
        /\ \A i \in DOMAIN StatesFor(job, list) : StatesFor(job, list)[i].kind = "state"
    BY <1>3, <1>5, StatesAsked
  <2>6. MakesRight(commands') /\ (MakesIn(commands') => ToMake)
    BY <1>2, <1>8, <2>1, <2>5, MakesJoined
  <2>7. LinkRight' /\ HubRight' /\ (\A s \in Servers : VoiceRight(s)') /\ NewRight'
    BY <1>1, <1>2, <2>1, <2>4, <2>6, AnswerTaken
  <2>8. commands' \in Seq(Asking)
    BY <1>2, <2>1, <2>5, JoinedFacts
  <2>9. ServerTypeOK'
    BY <1>1, <1>2, <1>4, <1>6, <2>1, <2>3, <2>8 DEF ServerTypeOK
  <2>10. SyncsRight'
    <3>2. /\ \A j \in 1..MaxSyncs : j # commands[1].job => syncs'[j] = syncs[j]
          /\ commands[1].job \in 1..MaxSyncs =>
               /\ syncs'[commands[1].job].list = list
               /\ syncs'[commands[1].job].on = syncs[commands[1].job].on
               /\ syncs'[commands[1].job].got = syncs[commands[1].job].got
               /\ syncs'[commands[1].job].chans = syncs[commands[1].job].chans
               /\ syncs'[commands[1].job].voice = syncs[commands[1].job].voice
      BY <1>5, <2>2
    <3>3. commands[1].kind = "servers"
      BY <1>1, <1>2
    <3>1. Kept(Tail(commands) \o StatesFor(commands[1].job, list), syncs', started, Known)
      BY ONLY <1>2, <1>3, <1>4, <1>10, <3>2, <3>3, KeptServers
    <3> QED
      BY <1>1, <1>5, <1>6, <2>1, <3>1 DEF SyncsRight
  <2>11. ChoiceRight'
    <3>1. \A j \in 1..MaxSyncs : Wants(syncs'[j]) = Wants(syncs[j]) /\ syncs'[j].prefers = syncs[j].prefers
      BY <2>2 DEF Wants
    <3> QED
      BY <1>1, <2>1, <3>1 DEF ServerInv, ChoiceRight
  <2> QED
    BY <1>7, <2>7, <2>9, <2>10, <2>11 DEF ServerInv
<1> QED
  BY <1>9, <1>10

(* The channels of one server come to sync job, which has y with them.     *)
Came(job, y) ==
    /\ job \in 1..MaxSyncs /\ job = commands[1].job /\ syncs[job].on
    /\ y \in Sync /\ y.on /\ y.late = syncs[job].late /\ y.list = syncs[job].list
    /\ y.prefers = syncs[job].prefers
    /\ y.got = syncs[job].got \union {commands[1].of}
    /\ y.chans = syncs[job].chans \union frames[1].chans
    /\ y.voice = syncs[job].voice \union frames[1].voice
ChannelsCame ==
    /\ frames # <<>> /\ frames[1].kind = "answer" /\ frames[1].ok /\ frames' = Tail(frames)
    /\ asked' = FALSE /\ commands[1].kind = "state" /\ commands' = Tail(commands)
    /\ UNCHANGED <<members, deleted, channels, callVars, linked, started, dms, spoilt, errors>>
    /\ frames' \in Seq(Incoming) /\ commands \in Seq(Asking) /\ commands # <<>>
    /\ Tail(commands) \in Seq(Asking) /\ linked /\ 1 \in DOMAIN commands /\ 1 \in DOMAIN frames
    /\ frames[1] \in StateAnswer
    /\ \A c \in frames[1].chans \union frames[1].voice : Home(c) = commands[1].of
    /\ \A i \in DOMAIN frames' : frames'[i].kind # "answer"
    /\ LinkRight' /\ held = {} /\ HubRight'

(* Its snapshot of that server is the answer's, those of the others stay.  *)
LEMMA SnapshotGrows ==
  ASSUME ServerInv, ChannelsCame, NEW job, NEW y, Came(job, y), NEW s \in Servers
  PROVE  /\ s = commands[1].of => (Voice(s) \in Snapshot(y) <=> Voice(s) \in Snapshot(frames[1]))
         /\ s # commands[1].of => (Voice(s) \in Snapshot(y) <=> Voice(s) \in Snapshot(syncs[job]))
         /\ commands[1].of \in syncs[job].list \ syncs[job].got
         /\ y.got \subseteq y.list /\ y.list \subseteq Known /\ y.list \subseteq Servers
<1>1. Home(Voice(s)) = s
  BY ServerNumbers
<1>2. /\ Awaited(Queued(commands), syncs[job], job, Known) /\ InOrder(commands, started, Known)
      /\ syncs[job].on /\ job = commands[1].job /\ syncs[job] \in Sync
  BY DEF ServerInv, SyncsRight, Kept, Came, ServerTypeOK
<1>3. commands[1] \in Queued(commands) /\ commands[1].kind = "state"
  BY DEF Queued, ChannelsCame
<1>4. commands[1].of \in syncs[job].list \ syncs[job].got
  BY <1>2, <1>3 DEF Awaited
<1>5. ~AsksServers(Queued(commands), job)
  <2> SUFFICES ASSUME AsksServers(Queued(commands), job) PROVE FALSE
    OBVIOUS
  <2>1. PICK i \in DOMAIN commands : commands[i].kind = "servers" /\ commands[i].job = job
    BY DEF AsksServers, Queued
  <2>2. 1 \in DOMAIN commands
    BY DEF ChannelsCame
  <2>3. commands[1].job < commands[i].job /\ commands[i].job \in 1..started
    BY <1>2, <1>3, <2>1, <2>2 DEF InOrder
  <2> QED
    BY <1>2, <2>1, <2>3 DEF Came
<1>6. syncs[job].got \subseteq syncs[job].list /\ syncs[job].list \subseteq Known
  BY <1>2, <1>5 DEF Awaited
<1>7. \A c \in syncs[job].chans \union syncs[job].voice : Home(c) \in syncs[job].got
  BY <1>2 DEF Awaited
<1>8. /\ y.chans = syncs[job].chans \union frames[1].chans /\ y.got = syncs[job].got \union {commands[1].of}
      /\ y.voice = syncs[job].voice \union frames[1].voice /\ y.list = syncs[job].list
  BY DEF Came
<1>9. \A c \in frames[1].chans \union frames[1].voice : Home(c) = commands[1].of
  BY DEF ChannelsCame
<1>10. s = commands[1].of => (Voice(s) \in Snapshot(y) <=> Voice(s) \in Snapshot(frames[1]))
  BY <1>1, <1>4, <1>7, <1>8 DEF Snapshot
<1>11. s # commands[1].of => (Voice(s) \in Snapshot(y) <=> Voice(s) \in Snapshot(syncs[job]))
  BY <1>1, <1>8, <1>9 DEF Snapshot
<1> QED
  BY <1>2, <1>4, <1>6, <1>8, <1>10, <1>11 DEF Sync

(* So it ends where the caller is.                                         *)
LEMMA SyncedGrows ==
  ASSUME ServerInv, ChannelsCame, NEW job, NEW y, Came(job, y), NEW s \in Servers,
         s \in y.got, ~y.late, job > stale, s \in members, Voice(s) \in channels \ departing
  PROVE  EndsIn(frames', 0, Voice(s), Voice(s) \in Snapshot(y)) <=> caller' = Voice(s)
<1>1. SyncedRight(s) /\ AnsweredRight(s) /\ ServerTypeOK
  BY DEF ServerInv, VoiceRight
<1>2. /\ frames \in Seq(Incoming) /\ frames # <<>> /\ frames' = Tail(frames) /\ caller' = caller
      /\ ~Word(frames[1], Voice(s)) /\ 1 \in DOMAIN frames
  BY <1>1 DEF ServerTypeOK, ChannelsCame, Word
<1>3. CASE s = commands[1].of
  <2>1. StateOf(1, s)
    BY <1>3 DEF StateOf, ChannelsCame
  <2>2. EndsIn(frames, 1, Voice(s), Voice(s) \in Snapshot(frames[1])) <=> caller = Voice(s)
    BY <1>1, <1>2, <2>1 DEF AnsweredRight, Came
  <2>3. (Voice(s) \in Snapshot(frames[1])) \in BOOLEAN
        /\ (Voice(s) \in Snapshot(y)) = (Voice(s) \in Snapshot(frames[1]))
    BY <1>3, SnapshotGrows
  <2>4. EndsIn(Tail(frames), 0, Voice(s), Voice(s) \in Snapshot(frames[1]))
          <=> EndsIn(frames, 0 + 1, Voice(s), Voice(s) \in Snapshot(frames[1]))
    BY <1>2, <2>3, EndsRest
  <2>5. 0 + 1 = 1
    OBVIOUS
  <2> QED
    BY <1>2, <2>2, <2>3, <2>4, <2>5
<1>4. CASE s # commands[1].of
  <2>1. /\ syncs[job].on /\ ~syncs[job].late /\ job > stale /\ s \in syncs[job].got /\ job \in 1..MaxSyncs
    BY <1>4 DEF Came
  <2>2. EndsIn(frames, 0, Voice(s), Voice(s) \in Snapshot(syncs[job])) <=> caller = Voice(s)
    BY <1>1, <2>1 DEF SyncedRight
  <2>3. (Voice(s) \in Snapshot(syncs[job])) \in BOOLEAN
        /\ (Voice(s) \in Snapshot(y)) = (Voice(s) \in Snapshot(syncs[job]))
    BY <1>4, SnapshotGrows
  <2>4. EndsIn(frames', 0, Voice(s), Voice(s) \in Snapshot(syncs[job]))
          <=> EndsIn(frames, 0, Voice(s), Voice(s) \in Snapshot(syncs[job]))
    BY <1>1, <1>2, <2>3, EndsSame
  <2> QED
    BY <1>2, <2>2, <2>3, <2>4
<1> QED
  BY <1>3, <1>4

(* What is not to have been heard of is not in it.                         *)
LEMMA UntouchedGrows ==
  ASSUME ServerInv, ChannelsCame, NEW job, NEW y, Came(job, y), Untouched
  PROVE  Voice(2) \notin y.voice
<1>1. Voice(2) \notin syncs[job].voice
  BY DEF Untouched, Came
<1>2. Voice(2) \notin frames[1].voice
  <2>1. CASE commands[1].of = 2
    <3>1. StateOf(1, 2)
      BY <2>1 DEF StateOf, ChannelsCame
    <3> QED
      BY <3>1 DEF Untouched, ChannelsCame
  <2>2. CASE commands[1].of # 2
    BY <2>2, ServerNumbers DEF ChannelsCame
  <2> QED
    BY <2>1, <2>2
<1> QED
  BY <1>1, <1>2 DEF Came

LEMMA MakesStay ==
  ASSUME ServerInv, ChannelsCame,
         Untouched => Voice(2) \notin shown' /\ \A j \in 1..MaxSyncs : syncs'[j].on => Voice(2) \notin syncs'[j].voice
  PROVE  NewRight'
<1>1. /\ MakesRight(Tail(commands)) /\ (MakesIn(Tail(commands)) => ToMake)
  BY StillMade DEF ChannelsCame
<1>2. New' = New /\ (ToMake' => ToMake) /\ MakesRight(commands')
  BY <1>1 DEF ChannelsCame, New, Known, ToMake, MakesIn
<1>3. Untouched => Untouched'
  BY UntouchedRest DEF ChannelsCame, ServerInv
<1> QED
  BY <1>2, <1>3 DEF ServerInv, NewRight

LEMMA LeastServer ==
  ASSUME NEW S \in SUBSET Servers, S # {}
  PROVE  Min(S) \in S
<1>1. S = {1} \/ S = {2} \/ S = {1, 2}
  BY DEF Servers
<1>2. \E x \in S : \A y \in S : x <= y
  BY <1>1
<1> QED
  BY <1>2 DEF Min

(* A sync is done: the lists are its own, and what was selected stays if   *)
(* it can.                                                                 *)
LEMMA AppliedChoice ==
  ASSUME ServerInv, ChannelsCame, NEW job, NEW y, Came(job, y), y.list # {},
         selectedServer' = SyncSelects(y), choice' = IF choice \in y.list THEN choice ELSE 0,
         ~syncs'[job].on, \A j \in 1..MaxSyncs : j # job => syncs'[j] = syncs[j]
  PROVE  ChoiceRight' /\ selectedServer' \in y.list
<1>1. y.list \subseteq Servers /\ 0 \notin Servers
  BY DEF Came, Sync, Servers
<1>2. selectedServer' \in y.list
  BY <1>1, LeastServer DEF SyncSelects
<1>3. \A k \in 1..MaxSyncs : syncs[k].on => job <= k
  <2>1. /\ commands \in Seq(Asking) /\ commands # <<>> /\ started \in Nat
        /\ Kept(commands, syncs, started, Known)
        /\ commands[1].kind = "state" /\ job = commands[1].job
    BY DEF ServerInv, SyncsRight, ChannelsCame, ServerTypeOK, Came
  <2> QED
    BY <2>1, EarlierDone
<1>4. SUFFICES ASSUME choice' # 0, ~spoilt'
               PROVE  \/ selectedServer' = choice' /\ \A j \in 1..MaxSyncs : ~Wants(syncs'[j])
                      \/ \E j \in 1..MaxSyncs :
                           /\ Wants(syncs'[j]) /\ syncs'[j].prefers = choice'
                           /\ \A k \in 1..MaxSyncs : k > j => ~Wants(syncs'[k])
  BY <1>2 DEF ChoiceRight
<1>5. choice \in y.list /\ choice' = choice /\ choice # 0 /\ ~spoilt
  BY <1>4 DEF ChannelsCame
<1>6. /\ \A k \in 1..MaxSyncs : k # job => Wants(syncs'[k]) = Wants(syncs[k]) /\ syncs'[k].prefers = syncs[k].prefers
      /\ ~Wants(syncs'[job]) /\ syncs[job].on /\ job \in 1..MaxSyncs /\ y.prefers = syncs[job].prefers
  BY DEF Wants, Came
<1>7. CASE selectedServer = choice /\ \A j \in 1..MaxSyncs : ~Wants(syncs[j])
  <2>1. y.prefers = 0
    BY <1>6, <1>7 DEF Wants
  <2>2. selectedServer' = choice'
    BY <1>1, <1>5, <1>7, <2>1 DEF SyncSelects
  <2>3. \A j \in 1..MaxSyncs : ~Wants(syncs'[j])
    BY <1>6, <1>7
  <2> QED
    BY <2>2, <2>3
<1>8. ASSUME NEW j \in 1..MaxSyncs, Wants(syncs[j]), syncs[j].prefers = choice,
             \A k \in 1..MaxSyncs : k > j => ~Wants(syncs[k])
      PROVE  \/ selectedServer' = choice' /\ \A k \in 1..MaxSyncs : ~Wants(syncs'[k])
             \/ /\ Wants(syncs'[j]) /\ syncs'[j].prefers = choice'
                /\ \A k \in 1..MaxSyncs : k > j => ~Wants(syncs'[k])
  <2>1. CASE j = job
    <3>1. selectedServer' = choice'
      BY <1>5, <1>6, <1>8, <2>1 DEF SyncSelects
    <3>2. ASSUME NEW k \in 1..MaxSyncs PROVE ~Wants(syncs'[k])
      <4>1. CASE k = job
        BY <1>6, <4>1
      <4>2. CASE k > job
        BY <1>6, <1>8, <2>1, <4>2
      <4>3. CASE k < job
        <5>1. ~Wants(syncs[k])
          BY <1>3, <1>6, <4>3 DEF Wants
        <5> QED
          BY <1>6, <4>3, <5>1
      <4> QED
        BY <1>6, <4>1, <4>2, <4>3
    <3> QED
      BY <3>1, <3>2
  <2>2. CASE j # job
    <3>1. \A k \in 1..MaxSyncs : k > j => ~Wants(syncs'[k])
      BY <1>6, <1>8
    <3> QED
      BY <1>5, <1>6, <1>8, <2>2, <3>1
  <2> QED
    BY <2>1, <2>2
<1>9. \/ selectedServer = choice /\ \A j \in 1..MaxSyncs : ~Wants(syncs[j])
      \/ \E j \in 1..MaxSyncs :
             /\ Wants(syncs[j]) /\ syncs[j].prefers = choice
             /\ \A k \in 1..MaxSyncs : k > j => ~Wants(syncs[k])
  BY <1>5 DEF ServerInv, ChoiceRight
<1> QED
  BY <1>7, <1>8, <1>9

LEMMA StepChannelsArrive == ServerInv /\ ChannelsArrive => ServerInv'
<1> SUFFICES ASSUME ServerInv, ChannelsArrive PROVE ServerInv'
  OBVIOUS
<1> DEFINE job == Head(commands).job
           y == [syncs[job] EXCEPT !.got = @ \union {Head(commands).of},
                                   !.chans = @ \union Head(frames).chans,
                                   !.voice = @ \union Head(frames).voice]
<1>1. /\ frames # <<>> /\ Head(frames).kind = "answer" /\ Head(frames).ok /\ frames' = Tail(frames)
      /\ asked' = FALSE /\ Head(commands).kind = "state" /\ commands' = Tail(commands)
      /\ UNCHANGED <<members, deleted, channels, callVars, linked, started, dms, spoilt, errors>>
  BY DEF ChannelsArrive, Answered, hubVars, callVars, limitVars
<1>2. /\ frames[1].kind = "answer" /\ frames' \in Seq(Incoming) /\ commands \in Seq(Asking)
      /\ commands # <<>> /\ Head(commands) = commands[1] /\ Tail(commands) \in Seq(Asking)
      /\ linked /\ AnswerRight(frames[1], commands[1], Known, errors) /\ frames[1] = Head(frames)
      /\ 1 \in DOMAIN commands /\ 1 \in DOMAIN frames /\ LinkRight' /\ held = {} /\ HubRight'
      /\ \A i \in DOMAIN frames' : frames'[i].kind # "answer"
  BY <1>1, AnAnswerIsTaken DEF HubRight
<1>3. ChannelsCame
  BY <1>1, <1>2 DEF ChannelsCame, AnswerRight
<1>4. /\ Kept(commands, syncs, started, Known) /\ started \in 1..MaxSyncs /\ started \in Nat
      /\ ServerTypeOK /\ syncs \in [1..MaxSyncs -> Sync] /\ LinkRight
  BY DEF ServerInv, SyncsRight, ServerTypeOK
<1>5. job \in 1..MaxSyncs /\ job = commands[1].job /\ job \in Nat
  <2>1. job \in 1..started
    BY <1>1, <1>2, <1>4 DEF Kept, InOrder
  <2> QED
    BY <1>2, <1>4, <2>1, ServerAssumption
<1>6. Known' = Known
  BY <1>1 DEF Known
<1>7. TalkRight'
  BY <1>1, <1>2, TalkStays
<1>8. MakesRight(Tail(commands)) /\ (MakesIn(Tail(commands)) => ToMake)
  BY <1>2, StillMade
<1> HIDE DEF job
<1>9. CASE ~syncs[job].on
  <2>1. UNCHANGED <<servers, shown, selectedServer, choice, lateVoice, syncs>>
    BY <1>9 DEF ChannelsArrive, job
  <2>2. /\ \A j \in 1..MaxSyncs : Follows(syncs'[j], syncs[j])
        /\ \A j \in 1..MaxSyncs : syncs'[j].on =>
              syncs'[j].voice = {} \/ (syncs[j].on /\ syncs'[j].voice = syncs[j].voice)
    BY <2>1 DEF Follows
  <2>3. (\A s \in Servers : VoiceRight(s)') /\ NewRight'
    BY <1>1, <1>2, <1>8, <2>1, <2>2, AnswerTaken
  <2>4. ServerTypeOK' /\ ChoiceRight'
    BY <1>1, <1>2, <1>4, <1>6, <2>1 DEF ServerTypeOK, ServerInv, ChoiceRight
  <2>5. Kept(Tail(commands), syncs', started, Known)
    BY <1>2, <1>4, <1>5, <1>9, <2>1, KeptRest
  <2>6. SyncsRight'
    BY <1>1, <1>6, <2>5 DEF SyncsRight
  <2> QED
    BY <1>2, <1>7, <2>3, <2>4, <2>6 DEF ServerInv
<1>10. ASSUME syncs[job].on PROVE Came(job, y)
  <2>1. syncs[job] \in Sync
    BY <1>4, <1>5
  <2>2. commands[1].of \in Servers
    <3>1. commands[1] \in Queued(commands) /\ Awaited(Queued(commands), syncs[job], job, Known)
      BY <1>2, <1>4, <1>5 DEF Queued, Kept
    <3> QED
      BY <1>1, <1>2, <1>5, <1>10, <2>1, <3>1 DEF Awaited, Sync
  <2>3. frames[1].chans \subseteq Chans /\ frames[1].voice \subseteq Chans
    BY <1>3 DEF ChannelsCame, StateAnswer
  <2>4. y = [syncs[job] EXCEPT !.got = @ \union {commands[1].of},
                               !.chans = @ \union frames[1].chans,
                               !.voice = @ \union frames[1].voice]
    BY <1>2
  <2> HIDE DEF y
  <2>5. /\ y \in Sync /\ y.on = syncs[job].on /\ y.late = syncs[job].late /\ y.list = syncs[job].list
        /\ y.prefers = syncs[job].prefers
        /\ y.got = syncs[job].got \union {commands[1].of}
        /\ y.chans = syncs[job].chans \union frames[1].chans
        /\ y.voice = syncs[job].voice \union frames[1].voice
    BY <2>1, <2>2, <2>3, <2>4 DEF Sync
  <2> QED
    BY <1>5, <1>10, <2>5 DEF Came
<1>11. CASE syncs[job].on /\ y.got = y.list
  <2>1. Came(job, y)
    BY <1>10, <1>11
  <2>2. ApplySync(y, job) /\ syncs' = [syncs EXCEPT ![job] = NoSync]
    BY <1>11 DEF ChannelsArrive, job
  <2>3. NoSync \in Sync /\ ~NoSync.on
    BY DEF NoSync, Sync
  <2> HIDE DEF y
  <2>4. /\ servers' = y.list /\ shown' = Snapshot(y) /\ selectedServer' = SyncSelects(y)
        /\ choice' = (IF choice \in y.list THEN choice ELSE 0) /\ lateVoice' = (y.late \/ job <= stale)
    BY <2>2 DEF ApplySync, VoiceListReplaced, Snapshot
  <2>5. /\ ~syncs'[job].on /\ \A j \in 1..MaxSyncs : j # job => syncs'[j] = syncs[j]
        /\ syncs' \in [1..MaxSyncs -> Sync]
        /\ \A j \in 1..MaxSyncs : syncs'[j] = syncs[j] \/ ~syncs'[j].on
    BY <1>4, <1>5, <2>2, <2>3
  <2>6. y.list # {} /\ y.list \subseteq Known /\ y.list \subseteq Servers
    <3>1. 1 \in Servers
      BY DEF Servers
    <3>2. commands[1].of \in syncs[job].list /\ y.list \subseteq Known /\ y.list \subseteq Servers
      BY <1>3, <2>1, <3>1, SnapshotGrows
    <3> QED
      BY <2>1, <3>2 DEF Came
  <2>7. ChoiceRight' /\ selectedServer' \in y.list
    BY <1>3, <2>1, <2>4, <2>5, <2>6, AppliedChoice
  <2>8. ServerTypeOK'
    <3>1. lateVoice' \in BOOLEAN
      BY <2>1, <2>4 DEF Came, Sync
    <3> QED
      BY <1>1, <1>2, <1>4, <1>6, <2>4, <2>5, <2>6, <2>7, <3>1 DEF ServerTypeOK
  <2>9. Kept(Tail(commands), syncs', started, Known)
    BY <1>2, <1>4, <1>5, <2>5, KeptRest
  <2>10. SyncsRight'
    BY <1>1, <1>6, <2>9 DEF SyncsRight
  <2>11. ASSUME NEW s \in Servers PROVE VoiceRight(s)'
    <3> SUFFICES ASSUME s \in members, Voice(s) \in channels \ departing
                 PROVE  ShownRight(s)' /\ SyncedRight(s)' /\ AnsweredRight(s)' /\ HeldRight(s)'
      BY <1>1 DEF VoiceRight
    <3>1. SyncedRight(s) /\ ~Word(frames[1], Voice(s))
      BY <1>2 DEF ServerInv, VoiceRight, Word
    <3>2. \A j \in 1..MaxSyncs : Follows(syncs'[j], syncs[j])
      BY <2>5 DEF Follows
    <3>3. SyncedRight(s)'
      <4> SUFFICES ASSUME NEW j \in 1..MaxSyncs, syncs'[j].on /\ ~syncs'[j].late /\ j > stale' /\ s \in syncs'[j].got
                   PROVE  EndsIn(frames', 0, Voice(s), Voice(s) \in Snapshot(syncs'[j])) <=> caller' = Voice(s)
        BY DEF SyncedRight
      <4> QED
        BY <1>1, <1>4, <3>1, <3>2, SyncedRest
    <3>4. ShownRight(s)'
      <4> SUFFICES ASSUME ~lateVoice', s \in servers'
                   PROVE  EndsIn(frames', 0, Voice(s), Voice(s) \in shown') <=> caller' = Voice(s)
        BY DEF ShownRight
      <4>1. ~y.late /\ s \in y.got /\ job > stale
        <5>1. stale \in Nat
          BY <1>4 DEF ServerTypeOK
        <5> QED
          <6>1. ~y.late /\ s \in y.got /\ ~(job <= stale)
            BY <1>11, <2>4
          <6> QED
            BY <1>5, <5>1, <6>1
      <4>2. EndsIn(frames', 0, Voice(s), Voice(s) \in Snapshot(y)) <=> caller' = Voice(s)
        BY <1>3, <2>1, <4>1, SyncedGrows
      <4> QED
        BY <2>4, <4>2
    <3>5. AnsweredRight(s)' /\ HeldRight(s)'
      BY <1>1, <1>2 DEF AnsweredRight, HeldRight, StateOf
    <3> QED
      BY <3>3, <3>4, <3>5
  <2>12. NewRight'
    <3>1. ASSUME Untouched
          PROVE  Voice(2) \notin shown' /\ \A j \in 1..MaxSyncs : syncs'[j].on => Voice(2) \notin syncs'[j].voice
      <4>1. Voice(2) \notin y.voice
        BY <1>3, <2>1, <3>1, UntouchedGrows
      <4> QED
        BY <2>4, <2>5, <3>1, <4>1 DEF Snapshot, Untouched
    <3> QED
      BY <1>3, <3>1, MakesStay
  <2> QED
    BY <1>2, <1>7, <2>7, <2>8, <2>10, <2>11, <2>12 DEF ServerInv
<1>12. CASE syncs[job].on /\ y.got # y.list
  <2>1. Came(job, y)
    BY <1>10, <1>12
  <2>2. /\ syncs' = [syncs EXCEPT ![job] = y]
        /\ UNCHANGED <<servers, shown, selectedServer, choice, lateVoice>>
    BY <1>12 DEF ChannelsArrive, job
  <2>13. y.got # y.list
    BY <1>12
  <2> HIDE DEF y
  <2>3. y \in Sync
    BY <2>1 DEF Came
  <2>4. /\ syncs'[job] = y /\ \A j \in 1..MaxSyncs : j # job => syncs'[j] = syncs[j]
        /\ syncs' \in [1..MaxSyncs -> Sync]
    BY <1>4, <1>5, <2>2, <2>3
  <2>5. ServerTypeOK'
    BY <1>1, <1>2, <1>4, <1>6, <2>2, <2>4 DEF ServerTypeOK
  <2>6. SyncsRight'
    <3>1. /\ syncs[job].on /\ syncs'[job].list = syncs[job].list /\ syncs'[job].on
          /\ syncs'[job].got = syncs[job].got \union {commands[1].of}
          /\ syncs'[job].got # syncs'[job].list
      BY <2>1, <2>4, <2>13 DEF Came
    <3>2. \A c \in (syncs'[job].chans \union syncs'[job].voice) \ (syncs[job].chans \union syncs[job].voice) :
            Home(c) = commands[1].of
      BY <1>3, <2>1, <2>4 DEF Came, ChannelsCame
    <3>3. commands[1].kind = "state"
      BY <1>1, <1>2
    <3>4. Kept(Tail(commands), syncs', started, Known)
      BY ONLY <1>2, <1>4, <1>5, <2>4, <3>1, <3>2, <3>3, KeptState
    <3> QED
      BY <1>1, <1>6, <3>4 DEF SyncsRight
  <2>7. ChoiceRight'
    <3>1. \A j \in 1..MaxSyncs : Wants(syncs'[j]) = Wants(syncs[j]) /\ syncs'[j].prefers = syncs[j].prefers
      BY <2>1, <2>4 DEF Wants, Came
    <3> QED
      BY <1>1, <2>2, <3>1 DEF ServerInv, ChoiceRight
  <2>8. ASSUME NEW s \in Servers PROVE VoiceRight(s)'
    <3> SUFFICES ASSUME s \in members, Voice(s) \in channels \ departing
                 PROVE  ShownRight(s)' /\ SyncedRight(s)' /\ AnsweredRight(s)' /\ HeldRight(s)'
      BY <1>1 DEF VoiceRight
    <3>1. ShownRight(s) /\ SyncedRight(s) /\ ~Word(frames[1], Voice(s))
      BY <1>2 DEF ServerInv, VoiceRight, Word
    <3>2. ShownRight(s)'
      BY <1>1, <1>4, <2>2, <3>1, ShownRest
    <3>3. SyncedRight(s)'
      <4> SUFFICES ASSUME NEW j \in 1..MaxSyncs, syncs'[j].on /\ ~syncs'[j].late /\ j > stale' /\ s \in syncs'[j].got
                   PROVE  EndsIn(frames', 0, Voice(s), Voice(s) \in Snapshot(syncs'[j])) <=> caller' = Voice(s)
        BY DEF SyncedRight
      <4>1. CASE j = job
        BY <1>1, <1>3, <2>1, <2>4, <4>1, SyncedGrows
      <4>2. CASE j # job
        <5>1. Follows(syncs'[j], syncs[j])
          BY <2>4, <4>2 DEF Follows
        <5> QED
          BY <1>1, <1>4, <3>1, <5>1, SyncedRest
      <4> QED
        BY <4>1, <4>2
    <3>4. AnsweredRight(s)' /\ HeldRight(s)'
      BY <1>1, <1>2 DEF AnsweredRight, HeldRight, StateOf
    <3> QED
      BY <3>2, <3>3, <3>4
  <2>9. NewRight'
    <3>1. ASSUME Untouched
          PROVE  Voice(2) \notin shown' /\ \A j \in 1..MaxSyncs : syncs'[j].on => Voice(2) \notin syncs'[j].voice
      <4>1. Voice(2) \notin y.voice
        BY <1>3, <2>1, <3>1, UntouchedGrows
      <4> QED
        BY <2>2, <2>4, <3>1, <4>1 DEF Untouched
    <3> QED
      BY <1>3, <3>1, MakesStay
  <2> QED
    BY <1>2, <1>7, <2>5, <2>6, <2>7, <2>8, <2>9 DEF ServerInv
<1> QED
  BY <1>9, <1>11, <1>12

(* The connection is lost, and is back.                                    *)
LEMMA StepBreak == ServerInv /\ Break => ServerInv'
<1> SUFFICES ASSUME ServerInv, Break PROVE ServerInv'
  OBVIOUS
<1>1. /\ linked' = FALSE /\ commands' = <<>> /\ asked' = FALSE /\ frames' = <<>>
      /\ syncs' = [j \in 1..MaxSyncs |-> NoSync] /\ lateVoice' = TRUE
      /\ spoilt' = (spoilt \/ commands # <<>>)
      /\ held' = {}
      /\ UNCHANGED <<members, deleted, channels, caller, departing, stale, started, servers, selectedServer, shown,
                     choice, errors>>
  BY DEF Break, hubVars, callVars
<1>2. ServerTypeOK /\ Kept(commands, syncs, started, Known) /\ Known' = Known
  BY <1>1 DEF ServerInv, SyncsRight, Known
<1>3. NoSync \in Sync /\ ~NoSync.on
  BY DEF NoSync, Sync
<1>4. \A j \in 1..MaxSyncs : syncs'[j] = NoSync /\ ~syncs'[j].on
  BY <1>1, <1>3
<1>5. <<>> \in Seq(Asking) /\ <<>> \in Seq(Incoming) /\ DOMAIN <<>> = {}
  OBVIOUS
<1>6. ServerTypeOK'
  BY <1>1, <1>2, <1>3, <1>5 DEF ServerTypeOK
<1>7. LinkRight' /\ HubRight'
  BY <1>1, <1>4, <1>5 DEF LinkRight, HubRight
<1>8. SyncsRight'
  BY <1>1, <1>4, <1>5 DEF SyncsRight, Kept, InOrder, Awaited
<1>9. ChoiceRight'
  <2> SUFFICES ASSUME choice # 0, ~spoilt, commands = <<>>
               PROVE  selectedServer = choice
    BY <1>1, <1>4 DEF ChoiceRight, Wants
  <2>1. \A j \in 1..MaxSyncs : ~syncs[j].on
    BY <1>2, NothingAwaited
  <2> QED
    BY <2>1 DEF ServerInv, ChoiceRight, Wants
<1>10. \A s \in Servers : VoiceRight(s)'
  BY <1>1, <1>4, <1>5 DEF VoiceRight, ShownRight, SyncedRight, AnsweredRight, HeldRight
<1>11. NewRight'
  <2>1. ~ToMake' /\ MakesRight(commands')
    BY <1>1, <1>5 DEF ToMake, MakesRight
  <2>2. New' = New
    BY <1>1, <1>2 DEF New
  <2>3. Untouched => Untouched'
    BY <1>1, <1>4, <1>5 DEF Untouched
  <2> QED
    BY <2>1, <2>2, <2>3 DEF ServerInv, NewRight
<1>12. TalkRight'
  BY <1>1 DEF TalkRight
<1> QED
  BY <1>6, <1>7, <1>8, <1>9, <1>10, <1>11, <1>12 DEF ServerInv

LEMMA FirstTwo ==
  ASSUME NEW n \in Nat
  PROVE  LET q == <<Ask("servers", n, 0), Ask("dms", 0, 0)>>
         IN  /\ q \in Seq(Asking) /\ q # <<>> /\ DOMAIN q = {1, 2}
             /\ q[1].kind = "servers" /\ q[1].job = n /\ q[2].kind = "dms"
             /\ Queued(q) = {q[1], q[2]} /\ MakesRight(q) /\ ~MakesIn(q) /\ AsksDMsFirst(q)
<1> DEFINE a == Ask("servers", n, 0)  b == Ask("dms", 0, 0)  q == <<a, b>>
<1>1. a \in Asking /\ b \in Asking /\ a.kind = "servers" /\ b.kind = "dms" /\ a.job = n
  BY DEF Ask, Asking
<1> HIDE DEF a, b
<1>2. q \in Seq(Asking) /\ q # <<>> /\ DOMAIN q = {1, 2} /\ q[1] = a /\ q[2] = b
  BY <1>1
<1> HIDE DEF q
<1>3. Queued(q) = {q[1], q[2]}
  BY <1>2 DEF Queued
<1>4. \A i \in DOMAIN q : q[i].kind \in {"servers", "dms"}
  BY <1>1, <1>2
<1>5. MakesRight(q) /\ ~MakesIn(q)
  BY <1>4 DEF MakesRight, MakesIn, Makes, Fits
<1>6. AsksDMsFirst(q)
  BY <1>1, <1>2, <1>4 DEF AsksDMsFirst
<1> QED
  BY <1>1, <1>2, <1>3, <1>5, <1>6 DEF q, a, b

(* The commands a connection starts with are those of its sync.            *)
LEMMA KeptFirst ==
  ASSUME NEW n \in Nat, NEW m \in Nat, m <= n, m >= 1, NEW q \in Seq(Asking), DOMAIN q = {1, 2},
         q[1].kind = "servers", q[1].job = m, q[2].kind = "dms", Queued(q) = {q[1], q[2]},
         NEW ys, NEW known,
         \A j \in 1..MaxSyncs : ys[j].on =>
            j = m /\ ys[j].got = {} /\ ys[j].chans = {} /\ ys[j].voice = {}
  PROVE  Kept(q, ys, n, known)
<1>1. InOrder(q, n, known)
  <2>1. \A i \in DOMAIN q : q[i].kind # "state" /\ (q[i].kind = "servers" => i = 1)
    BY DEF InOrder
  <2> QED
    BY <2>1 DEF InOrder
<1>2. ASSUME NEW j \in 1..MaxSyncs, ys[j].on
      PROVE  Awaited(Queued(q), ys[j], j, known) /\ j <= n
  <2>1. j = m /\ ys[j].got = {} /\ ys[j].chans = {} /\ ys[j].voice = {}
    BY <1>2
  <2>2. AsksServers(Queued(q), j) /\ \A a \in Queued(q) : a.kind # "state"
    BY <2>1 DEF AsksServers
  <2> QED
    BY <2>1, <2>2 DEF Awaited
<1> QED
  BY <1>1, <1>2 DEF Kept, Awaited

LEMMA StepRestore == ServerInv /\ Restore => ServerInv'
<1> SUFFICES ASSUME ServerInv, Restore PROVE ServerInv'
  OBVIOUS
<1> DEFINE n == started + 1  q == <<Ask("servers", n, 0), Ask("dms", 0, 0)>>
<1>1. /\ ~linked /\ n \in 1..MaxSyncs /\ started' = n /\ linked' = TRUE /\ commands' = q
      /\ syncs' = [syncs EXCEPT ![n].on = TRUE] /\ n \in Nat /\ started \in Nat /\ n >= 1
      /\ UNCHANGED <<members, deleted, channels, callVars, asked, frames, servers, selectedServer,
                     shown, dms, choice, spoilt, lateVoice, errors>>
  BY ServerAssumption DEF Restore, hubVars, callVars, listVars, noteVars, limitVars, ServerInv, ServerTypeOK
<1>2. ServerTypeOK /\ Known' = Known /\ syncs \in [1..MaxSyncs -> Sync] /\ SyncsRight
  BY <1>1 DEF ServerInv, Known, ServerTypeOK
<1>3. /\ commands = <<>> /\ frames = <<>> /\ ~asked /\ lateVoice /\ DOMAIN frames = {}
      /\ held = {} /\ \A j \in 1..MaxSyncs : syncs[j] = NoSync
  BY <1>1 DEF ServerInv, LinkRight, HubRight
<1>4. /\ NoSync.got = {} /\ NoSync.chans = {} /\ NoSync.voice = {} /\ NoSync.prefers = 0 /\ ~NoSync.on
  BY DEF NoSync
<1>5. ASSUME NEW j \in 1..MaxSyncs
      PROVE  /\ syncs'[j].got = {} /\ syncs'[j].chans = {} /\ syncs'[j].voice = {}
             /\ syncs'[j].prefers = 0 /\ (syncs'[j].on => j = n) /\ syncs'[j] \in Sync
  <2>1. CASE j = n
    <3>1. syncs'[j] = [syncs[j] EXCEPT !.on = TRUE] /\ syncs[j] \in Sync
      BY <1>1, <1>2, <2>1
    <3>2. /\ syncs'[j].got = syncs[j].got /\ syncs'[j].chans = syncs[j].chans
          /\ syncs'[j].voice = syncs[j].voice /\ syncs'[j].prefers = syncs[j].prefers
          /\ syncs'[j] \in Sync
      BY <3>1 DEF Sync
    <3> QED
      BY <1>3, <1>4, <2>1, <3>2
  <2>2. CASE j # n
    <3>1. syncs'[j] = syncs[j]
      BY <1>1, <1>2, <2>2
    <3> QED
      BY <1>2, <1>3, <1>4, <3>1
  <2> QED
    BY <2>1, <2>2
<1>6. syncs' \in [1..MaxSyncs -> Sync]
  <2>1. DOMAIN syncs' = 1..MaxSyncs /\ syncs' = [j \in 1..MaxSyncs |-> syncs'[j]]
    BY <1>1, <1>2
  <2> QED
    BY <1>5, <2>1
<1>7. /\ q \in Seq(Asking) /\ q # <<>> /\ DOMAIN q = {1, 2}
      /\ q[1].kind = "servers" /\ q[1].job = n /\ q[2].kind = "dms"
      /\ Queued(q) = {q[1], q[2]} /\ MakesRight(q) /\ ~MakesIn(q) /\ AsksDMsFirst(q)
  BY <1>1, FirstTwo
<1> HIDE DEF q
<1>8. ServerTypeOK'
  BY <1>1, <1>2, <1>6, <1>7 DEF ServerTypeOK
<1>9. LinkRight' /\ HubRight'
  BY <1>1, <1>3 DEF LinkRight, HubRight
<1>10. SyncsRight'
  <2>1. \A j \in 1..MaxSyncs : syncs'[j].on =>
           j = n /\ syncs'[j].got = {} /\ syncs'[j].chans = {} /\ syncs'[j].voice = {}
    BY <1>5
  <2>2. n \in Nat /\ n >= 1 /\ n <= n
    BY <1>1
  <2> HIDE DEF n
  <2>3. Kept(q, syncs', n, Known)
    BY ONLY <2>1, <2>2, <1>7, KeptFirst
  <2> QED
    BY <1>1, <1>2, <2>3 DEF SyncsRight
<1>11. ChoiceRight'
  <2>1. \A j \in 1..MaxSyncs : ~Wants(syncs'[j]) /\ ~Wants(syncs[j])
    BY <1>3, <1>4, <1>5 DEF Wants
  <2> QED
    BY <1>1, <2>1 DEF ServerInv, ChoiceRight
<1>12. \A s \in Servers : VoiceRight(s)'
  BY <1>1, <1>3, <1>5 DEF VoiceRight, ShownRight, SyncedRight, AnsweredRight, HeldRight
<1>13. NewRight'
  <2>1. ~ToMake'
    BY <1>1, <1>7 DEF ToMake, MakesIn
  <2>2. New' = New
    BY <1>1, <1>2 DEF New
  <2>3. Untouched => Untouched'
    BY <1>1, <1>3, <1>5 DEF Untouched
  <2> QED
    BY <1>1, <1>7, <2>1, <2>2, <2>3 DEF ServerInv, NewRight
<1>14. TalkRight'
  BY <1>1, <1>7 DEF TalkRight
<1> QED
  BY <1>8, <1>9, <1>10, <1>11, <1>12, <1>13, <1>14 DEF ServerInv

(* It begins so.                                                           *)
LEMMA ServerBegins == ServerInit => ServerInv
<1> SUFFICES ASSUME ServerInit PROVE ServerInv
  OBVIOUS
<1> DEFINE q == <<Ask("servers", 1, 0), Ask("dms", 0, 0)>>
<1>1. /\ members = {1} /\ deleted = {} /\ caller \in {0, Voice(1)}
      /\ channels \in {{Text(1), Voice(1)}, {Text(1), Voice(1), Text(2), Voice(2)}}
      /\ linked = TRUE /\ asked = FALSE /\ frames = <<>> /\ commands = q
      /\ syncs = [j \in 1..MaxSyncs |-> [NoSync EXCEPT !.on = (j = 1)]]
      /\ started = 1 /\ servers = {} /\ selectedServer = 0 /\ shown = {} /\ dms = {}
      /\ choice = 0 /\ spoilt = FALSE /\ lateVoice = FALSE /\ errors = 0
      /\ departing = {} /\ held = {} /\ stale = 0
  BY DEF ServerInit
<1>2. /\ q \in Seq(Asking) /\ q # <<>> /\ DOMAIN q = {1, 2}
      /\ q[1].kind = "servers" /\ q[1].job = 1 /\ q[2].kind = "dms"
      /\ Queued(q) = {q[1], q[2]} /\ MakesRight(q) /\ ~MakesIn(q) /\ AsksDMsFirst(q)
  <2>1. 1 \in Nat
    OBVIOUS
  <2> QED
    BY <2>1, FirstTwo
<1> HIDE DEF q
<1>3. /\ NoSync \in Sync /\ NoSync.got = {} /\ NoSync.chans = {} /\ NoSync.voice = {} /\ NoSync.prefers = 0
  BY DEF NoSync, Sync
<1>4. ASSUME NEW j \in 1..MaxSyncs
      PROVE  /\ syncs[j].got = {} /\ syncs[j].chans = {} /\ syncs[j].voice = {}
             /\ syncs[j].prefers = 0 /\ (syncs[j].on => j = 1) /\ syncs[j] \in Sync
  <2>1. syncs[j] = [NoSync EXCEPT !.on = (j = 1)] /\ (j = 1) \in BOOLEAN
    BY <1>1
  <2> QED
    BY <1>3, <2>1 DEF Sync
<1>5. syncs \in [1..MaxSyncs -> Sync]
  BY <1>1, <1>4
<1>6. DOMAIN <<>> = {} /\ <<>> \in Seq(Incoming) /\ 1 \in 1..MaxSyncs /\ 1 \in Nat /\ 0 \in Nat
  BY ServerAssumption
<1>7. ServerTypeOK
  <2>1. channels \subseteq Chans
    BY <1>1, ServerNumbers
  <2>2. members \subseteq Servers
    BY <1>1 DEF Servers
  <2>3. stale \in Nat /\ stale <= started
    BY <1>1
  <2> QED
    BY <1>1, <1>2, <1>5, <1>6, <2>1, <2>2, <2>3 DEF ServerTypeOK
<1>8. LinkRight /\ HubRight
  BY <1>1, <1>2, <1>6 DEF LinkRight, HubRight
<1>9. SyncsRight
  <2>1. 1 <= 1 /\ 1 >= 1
    OBVIOUS
  <2>2. Kept(q, syncs, 1, Known)
    BY <1>2, <1>4, <1>6, <2>1, KeptFirst
  <2> QED
    BY <1>1, <2>2 DEF SyncsRight
<1>10. ChoiceRight
  BY <1>1 DEF ChoiceRight
<1>11. \A s \in Servers : VoiceRight(s)
  BY <1>1, <1>4, <1>6 DEF VoiceRight, ShownRight, SyncedRight, AnsweredRight, HeldRight
<1>12. NewRight
  <2>1. ~ToMake
    BY <1>1, <1>2 DEF ToMake, MakesIn
  <2>2. New => Untouched
    <3>1. New => Voice(2) \notin channels /\ caller # Voice(2)
      BY <1>1, ServerNumbers DEF New
    <3> QED
      BY <1>1, <1>4, <1>6, <3>1 DEF Untouched
  <2> QED
    BY <1>1, <1>2, <2>1, <2>2 DEF NewRight
<1>13. TalkRight
  BY <1>1, <1>2 DEF TalkRight
<1> QED
  BY <1>7, <1>8, <1>9, <1>10, <1>11, <1>12, <1>13 DEF ServerInv

(* However syncs, clicks, events, edits, refusals and lost connections     *)
(* follow each other, the commands and answers on their way belong to the  *)
(* syncs that wait for them, in order, and every list that will be on      *)
(* screen ends where the caller is (useServers.ts, useVoice.ts).           *)
THEOREM ServerInvHolds == ServerSpec => []ServerInv
<1>1. ServerInv /\ [ServerNext]_serverVars => ServerInv'
  <2> SUFFICES ASSUME ServerInv, [ServerNext]_serverVars PROVE ServerInv'
    OBVIOUS
  <2>1. ASSUME NEW s \in Servers, NEW c \in {Text(s), Voice(s)}
        PROVE  c \in Chans /\ s \in Nat /\ c \in Nat
    BY ServerNumbers
  <2>2. CASE HubAnswers
    BY <2>2, StepHubAnswers
  <2>20. CASE HubReads \/ HubPushes
    BY <2>20, StepHubReads, StepHubPushes
  <2>3. CASE HubRefuses
    BY <2>3, StepHubRefuses
  <2>4. CASE PeriodicSync
    BY <2>4, StepPeriodicSync
  <2>5. CASE ServersArrive
    BY <2>5, StepServersArrive
  <2>6. CASE ChannelsArrive
    BY <2>6, StepChannelsArrive
  <2>7. CASE Refused
    BY <2>7, StepRefused
  <2>8. CASE ConversationsArrive
    BY <2>8, StepConversationsArrive
  <2>9. CASE \E s \in Servers : SelectServer(s)
    BY <2>9, StepSelectServer
  <2>10. ASSUME NEW s \in Servers, NEW c \in {Text(s), Voice(s)}, VoiceJoins(c) PROVE ServerInv'
    BY <2>10, StepVoiceJoins
  <2>21. ASSUME NEW s \in Servers, NEW c \in {Text(s), Voice(s)}, VoiceLeaves(c) \/ TellMembers(c)
         PROVE  ServerInv'
    BY <2>21, StepVoiceLeaves, StepTellMembers
  <2>11. ASSUME NEW s \in Servers, NEW c \in {Text(s), Voice(s)}, VoiceArrives(c) PROVE ServerInv'
    BY <2>11, StepVoiceArrives
  <2>12. ASSUME NEW s \in Servers, NEW c \in {Text(s), Voice(s)}, MessageIn(c) PROVE ServerInv'
    BY <2>1, <2>12, StepMessageIn
  <2>13. ASSUME NEW s \in Servers, NEW c \in {Text(s), Voice(s)}, MessageArrives(c) PROVE ServerInv'
    BY <2>13, StepMessageArrives
  <2>14. ASSUME NEW c, SelectChannel(c) PROVE ServerInv'
    BY <2>14, StepSelectChannel
  <2>15. ASSUME NEW s \in Servers, NEW c \in {Text(s), Voice(s)}, NEW kind \in EditKinds,
                NEW of \in {s, c}, EditAnswered(kind, of)
         PROVE  ServerInv'
    <3>1. of \in Nat
      BY <2>1
    <3> QED
      BY <2>15, <3>1, StepEditAnswered
  <2>16. CASE CreateServer \/ JoinServer \/ DeleteServer \/ CreateChannel
              \/ \E s \in Servers : \E c \in {Text(s), Voice(s)} : DeleteChannel(c)
    BY <2>16, StepEdits
  <2>17. CASE Break
    BY <2>17, StepBreak
  <2>18. CASE Restore
    BY <2>18, StepRestore
  <2>19. CASE UNCHANGED serverVars
    <3>1. /\ ServerTypeOK' /\ LinkRight' /\ HubRight' /\ SyncsRight' /\ ChoiceRight' /\ TalkRight'
      BY <2>19 DEF serverVars, hubVars, callVars, linkVars, listVars, noteVars, limitVars, ServerInv, ServerTypeOK,
                   LinkRight, HubRight, SyncsRight, ChoiceRight, TalkRight, Known
    <3>2. \A s \in Servers : VoiceRight(s)'
      BY <2>19 DEF serverVars, hubVars, callVars, linkVars, listVars, noteVars, limitVars, ServerInv, VoiceRight,
                   ShownRight, SyncedRight, AnsweredRight, HeldRight, StateOf
    <3>3. NewRight'
      BY <2>19 DEF serverVars, hubVars, callVars, linkVars, listVars, noteVars, limitVars, ServerInv, NewRight,
                   New, Known, ToMake, Untouched, StateOf
    <3> QED
      BY <3>1, <3>2, <3>3 DEF ServerInv
  <2> QED
    BY <2>2, <2>3, <2>4, <2>5, <2>6, <2>7, <2>8, <2>9, <2>10, <2>11, <2>12, <2>13, <2>14, <2>15,
       <2>16, <2>17, <2>18, <2>19, <2>20, <2>21 DEF ServerNext
<1> QED
  BY <1>1, ServerBegins, PTL DEF ServerSpec

(* Once the syncs are done, the server on screen is the one last asked for *)
(* and the participants shown are those of the hub, however many syncs,    *)
(* edits, moves, errors and lost connections there were.                   *)
THEOREM TheServersSettle == ServerSpec => []ServerListSettles
<1>1. ServerInv => LastChoiceWins
  <2> SUFFICES ASSUME ServerInv, commands = <<>>, ~spoilt, choice # 0 PROVE selectedServer = choice
    BY DEF LastChoiceWins
  <2>1. \A j \in 1..MaxSyncs : ~syncs[j].on
    BY NothingAwaited DEF ServerInv, SyncsRight
  <2> QED
    BY <2>1 DEF ServerInv, ChoiceRight, Wants
<1>2. ServerInv => VoiceListRight
  <2> SUFFICES ASSUME ServerInv, linked, ~lateVoice,
                      \A i \in 1..Len(frames) : frames[i].kind \notin {"joined", "left"},
                      NEW s \in servers \intersect members, Voice(s) \in channels \ departing
               PROVE  Voice(s) \in shown <=> caller = Voice(s)
    BY DEF VoiceListRight
  <2>1. s \in Servers /\ frames \in Seq(Incoming)
    BY DEF ServerInv, ServerTypeOK
  <2>2. ShownRight(s)
    BY <2>1 DEF ServerInv, VoiceRight
  <2>3. EndsIn(frames, 0, Voice(s), Voice(s) \in shown) <=> caller = Voice(s)
    BY <2>2 DEF ShownRight
  <2>4. \A i \in DOMAIN frames : i > 0 => ~Word(frames[i], Voice(s))
    BY <2>1 DEF Word
  <2>5. (Voice(s) \in shown) \in BOOLEAN
    OBVIOUS
  <2>6. EndsIn(frames, 0, Voice(s), Voice(s) \in shown) <=> Voice(s) \in shown
    BY <2>4, <2>5, EndsSilent
  <2> QED
    BY <2>3, <2>6
<1> QED
  BY <1>1, <1>2, ServerInvHolds, PTL DEF ServerListSettles

(* What arrives never takes the user out of an open conversation: the      *)
(* conversations are known before the first sync that selects.             *)
THEOREM ConversationsStayOpen == ServerSpec => ConversationStays
<1>1. ASSUME ServerInv, [ServerNext]_serverVars, frames # <<>>, frames' = Tail(frames), errors = 0,
             servers' # {}, selectedChannel = TheDM
      PROVE  selectedChannel' = TheDM
  <2>1. frames \in Seq(Incoming) /\ frames # Tail(frames) /\ Tail(frames) \in Seq(Incoming)
    <3>1. frames \in Seq(Incoming)
      BY <1>1 DEF ServerInv, ServerTypeOK
    <3>2. Len(Tail(frames)) = Len(frames) - 1 /\ Len(frames) \in Nat
      BY <1>1, <3>1, TailFacts
    <3>3. Tail(frames) # frames
      BY <3>2
    <3> QED
      BY <1>1, <3>1, <3>3, TailFacts
  <2>2. \A e : frames' # Append(frames, e)
    <3> SUFFICES ASSUME NEW e, frames' = Append(frames, e) PROVE FALSE
      OBVIOUS
    <3>1. Len(Append(frames, e)) = Len(frames) + 1 /\ Len(frames) \in Nat
      BY <2>1
    <3>2. Len(Tail(frames)) = Len(frames) - 1
      BY <1>1, <2>1, TailFacts
    <3> QED
      BY <1>1, <3>1, <3>2
  <2>3. CASE ChannelsArrive
    <3>1. /\ Head(frames).kind = "answer" /\ asked' = FALSE /\ linked' = linked
          /\ Head(commands).kind = "state"
      BY <2>3 DEF ChannelsArrive, Answered
    <3>2. /\ linked /\ commands # <<>> /\ Head(commands) = commands[1] /\ commands \in Seq(Asking)
      BY <1>1, <3>1, AnAnswerIsTaken
    <3>3. TheDM \in dms
      BY <1>1, <3>1, <3>2, TalkRest DEF ServerInv, TalkRight
    <3>4. \/ selectedChannel' = selectedChannel
          \/ \E y, job : ApplySync(y, job)
      BY <2>3 DEF ChannelsArrive
    <3>5. ASSUME NEW y, NEW job, ApplySync(y, job) PROVE selectedChannel' = selectedChannel
      BY <1>1, <3>3, <3>5 DEF ApplySync, KeepsChannel
    <3> QED
      BY <1>1, <3>4, <3>5
  <2>4. CASE ServersArrive
    BY <1>1, <2>4 DEF ServersArrive, WipeAll
  <2>5. CASE Refused \/ ConversationsArrive
    BY <1>1, <2>5 DEF Refused, ConversationsArrive, listVars
  <2>6. ASSUME NEW c, VoiceArrives(c) \/ MessageArrives(c) PROVE selectedChannel' = TheDM
    BY <1>1, <2>6 DEF VoiceArrives, MessageArrives
  <2>7. ASSUME NEW kind, NEW of, EditAnswered(kind, of) PROVE selectedChannel' = TheDM
    BY <1>1, <2>7 DEF EditAnswered, listVars
  <2>8. CASE HubAnswers \/ HubReads \/ HubPushes \/ HubRefuses \/ PeriodicSync
    BY <1>1, <2>8 DEF HubAnswers, HubReads, HubPushes, HubRefuses, PeriodicSync, listVars
  <2>9. ASSUME NEW c, VoiceJoins(c) \/ VoiceLeaves(c) \/ TellMembers(c) \/ MessageIn(c)
        PROVE  selectedChannel' = TheDM
    BY <1>1, <2>9 DEF VoiceJoins, VoiceLeaves, TellMembers, MessageIn, listVars
  <2>10. ASSUME NEW c, SelectChannel(c) PROVE FALSE
    BY <1>1, <2>1, <2>10 DEF SelectChannel, linkVars
  <2>11. ASSUME NEW s, SelectServer(s) PROVE FALSE
    BY <1>1, <2>1, <2>11 DEF SelectServer
  <2>12. ASSUME NEW kind, NEW of, Edit(kind, of) PROVE FALSE
    BY <1>1, <2>1, <2>12 DEF Edit
  <2>13. CASE CreateServer \/ JoinServer \/ DeleteServer \/ CreateChannel \/ \E c : DeleteChannel(c)
    BY <2>12, <2>13 DEF CreateServer, JoinServer, DeleteServer, CreateChannel, DeleteChannel
  <2>14. CASE Break
    BY <1>1, <2>14 DEF Break
  <2>15. CASE Restore
    BY <1>1, <2>1, <2>15 DEF Restore
  <2>16. CASE UNCHANGED serverVars
    BY <1>1, <2>16 DEF serverVars, listVars
  <2> QED
    BY <1>1, <2>3, <2>4, <2>5, <2>6, <2>7, <2>8, <2>9, <2>10, <2>11, <2>13, <2>14, <2>15, <2>16
       DEF ServerNext
<1>2. ServerInv /\ [ServerNext]_serverVars =>
        [frames # <<>> /\ frames' = Tail(frames) /\ errors = 0 /\ servers' # {}
          => (selectedChannel = TheDM => selectedChannel' = TheDM)]_serverVars
  BY <1>1
<1> QED
  BY <1>2, ServerInvHolds, PTL DEF ServerSpec, ConversationStays

=============================================================================
