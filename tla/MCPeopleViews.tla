--------------------------- MODULE MCPeopleViews ----------------------------
(* The parts of the frontend around servers, conversations and the people  *)
(* in them, checked side by side: a behaviour is one of one part, the      *)
(* others keep their initial state, so the states are the sum of the       *)
(* parts' and not their product.                                           *)
EXTENDS ServerList, Conversations, Search, Account, VoiceRoster, Typing, TLC

VARIABLE part

peopleViewsVars == <<part, serverVars, dmVars, searchVars, accountVars, rosterVars, typingVars>>

(* Where a part has several initial states, only its own behaviours start  *)
(* in each of them; those of the servers start with the other user in the  *)
(* call, who can then leave it and be in it again.                         *)
Init ==
    /\ part \in {"servers", "dms", "search", "account", "roster", "typing"}
    /\ RosterInit /\ TypingInit
    /\ ServerInit /\ caller = (IF part = "servers" THEN Voice(1) ELSE 0)
    /\ part # "servers" => Text(2) \notin channels
    /\ DMInit /\ (part # "dms" => created = {})
    /\ SearchInit /\ (part # "search" => query = 1 /\ room = 1)
    /\ AccountInit /\ (part # "account" => granted)

Next ==
    /\ UNCHANGED part
    /\ \/ part = "servers" /\ ServerNext
       \/ part # "servers" /\ UNCHANGED serverVars
    /\ \/ part = "dms" /\ DMNext
       \/ part # "dms" /\ UNCHANGED dmVars
    /\ \/ part = "search" /\ SearchNext
       \/ part # "search" /\ UNCHANGED searchVars
    /\ \/ part = "account" /\ AccountNext
       \/ part # "account" /\ UNCHANGED accountVars
    /\ \/ part = "roster" /\ RosterNext
       \/ part # "roster" /\ UNCHANGED rosterVars
    /\ \/ part = "typing" /\ TypingNext
       \/ part # "typing" /\ UNCHANGED typingVars

Spec == Init /\ [][Next]_peopleViewsVars
=============================================================================
