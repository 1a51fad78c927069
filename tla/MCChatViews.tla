---------------------------- MODULE MCChatViews -----------------------------
(* The parts around the messages of a channel, in the frontend and on      *)
(* their way to it, checked side by side: a behaviour is one of one part,  *)
(* the others keep their initial state, so the states are the sum of the   *)
(* parts' and not their product.                                          *)
EXTENDS MessageView, ReadMarks, Edits, Composer, NotifyRules, Tabs, HubDelivery, TLC

CONSTANTS u1, k1, k2

(* Two connections of one user, of which the second evicts the first.      *)
OneUser == k1 :> u1 @@ k2 :> u1

VARIABLE part

chatViewsVars == <<part, messageVars, readVars, editVars, composerVars, ruleVars, tabVars, deliveryVars>>

(* Where a part has several initial states, only its own behaviours start  *)
(* in each of them.                                                        *)
Init ==
    /\ part \in {"messages", "reads", "edits", "composer", "rules", "tabs", "delivery"}
    /\ MessageInit /\ EditInit /\ ComposerInit /\ TabInit /\ DeliveryInit
    /\ ReadInit /\ (part # "reads" => newest = Zero)
    /\ RuleInit /\ (part # "rules" => stored = Fresh /\ ~isDM /\ ~inLists /\ ~viewed)

Next ==
    /\ UNCHANGED part
    /\ \/ part = "messages" /\ MessageNext
       \/ part # "messages" /\ UNCHANGED messageVars
    /\ \/ part = "reads" /\ ReadNext
       \/ part # "reads" /\ UNCHANGED readVars
    /\ \/ part = "edits" /\ EditNext
       \/ part # "edits" /\ UNCHANGED editVars
    /\ \/ part = "composer" /\ ComposerNext
       \/ part # "composer" /\ UNCHANGED composerVars
    /\ \/ part = "rules" /\ RuleNext
       \/ part # "rules" /\ UNCHANGED ruleVars
    /\ \/ part = "tabs" /\ TabNext
       \/ part # "tabs" /\ UNCHANGED tabVars
    /\ \/ part = "delivery" /\ DeliveryNext
       \/ part # "delivery" /\ UNCHANGED deliveryVars

Spec == Init /\ [][Next]_chatViewsVars
=============================================================================
