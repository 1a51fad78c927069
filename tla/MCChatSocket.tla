---------------------------- MODULE MCChatSocket ----------------------------
(***************************************************************************)
(* Which command is of which kind, and the conversation "open" opens.      *)
(***************************************************************************)
EXTENDS ChatSocket, TLC

CONSTANTS load, search, open, conversation, message, nothing

OneOfEach == load :> "loop" @@ search :> "off" @@ open :> "typed"
Conversation == [c \in Cmds |-> IF c = open THEN conversation ELSE nothing]
=============================================================================
