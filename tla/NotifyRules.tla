----------------------------- MODULE NotifyRules -----------------------------
(***************************************************************************)
(* Does a message notify?  The rules of services/notifications/rules.ts,   *)
(* as an open tab applies them, and the policy of the push sender          *)
(* (push/sender.go over the SQL of notifications.go), which must agree.    *)
(*                                                                         *)
(* The client works on its copy of the settings and on what it knows of    *)
(* the channels.  A change made in this tab is one request; the answers    *)
(* bring the whole settings back and may overtake each other.              *)
(***************************************************************************)
EXTENDS Naturals, FiniteSets

CONSTANTS
    MaxPatches      \* bound: changes of the settings

Levels == {"all", "mentions", "none"}
Unset == "unset"        \* no row, or no level in it
Untils == {"unset", "past", "future"}

\* The settings that apply to one channel, its server and its user.
Settings == [channel : Levels \union {Unset}, server : Levels \union {Unset},
             default : Levels, channelMuted : Untils, serverMuted : Untils,
             dnd : Untils]

VARIABLES
    stored,         \* the rows of the database
    copy,           \* settings of useNotificationSettings
    answers,        \* settings on their way back to the tab
    isDM,           \* the channel is a conversation
    inLists,        \* the tab lists the channel under its server or as a DM
    viewed,         \* the channel is open and the page visible
    patches,
    inTab, pushed   \* what the tab, and the sender for a closed tab, decide

ruleVars == <<stored, copy, answers, isDM, inLists, viewed, patches, inTab, pushed>>

\* Every setting of a kind, the others as a new account has them.
Fresh == [channel |-> Unset, server |-> Unset, default |-> "all",
          channelMuted |-> "unset", serverMuted |-> "unset", dnd |-> "unset"]

RuleInit ==
    /\ stored \in Settings /\ copy = stored /\ answers = {}
    /\ isDM \in BOOLEAN /\ inLists \in BOOLEAN /\ viewed \in BOOLEAN
    /\ isDM => stored.server = Unset /\ stored.serverMuted = "unset"
    /\ patches = 0 /\ inTab = "unset" /\ pushed = "unset"

-----------------------------------------------------------------------------
(* The tab *)

\* Bug: a conversation falls back on the level of the account.
ResolveLevelGlobal(s, ofServer) ==
    IF s.channel # Unset THEN s.channel
    ELSE IF ofServer /\ s.server # Unset THEN s.server ELSE s.default

\* resolveLevel: channel, then server, then account; a DM stops at the channel.
ResolveLevel(s, ofServer) ==
    IF s.channel # Unset THEN s.channel
    ELSE IF ~ofServer THEN "all"
    ELSE IF s.server # Unset THEN s.server ELSE s.default

IsMuted(s, ofServer) == s.channelMuted = "future" \/ (ofServer /\ s.serverMuted = "future")

\* shouldNotify.  A channel the tab does not list resolves to no server.
ShouldNotify(mention) ==
    LET ofServer == ~isDM /\ inLists
        level    == ResolveLevel(copy, ofServer)
    IN  IF \/ viewed \/ copy.dnd = "future" \/ level = "none" \/ IsMuted(copy, ofServer)
           \/ level = "mentions" /\ ~mention
        THEN "none" ELSE IF mention THEN "mention" ELSE "message"

-----------------------------------------------------------------------------
(* The server *)

\* ResolveNotificationTargets: COALESCE of the levels, GREATEST of the mutes.
TargetLevel == IF stored.channel # Unset THEN stored.channel
               ELSE IF isDM THEN "all"
               ELSE IF stored.server # Unset THEN stored.server ELSE stored.default

TargetMuted == stored.channelMuted = "future" \/ stored.serverMuted = "future"

\* processEvent, for a user who is not connected.
ProcessEvent(mention) ==
    IF \/ stored.dnd = "future" \/ TargetMuted \/ TargetLevel = "none"
       \/ TargetLevel = "mentions" /\ ~mention
    THEN "none" ELSE IF mention THEN "mention" ELSE "message"

-----------------------------------------------------------------------------
(* Steps *)

\* A message, that mentions the user or not, and both decisions on it.
MessageComes(mention) ==
    /\ inTab' = ShouldNotify(mention) /\ pushed' = ProcessEvent(mention)
    /\ UNCHANGED <<stored, copy, answers, isDM, inLists, viewed, patches>>

\* A change of one setting is stored; its answer is on the way.
Patch(field, value) ==
    /\ patches < MaxPatches /\ patches' = patches + 1
    /\ stored[field] # value /\ stored' = [stored EXCEPT ![field] = value]
    /\ isDM => field \notin {"server", "serverMuted"}
    /\ answers' = answers \union {stored'}
    /\ inTab' = "unset" /\ pushed' = "unset"
    /\ UNCHANGED <<copy, isDM, inLists, viewed>>

\* The last answer to arrive is what the tab keeps.
PatchAnswered(s) ==
    /\ s \in answers /\ answers' = answers \ {s} /\ copy' = s
    /\ inTab' = "unset" /\ pushed' = "unset"
    /\ UNCHANGED <<stored, isDM, inLists, viewed, patches>>

RuleNext ==
    \/ \E mention \in BOOLEAN : MessageComes(mention)
    \/ \E field \in {"channel", "server"}, value \in {"all", "none"} : Patch(field, value)
    \/ Patch("dnd", "future") \/ Patch("channelMuted", "future")
    \/ \E s \in answers : PatchAnswered(s)

-----------------------------------------------------------------------------
(* Properties *)

\* A background tab and a push for a closed tab decide alike on every message
\* and every setting (rules.ts: "the two must never diverge"), as long as the
\* tab lists the channel and its copy of the settings is the stored one.
TabAndPushAgree ==
    ~viewed /\ copy = stored /\ (isDM \/ inLists) => inTab = pushed
=============================================================================
