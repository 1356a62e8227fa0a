----------------------------- MODULE LocalChats -----------------------------
(***************************************************************************)
(* The chats with the local model: ClawdBot, which calls tools              *)
(* (agents/clawdbot.py, agents/tools.py, routes/clawdbot.py).               *)
(*                                                                         *)
(* One ClawdBot serves every request.  The event loop gives it the user and *)
(* the limit of the request at hand, and the chat then runs in a thread of  *)
(* its own, which reads both again at every tool call.                      *)
(*                                                                         *)
(* The model may answer, name any tool, write nonsense or fail; it may ask  *)
(* for memories up to any level, and offer a text of any level.  A          *)
(* conversation is an object named for the chat that made it: two chats     *)
(* that start one conversation at a time have an object each.  Anybody may  *)
(* name any conversation.                                                   *)
(*                                                                         *)
(* The consent requests the tools raise are ConsentLedger's.                *)
(*                                                                         *)
(* Bounds: each of Chats is asked once; MaxChanges of the consent level.     *)
(***************************************************************************)
EXTENDS Naturals, Sequences, FiniteSets

CONSTANTS
    Chats, UserOf,                  \* the requests, and the user_id of each
    ConversationOf, LimitOf,        \* the conversation and max_iterations of a chat
    Memories, OwnerOf,
    ConsentLevels,                  \* what require_consent_level may be
    MaxConversations, MaxChanges,
    nobody, NotSet

ASSUME LocalChatsAssumption ==
    /\ NotSet \notin 0..3
    /\ \A c \in Chats : LimitOf[c] \in Nat \ {0}
    /\ ConsentLevels \subseteq 0..3
    /\ MaxConversations \in Nat \ {0} /\ MaxChanges \in Nat

Users == {UserOf[c] : c \in Chats}
Conversations == {ConversationOf[c] : c \in Chats}
Sorry == "sorry"        \* the model failed, or the steps ran out

VARIABLES
    botUser, limit,     \* user_id and max_tool_calls of the one ClawdBot
    at, object, left,   \* of a chat: its step, its AgentState, its iterations left
    made, final,        \* of an AgentState: tool_calls_made and final_response
    holds,              \* and the memories in its messages
    table,              \* _conversations, oldest first
    level, kept, live,  \* the level in force, the tools' copy, and whether it is shared
    oldest,             \* the conversation a chat evicts
    overtaken,          \* of a chat under way: what came between
    around,             \* of a conversation: whose chats it had or were taken on meanwhile
    changes

bot == <<botUser, limit>>
thread == <<at, object, left, made, final, table, oldest>>
settings == <<level, kept, live, changes>>
localVars == <<bot, thread, settings, holds, overtaken, around>>

LocalInit ==
    /\ botUser = nobody /\ limit = 0
    /\ at = [c \in Chats |-> "new"]
    /\ object = [c \in Chats |-> c] /\ left = [c \in Chats |-> 0]
    /\ made = [c \in Chats |-> 0] /\ final = [c \in Chats |-> NotSet]
    /\ table = <<>>
    /\ level \in ConsentLevels /\ kept = NotSet /\ live = FALSE /\ changes = 0
    /\ oldest = [c \in Chats |-> nobody] /\ holds = [c \in Chats |-> {}]
    /\ overtaken = [c \in Chats |-> {}] /\ around = [k \in Conversations |-> {}]

-----------------------------------------------------------------------------
(* ClawdBot *)

Ended == {"answered", "failed", "collided"}
UnderWay == {c \in Chats : at[c] \notin Ended \cup {"new"}}
Goes(c, step) == at' = [at EXCEPT ![c] = step]

(* What a request does to the chats under way, whose limit and user it      *)
(* exchanges.                                                               *)
Overtaking(c) ==
    [d \in Chats |-> overtaken[d] \cup
        IF d \notin UnderWay THEN {} ELSE
            {"limit" : n \in {LimitOf[c]} \ {LimitOf[d]}}
            \cup {"conversation" : k \in {ConversationOf[c]} \cap {ConversationOf[d]}}]

Talking == {ConversationOf[d] : d \in UnderWay}

Joined(c) ==
    [k \in Conversations |->
        IF k \in Talking \cup {ConversationOf[c]} THEN around[k] \cup {UserOf[c]} ELSE around[k]]

(* A bug: the user is not exchanged under a running chat. *)
AskKeepsUser(c) ==
    /\ at[c] = "new" /\ Goes(c, "asked")
    /\ botUser' = (IF UnderWay = {} THEN UserOf[c] ELSE botUser) /\ limit' = LimitOf[c]
    /\ overtaken' = [Overtaking(c) EXCEPT ![c] =
           {"conversation" : k \in {ConversationOf[c]} \cap Talking}]
    /\ around' = Joined(c)
    /\ UNCHANGED <<object, left, made, final, holds, table, oldest, settings>>

(* clawdbot_chat up to the executor: get_clawdbot and the limit.            *)
Ask(c) ==
    /\ at[c] = "new" /\ Goes(c, "asked")
    /\ botUser' = UserOf[c] /\ limit' = LimitOf[c]
    /\ overtaken' = [Overtaking(c) EXCEPT ![c] =
           {"conversation" : k \in {ConversationOf[c]} \cap Talking}]
    /\ around' = Joined(c)
    /\ UNCHANGED <<object, left, made, final, holds, table, oldest, settings>>

Resumed(c) == {i \in DOMAIN table : table[i].id = ConversationOf[c]}

(* chat takes up the conversation, or starts one, and counts its rounds.     *)
Resume(c) ==
    /\ at[c] = "asked" /\ Goes(c, "thinking")
    /\ object' = [object EXCEPT ![c] =
           IF Resumed(c) = {} THEN c ELSE table[CHOOSE i \in Resumed(c) : TRUE].object]
    /\ made' = [made EXCEPT ![object'[c]] = 0]
    /\ left' = [left EXCEPT ![c] = limit + 1]
    /\ UNCHANGED <<bot, final, table, oldest, settings, holds, overtaken, around>>

Thinks(c) == at[c] = "thinking" /\ left[c] > 0

(* A bug: a chat may call one tool more than its limit. *)
MayCallOneMore(c) == made[object[c]] <= limit

MayCall(c) == made[object[c]] < limit

ReplyNamesTool(c) ==
    /\ Thinks(c) /\ MayCall(c) /\ Goes(c, "calling")
    /\ made' = [made EXCEPT ![object[c]] = @ + 1]
    /\ left' = [left EXCEPT ![c] = @ - 1]
    /\ UNCHANGED <<bot, object, final, table, oldest, settings, holds, overtaken, around>>

Ends(c, text) ==
    /\ Goes(c, "keeping")
    /\ final' = [final EXCEPT ![object[c]] = text]
    /\ left' = [left EXCEPT ![c] = 0]
    /\ UNCHANGED <<bot, object, made, table, oldest, settings, holds, overtaken, around>>

(* A reply without a tool, or with one too many, is the answer; an error of  *)
(* the model makes an apology of it.                                        *)
ReplyIsFinal(c) == Thinks(c) /\ Ends(c, c)
ModelFails(c)   == Thinks(c) /\ Ends(c, Sorry)

(* The rounds are over without an answer of this turn.                      *)
RunsOut(c) ==
    /\ at[c] = "thinking" /\ left[c] = 0
    /\ Ends(c, IF final[object[c]] = NotSet THEN Sorry ELSE final[object[c]])

(* The chat has its response, the last words of its AgentState, or none.     *)
Returns(c, end) ==
    /\ Goes(c, end)
    /\ left' = [left EXCEPT ![c] = 0] /\ oldest' = [oldest EXCEPT ![c] = nobody]
    /\ overtaken' = [overtaken EXCEPT ![c] = {}] /\ object' = [object EXCEPT ![c] = c]
    /\ UNCHANGED <<bot, made, final, settings, holds, around>>

(* A tool block that is no JSON object raises outside of every handler.      *)
ReplyIsNonsense(c) == Thinks(c) /\ Returns(c, "failed") /\ UNCHANGED table

-----------------------------------------------------------------------------
(* The tools *)

(* What search_memory, reflect_on_memories and get_memory_timeline may give  *)
(* the chat for whatever the model asks, and its conversation keeps.        *)
Found(user) == {m \in Memories : OwnerOf[m] = user}

(* The settings are fetched when a tool first needs them, and kept.          *)
Threshold == IF kept = NotSet THEN level ELSE kept

(* A bug: only what is above the level is asked about. *)
NeedsConsentAbove(n) == n > Threshold

(* A text of write_memory that is not stored at once but asked about.        *)
NeedsConsent(n) == n >= Threshold

Called(c) ==
    /\ at[c] = "calling" /\ Goes(c, "thinking")
    /\ UNCHANGED <<bot, object, left, made, final, table, oldest, overtaken, around>>

ReadMemory(c) ==
    /\ Called(c)
    /\ \E found \in SUBSET Found(botUser) : holds' = [holds EXCEPT ![object[c]] = @ \cup found]
    /\ UNCHANGED settings

WriteMemory(c) ==
    /\ Called(c) /\ holds' = holds
    /\ kept' = Threshold
    /\ live' = (live \/ kept = NotSet)
    /\ UNCHANGED <<level, changes>>

(* request_consent looks a memory up by its id, whatever user it is of, and  *)
(* raises a consent request with its text; the model is told no more of it   *)
(* than the request's id and that it is pending.                            *)
RequestConsent(c) == Called(c) /\ UNCHANGED <<settings, holds>>

(* A tool that is not there or fails gives an error. *)
OtherTool(c) == Called(c) /\ UNCHANGED <<settings, holds>>

-----------------------------------------------------------------------------
(* The table of conversations *)

Keep(c) ==
    /\ at[c] = "keeping" /\ Goes(c, "kept")
    /\ table' = IF Resumed(c) = {}
                THEN Append(table, [id |-> ConversationOf[c], object |-> object[c]])
                ELSE [i \in DOMAIN table |-> IF i \in Resumed(c)
                        THEN [table[i] EXCEPT !.object = object[c]] ELSE table[i]]
    /\ UNCHANGED <<bot, object, left, made, final, oldest, settings, holds, overtaken, around>>

NothingToEvict(c) ==
    /\ at[c] = "kept" /\ Len(table) <= MaxConversations
    /\ Returns(c, "answered") /\ UNCHANGED table

FindOldest(c) ==
    /\ at[c] = "kept" /\ Len(table) > MaxConversations /\ Goes(c, "evicting")
    /\ oldest' = [oldest EXCEPT ![c] = Head(table).id]
    /\ UNCHANGED <<bot, object, left, made, final, table, settings, holds, overtaken, around>>

(* The table without its i-th entry. *)
Without(i) == [j \in 1..(Len(table) - 1) |-> table[IF j < i THEN j ELSE j + 1]]

EvictOldest(c) ==
    /\ at[c] = "evicting"
    /\ \E i \in DOMAIN table :
          table[i].id = oldest[c] /\ table' = Without(i)
    /\ Returns(c, "answered")

(* del raises when another chat was faster. *)
OldestIsGone(c) ==
    /\ at[c] = "evicting"
    /\ \A i \in DOMAIN table : table[i].id # oldest[c]
    /\ Returns(c, "collided") /\ UNCHANGED table

-----------------------------------------------------------------------------
(* PUT /v1/config *)

(* The settings change in place and are read anew, by those who ask again.   *)
Configure(n) ==
    /\ n # level /\ changes < MaxChanges
    /\ level' = n /\ kept' = IF live THEN n ELSE kept
    /\ live' = FALSE /\ changes' = IF kept = NotSet THEN 0 ELSE changes + 1
    /\ UNCHANGED <<bot, thread, holds, overtaken, around>>

ChatStep(c) ==
    \/ Resume(c) \/ ReplyNamesTool(c) \/ ReplyIsFinal(c) \/ ModelFails(c) \/ ReplyIsNonsense(c)
    \/ RunsOut(c) \/ ReadMemory(c) \/ WriteMemory(c) \/ RequestConsent(c) \/ OtherTool(c)
    \/ Keep(c) \/ NothingToEvict(c) \/ FindOldest(c) \/ EvictOldest(c) \/ OldestIsGone(c)

LocalNext ==
    \/ \E c \in Chats : Ask(c) \/ ChatStep(c)
    \/ \E n \in ConsentLevels : Configure(n)

LocalSpec == LocalInit /\ [][LocalNext]_localVars

-----------------------------------------------------------------------------
(* A chat has in its messages, from whatever turn of its conversation, the   *)
(* memories only of users who chatted in it or whose chat was taken on while *)
(* one of it ran: nothing comes from another conversation, through the one   *)
(* bot, the table, eviction or an AgentState that two chats share.           *)
OwnMemories ==
    \A c \in Chats : \A m \in holds[object[c]] : OwnerOf[m] \in around[ConversationOf[c]]

(* The answer is of this turn, never the one of an earlier turn of the       *)
(* conversation, unless a chat with another limit or of the same conversation*)
(* was taken on while it ran.                                               *)
OwnAnswer ==
    \A c \in Chats : at[c] \in {"kept", "evicting"}
                        /\ overtaken[c] \cap {"limit", "conversation"} = {} =>
        final[object[c]] \in {c, Sorry}

(* What the bot would store without asking is below the level from which the *)
(* user wants to be asked, up to the first change of that level the bot has  *)
(* seen: a second one never reaches it.                                     *)
AskedFirst == changes <= 1 => \A n \in 0..3 : n >= level => NeedsConsent(n)

=============================================================================
