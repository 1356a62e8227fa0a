# A TLA+ model of closedclaw

closedclaw is a personal memory server. It stores memories about its user, puts some of
them into the prompts it forwards to language model providers, asks the user before it
lets the sensitive ones out, and writes down what it did. The code is Python
(`src/closedclaw-master/src/closedclaw/api`, FastAPI on one asyncio event loop, SQLite
for everything that lasts), with a small TypeScript library, a browser extension and a
dashboard beside it.

This directory holds TLA+ modules of the parts that decide what leaves the machine and
what is remembered about it, TLC configurations that check them on small instances, and
proofs for every value of the constants. Paths below are relative to
`src/closedclaw-master/src/closedclaw/api`.

## 1. Inventory

### Parts that carry the promise of the program

| part | code | state | operations | what makes it correct |
|---|---|---|---|---|
| Consent ledger | `routes/consent.py`, `core/storage.py`, `agents/tools.py` | tables `consent_pending`, `consent_receipts`, `consent_preferences`; dictionaries in front of the first two; a loaded flag | load, list, create, hold (by the bot), respond | no answer is lost, none is asked for twice, a remembered answer goes back to a receipt |
| Audit log | `routes/audit.py`, `core/storage.py` | table `audit_entries`; a capped list; two indexes; `_last_hash` | load, append, evict, verify, fetch | the table is one hash chain across restarts; verification accepts what nobody touched |
| Policy rules | `core/policies.py` | rules of the policy directory | load, evaluate | a block is passed by no rule of lower rank; the consent gate is reachable |
| Chat gateway | `routes/proxy.py` | one request: settings, engine, provider, permitted memories, endpoint | arrive, enrich, post, answer, log, write back | a memory goes only where its verdict allows, and an entry says so |
| Privacy firewall | `privacy/firewall.py` | none | judge, redact, ask | every memory in a prompt was judged, at no less than its own level |
| Settings | `core/config.py`, `routes/config_routes.py` | the cached object, its file | read, put, effective provider | a request sees one provider, or what it sends is fit for both |
| Policy store | `routes/policies.py`, `deps.py` | `custom.json`, the cached engine | create, update, delete, load | the engine in use is that of the files |
| Agent swarm | `agents/swarm/coordinator.py` and the agents | tasks and their contexts, agents, pipelines, the circuit breaker, two coordinators | execute, toggle, set a pipeline | nothing unjudged leaves; what is withheld is reported; every task ends |
| Memory vault | `core/memory.py`, `routes/memory.py`, `core/storage.py` | metadata rows, the mem0 copy, the mock copy, the key files | add, update, delete, search | a deleted memory is nowhere; a text is served at a level that fits it; a row and its ciphertext agree |
| Add-on sessions | `core/addon_auth.py`, `routes/addon.py` | sessions by id, ids by token | register, authenticate, validate, revoke, expire, evict | a token finds the session that was given it, or nothing |

### Parts around them

| part | code | state | what makes it correct |
|---|---|---|---|
| Swarm keys and messages | `agents/swarm/crypto.py` | key files, keyrings, nonce registry | an agent keeps one key pair; nothing is accepted twice under one nonce |
| Swarm constitution | `agents/swarm/constitution.py`, `routes/swarm.py` | its file, a copy per coordinator | what the user decided is in force and on disk |
| ClawdBot | `agents/clawdbot.py`, `agents/tools.py`, `routes/clawdbot.py` | one bot for all requests, its conversation table, one thread per chat | a memory gets into a conversation through its own chats or not at all; a chat gets its own answer |

| Classifier, detector, redactor | `privacy/*.py` | none | a text is given the level of all that is found in it, and exactly that is cut out |
| Consent notifier | `routes/ws_consent.py` | registry of connections | a connected dashboard misses no request |
| Termination lock | `core/termination_lock.py`, `routes/addon.py` | the password's hash in memory and in `shutdown.key`, the lock, failed attempts | the password the user was shown opens it; guessing is limited |
| Bridge of the agents in Docker | `docker/bridge/main.py`, `routes/bridge.py`, `mcp_services/base.py` | `closedclaw.yaml`, counters, log; the host's connectors | limits hold; what the host handled is logged |
| Vector store | `vector_stores/sqlite_vec.py` | vectors, metadata, audit rows, embedding cache | the three tables agree; what has expired is not found |
| Server and command line | `app.py`, `cli.py`, `core/config.py` | the files of `~/.closedclaw` | one token; a change lasts |

The memory chat (`routes/memory_chat.py`), envelope encryption (`core/crypto.py`), the
rate limiter (`deps.py`), the local engine (`core/local.py`), insights, the MCP server
of `routes/mcp.py`, the TypeScript library, the extension and the dashboard are not
modelled.

### How they interact

    client --> chat gateway --> privacy firewall --> policy rules <-- policy store
                   |    \             |
                   |     \            +--> consent ledger <--> user, ClawdBot thread
                   |      +--> agent swarm --> governance agent --> privacy firewall
                   +--> provider (awaited)         |
                   +--> audit log <----------------+--- consent ledger
                   +--> write-back --> memory vault, consent ledger

    add-on --> sessions --> agent swarm --> memory vault
    agents in Docker --> bridge --> host's connectors, chat gateway
    dashboard <-- notifier <-- consent ledger
    signal, add-on --> termination lock --> server

Most calls are plain function calls on the event loop, which makes a handler without an
`await` atomic with respect to the other handlers of the loop. Three things break that.
ClawdBot's tools run in an executor thread and reach the same module dictionaries
(`routes/clawdbot.py:196`). Dependencies declared with `def`, such as `get_settings` and
`get_policy_engine`, are resolved in worker threads. And a chat is suspended while its
dependencies are resolved, while the swarm's threads work and while the provider is
awaited.

### Hard behaviours

- Two threads in one lazily loaded cache: the loaded flag is raised before the rows are read.
- A handler of several SQLite transactions, each of which may fail and between any two of which the process may die.
- A configuration object that is changed in place under the requests that hold it.
- Values read before a suspension and read again after it (the provider, above all).
- A pipeline whose failure paths end with a default value.
- Capped caches beside a table that is not capped.
- Several servers, several coordinators, several keyrings on the same files.
- Files that are written in place, and threads that load one while it is changed and store what they loaded afterwards.
- One bot object, handed from request to request while the threads of earlier requests still use it.
- A request the sender has given up on and the receiver still carries out.

`PROJECT.json` lists each of these at its line, with the properties that watch it or the
reason why none does yet.

## 2. Modules

| module | models | used by |
|---|---|---|
| `ConsentLedger` | the consent ledger, its threads, failing writes and crashes | `MCConsentLedger`, `Consent_proofs` |
| `AuditChain` | the audit log of one or more servers, and the swarm's auditor | `AuditChain_proofs` |
| `PolicyRules` | rule matching, the shipped rules, loading, the verdict of the firewall | `ChatGateway`, `SwarmPipeline`, `ChatGateway_proofs` |
| `ChatGateway` | a chat from arrival to audit entry, through either pipeline; answers, remembered answers, changes of configuration and rules | `MCChatGateway`, `ChatGateway_proofs` |
| `SwarmPipeline` | the tasks of the swarm through its agents, from either coordinator | `MCSwarmPipeline`, `Agents_proofs` |
| `MemoryVault` | the vault's rows, mem0's copies and the dictionary under add, update, delete, search, listing, failures, crashes and threads | `MCMemoryVault`, `Memory_proofs` |
| `AddonTokens` | abstractly, what the sessions promise about tokens | `AddonSessions` |
| `AddonSessions` | the add-on's registration, challenge, tokens, expiry and eviction; implements `AddonTokens` | `MCAddonSessions`, `Access_proofs` |
| `HomeFiles` | rules, settings, token and constitution: their files and what the process holds of them | `HomeFiles_proofs` |
| `PiiText` | detection, merging, level, redaction and unredaction of one text | `MCPiiText`, `PiiText_proofs` |
| `LocalChats` | ClawdBot's chats in their threads | `MCLocalChats`, `Consent_proofs` |
| `AgentKeyring` | key files, keyrings and nonce registries of one agent | `MCAgentKeyring`, `Agents_proofs` |
| `VectorStore` | several stores on one SQLite file | `Memory_proofs` |
| `SlidingWindow` | the lists of times by which the lock, the bridge and the connectors limit | `TerminationLock`, `ControlBridge` |
| `TerminationLock`, `ConsentNotifier`, `ControlBridge` | the shutdown password; the dashboards' websocket; the bridge of the agents in Docker | `Doors` |
| `Doors` | the three on one clock, in any interleaving | `MCDoors`, `Access_proofs` |

### ConsentLedger

`diskPending`, `diskReceipts`, `prefs` and `auditLog` are the tables; `cachePending`,
`cacheReceipts` and `loaded` the module globals of `routes/consent.py:31-33`. `pc`,
`arg` and `rows` are the local state of a thread inside a handler. One action is one
SQLite transaction or one access to a dictionary, since that is what threads and crashes
can separate:

- `Enter` is the head of every handler, with `_ensure_loaded`'s test and its flag; `Fetch`, `Install` and `LoadReceipts` are the rest of `_ensure_loaded`.
- `SavePending` and `CachePending` are the two writes of `create_consent_request`; the bot's `request_consent` has only the second ("hold").
- `SaveReceipt`, `ClearPending`, `AuditDecision`, `RememberProvider`, `RememberTag` are the steps of `respond_to_consent`, in its order, each with its failure: the first refuses the answer, the others log and go on.
- `Crash` empties what is in memory and keeps every committed row.

`LoopAlone` says that no thread of the bot has been in the ledger since the start. Two
properties hold only until one comes in, because the loaded flag is raised before the
rows are read (section 6).

An identifier is used once (they are uuid4). Receipts are kept in the order of their
timestamps and have no signature, which plays no part in what is stored.

### AuditChain

`disk` is the table in rowid order; `cache`, `index` and `last` are `_audit_entries`,
`_audit_by_id` and `_last_hash` of each process. The hash of an entry is the entry's
number: SHA-256 is taken to be free of collisions. `AppendEntry` is `add_audit_entry` up
to the INSERT (predecessor, list, index, eviction); `Persist` is the INSERT with its
COMMIT, whose failure is only logged; `Fetch` and `FetchLast` are the two reads of
`_ensure_loaded`, one by timestamp and one by rowid. All writers of a process share one
connection: a row whose COMMIT failed stays in `open`, the process reads it (`Table`),
and `OtherWrite`, or the next `Persist`, commits or loses it. `Restart` is the death of
a process; `PowerLoss` also takes back any number of the latest rows, which
`synchronous=NORMAL` allows. `Verifies` is what `verify_audit_chain` computes over the
list, and `Vote` what the swarm's auditor answers over the newest rows of the table,
which it reads at any moment.

### PolicyRules

A rule is a record of its conditions; a condition that is left out is the range or set
that constrains nothing. `Verdict` is `PolicyEngine.evaluate` followed by the firewall's
default for the level. `Before` is the order of the stable sort by falling priority.
`Normalised` is the part of `load_policies` that raises the consent gate above the block
of level 3.

### ChatGateway

`settings` is the sequence of Settings objects made so far: `PUT /v1/config` changes the
last one in place and appends its successor, so a request keeps the object it was handed
(`view`) and sees exactly the changes its holder would see. `engine` is the cached rule
list, `rules[q]` what a chat was handed. `Legacy` is `_enrich_with_memory` with the
firewall, up to the posting of the prompt (there is no suspension in between);
`SwarmBegins` and `Governed` or `Ungoverned` are the swarm's pipeline, cut at its
suspension; `StreamStarts` and `StreamAbandoned` are the generator of a streamed answer,
which posts only when it is first read; `Answered`, `Refused` and `Writeback` come after
the provider. What a search finds is any set of memories.

The consent ledger appears here as three variables and one atomic `Respond`: on the
event loop `respond_to_consent` has no suspension, and the failures and threads that cut
it are the subject of `ConsentLedger`.

### MemoryVault

A memory is kept three times: `rows` is `memory_metadata`, `mem0` is mem0's own store,
`mock` is `_mock_memories`; `up` says whether mem0 could be started. `Add` is `add` up
to its copy (classification, consent gate, mem0 or the dictionary) and `Persist` its
INSERT; `Update` and `Reseal` are the two halves of `update`, `Delete`, `DropRow` and
`Forget` the three of `delete`, `DropAllRows` and `ForgetAll` the two of `delete_all`.
Bulk deletion is a sequence of deletions. A row has a `content` in the clear and a
`sealed` text with a key, and `Readable` is what a start decrypts from it. `Searched`
and `Listed` are what `search` and `get_all` return under a cap: the first goes by
mem0's copy of the level, the second by the row's. `deleted` remembers the answers
given to the user.

mem0 is external (`Mem0Adds`). It makes none, one or several memories of a text, each
new or merged with one it has, in words of its own; it is assumed to add no signs of a
level the text does not have (`Reworded`). `Add` encrypts the text once (`seals`) and
`Persist` writes one row for each result, one INSERT at a time (`more`), all with the
text that was given and its level. A merged memory may keep words of its older text that
the new level does not cover: `older` marks it, and `LevelFitsText` leaves it out
(section 6).

### AddonSessions

`sessions` is `_sessions`, `index` is `_token_index`. A challenge is its number in the
order of issue, and so is the token made from it; the oldest session, which the code
finds by `created_at`, is the one with the smallest number. A used challenge is cleared
to `b""`, and `authenticate` looks for the first session whose challenge is that of the
request: a session is `open` until its challenge is cleared, and an empty challenge in a
request finds the first in the dictionary (`place`) of those that are not (`Matched`).
If the challenge was issued too long ago, that session is dropped, signed or not
(`ChallengeExpired`); otherwise a signature of nothing gives the add-on the token of the
empty challenge, the same each time, which is named by the add-on (`TokenFor`). The
manager is only reached from the event loop and never awaits, so each method is one
action; `Refuse` is the clean-up hidden in `validate_session`, and `RegisterRefused` the
eviction that precedes the rejection of a malformed key. `asked`, `given` and `until`
are what the add-ons were told, kept to state what a token may do. The routes look a
session up by the add-on of a token, so after a second registration and a new signature
an old token is good again, for as long as the new session lasts. `get_active_sessions`
has no caller and is left out.

`AddonTokens` is what this amounts to for someone who holds a token: it is given to one
add-on, and starts to be accepted only in a step in which that add-on signs a challenge.
It is given once, but for the `Lasting` ones, those of the empty challenge. `PromiseKept`
reads `owner` off the tokens that were given and `live` off `validate_session`.

### SwarmPipeline

One action per turn of `execute`'s loop: `Skip` and `Trip` are its two early ends of a
turn, `Call` suspends in an agent that waits for a search or a model, `Answer`, `Fail`
and `Tampered` are what becomes of a call, and `Persist`, `Store` and `Finish` what
follows the loop. What an agent does to the shared context is the set of its possible
replies (`AccessorReplies`, `GovernanceReplies`, …); what a model says is any answer.
`hasVault` tells the coordinator of `routes/swarm.py` from the one `get_swarm()` makes,
which has no vault and no settings. A caller of `POST /v1/swarm/tasks` may send a context
of any content, which is merged with what the task begins with (`Contexts`); it may claim
to hold memories judged already, and what is `Brought` like that is its own data. An
agent's objection is no key of the context, so a caller cannot bring or remove one
(`Objects`). `says` is whether the task has a text for the maker, which extracts facts
whatever the type of the task. `SetAgentEnabled`, `SetPipeline` and
`PutConstitution` may come between any two turns. A key file that does not match its
public key makes the agent's answers fail to verify (`broken`), as happens after a
rename of the machine (`AgentKeyring`).

### HomeFiles

`defaults`, `custom`, `config`, `token` and `constitution` are the files, which are
`Absent`, `Torn` or whole; `engine` is `_policy_engine`, `cache` the `lru_cache` of
`get_settings`, `law` the constitution of each coordinator. A file is written in two
steps, emptied and filled, and a crash or a failing write may come between them. `Start`
to `KeepConstitution` are `init_closedclaw`. `CreatePolicy`, `UpdatePolicy` and
`DeletePolicy` are followed by `RulesSaved` and `RulesInForce` (or `ReloadFails`),
`PutConfig` by `ConfigSaved` and `ClearCache`; `LoadEngine`/`StoreEngine` and
`LoadSettings`/`StoreSettings` are the two dependencies in their threads, `stale` those
a change overtook. A rule is an id in one of two forms, the settings are the consent
level.

### PiiText

`Init` chooses the matches, `KeepBeside`, `KeepInstead` and `LeaveOut` are a turn of
`_remove_overlaps`, `Classify` is the level, `Replace` a turn of the redactor's loop
over the offsets of the original text, `PutBack` and `NextMapping` are `unredact`. A
character is its position and an entity a span of them with a type, so a wrong offset
shows as a character too many or too few.

### LocalChats

`botUser` and `limit` are fields of the one bot; a chat `c` has a step `at[c]` and an
`AgentState` `object[c]`, which it shares with the other turns of its conversation in
`table`; `holds` is which memories are in its messages. Whose a conversation is is
written down nowhere: any user may name any. `Ask` is the handler on the event loop,
`ChatStep` the thread: model call, tool call, tool, end, and the eviction of the oldest
conversation, in the steps in which threads can overtake each other. `overtaken`
remembers what did, and `around` whose chats ran in a conversation or were taken on
while one did. `ReadMemory` finds what is of the bot's user at that moment, which the
three reading tools give to the model; `RequestConsent` finds any memory by its id and
copies its text into a consent request, of which the model is told the id only.

### AgentKeyring

`disk` has a key per file, `held` the pair each ring has in memory; `writes` is what
`_ensure_key` has still to write or unlink, so that `Restart` may come between any two
of its writes and cut one short, and `WriteFails` may end it. `Rename` is a change of
machine or user name, after which the sealed files do not open. `Sign`, `Verify` and
`Replayed` use a ring's nonce registry, which forgets what is older than its time to
live only once it is full. The nonce is made after the message is signed and is no part
of what is signed: a signed message may come under any nonce or none (`NoNonce`), and
then nothing is looked up.

### VectorStore

`db` is what is committed, `work` and `left` what the open transaction sees and has
still to write; `Step` runs the next statement, commits, or fails and rolls back. A
search is three transactions (`found` and `dead` tell what came of them). The stores
share nothing but the file.

### The three parts of MCDoors

`TerminationLock` has the steps of `install` (`Load`, `Generate`, `Truncate`, `Write`,
`Tell`, `Install`), the two routes and `_handle_signal`; `known` is the password the
user was last shown or told is set, and `judged` the wrong ones the shutdown route has
judged: that of the password (`RefusePut`) judges any number and counts none.
`ConsentNotifier` has the websocket's life (`Accept`, `Register`, `Leave`,
`Disconnect`), a broadcast client by client with the pruning after it, and the
dashboard's own listing; its endpoint ends when the dashboard leaves, or sends what is
no JSON. `ControlBridge` has both ends of what the agents in Docker ask for: the
bridge's checks, limits and log, what it forwards (`inbox`), and the host, which handles
it whether the bridge still waits or not. A line of the log that cannot be written is
given up (`Log`), but a directory that cannot be made ends the handler before it
forwards anything (`BreaksOff`).

A limit of this code is a list of times, from which the old ones are dropped before the
rest is counted and a new one appended. `SlidingWindow` keeps such a list as a set of
marks, each a time with its place among all that happened (`NewMark`), so that what is
still in the list can be compared with what happened (`AtMost`).

`Doors` composes the three on one clock and one count of faults: a step is a step of one
of them, by `INSTANCE`, with the variables of the others unchanged. They share nothing
else, and `MCDoors` explores each while the others stand still at their start (`scene`);
their clients and calls have values in common so that one permutation serves as a
symmetry of all three. The theorems are about `Doors`, with all interleavings.
`LimitsHold` is the limit on attempts of the shutdown route (`ShutdownLockout`) and the
bridge's limits on requests (`WithinLimits`) together.

## 3. What is checked

| run | instance | properties | shows |
|---|---|---|---|
| `Consent` | loop and one bot thread, 2 requests for 2 providers, 1 tag, page of 1, 1 failing call, 1 crash | `PreferenceHasReceipt`, `CacheBacked`, `PendingServed`, `AnsweredOnce`, `DeletedOnlyOnceAnswered` | no decision is lost, every remembered answer goes back to a receipt, what is offered survives a restart and is answered once |
| `AuditOneServer` | list of 3, page of 4, auditor's window of 2, 6 entries, 2 failures, 2 restarts or power losses | `RowsFollow`, `DiskIsChain`, `VerifiesUnlessEvicted`, `AuditorPermits` | one server keeps one chain, with gaps only where a call failed, and nobody refuses a log nothing was done to |
| `Gateway` | 2 chats, 3 memories and a candidate, 3 providers, 2 configurations, 3 rule sets, 2 hours, 2 changes, 2 answers | `GuardedStaysHome`, `AnsweredIsAudited`, `ConsentBacked`, `LatestAnswerFollowed` | what leaves, on whose word, and what is written down, through every change of configuration, rules and answers |
| `Swarm` | 1 task of any type, both coordinators, no context or one of 2 of the caller's, 2 memories, 3 facts, 2 constitutions, 2 pipelines of the user's, 2 broken keys, 5 calls, 1 change | `OnlyJudgedLeaves`, `WithheldIsReported`, `EveryTaskAnswered` | a task ends, never as completed when something was kept back, and gives away only what the firewall permits |
| `VaultSerial` | the loop, 2 ids, 2 texts, with mem0, which makes up to 2 results, and without, 2 failing calls, 1 crash | `DeletedForGood`, `LevelFitsText`, `RestartKeepsText` | the three stores agree as far as the code can make them |
| `AddonSessions` | 3 add-ons for 2 places, 4 challenges and the empty one, 2 ticks, 1 restart | `AcceptedWhilePromised`, `PromiseKept` | a token speaks for its own add-on, while that has a session; the sessions implement `AddonTokens`, also through cleared challenges |
| `Home` | 2 ids, 2 forms, levels 1 and 3 and the invalid 7, 1 amendment, 2 threads, 3 changes, 1 failing write, 2 crashes | `RulesFollowFile`, `LevelAskedFor`, `OneToken`, `DecisionsKept` | what is in force is what was last saved, through crashes and loads |
| `Text` | 4 characters, up to 3 matches, 3 types, placeholders of 2 characters | `KeptApart`, `LevelOfAll`, `RedactedExactly` | merging, level, redaction and its reversal on every such text |
| `LocalChats` | 3 chats of 2 users, 1 memory, room for 1 conversation, 2 changes of the consent level | `OwnMemories`, `OwnAnswer`, `AskedFirst` | what a conversation is given, and what requests that overtake each other may change |
| `Keyring` | 2 rings, 3 keys, 2 messages under either nonce or none, 2 ticks, nonces kept for 1, registry of 1 | `OneKeyPair`, `AcceptedOnce` | an agent keeps its key through every crash of a migration or generation; a nonce is accepted once in its lifetime |
| `Vectors` | 2 stores, 2 ids, 3 calls, 1 tick | `TrailTellsAll`, `ExpiredNotFound`, `WriterLeaves` | the tables tell one story whatever fails, and no store keeps the file |
| `Doors` | lock: 3 passwords, 2 addresses, 2 attempts in 2 ticks, 3 ticks, 1 failure, 3 starts; notifier: 2 clients, 2 requests; bridge: 3 calls, 2 services, 2 configurations, 1 request in an hour of 1 tick and 2 in a day of 3, 1 a minute, 2 ticks, 1 lost line, 1 edit | `ChosenOpens`, `NothingMissed`, `LimitsHold`, `HandledIsLogged` | the password told is the password; a dashboard that stays hears of everything; limits and log of the bridge |

Properties that the code keeps only under a condition say so in their first conjunct
(`faults = 0`, `LoopAlone`, `~cut`, `overtaken`, `stale`, `excused`); a condition names
the event after which the property really fails, and section 6 says what happens then.

### Why these bounds are enough

- Two requests are enough for two handlers to interfere; with a page of one receipt, two answered requests already overflow it. The code's page is 100. One failure and one crash may fall on every step of every handler; each property is about one request or one preference, and a second failure repeats the effect of the first. Calls fail in states in which the bot has not come in, and it comes in where none failed (`MCBound`): the two together are outside this run.
- A list of 3 and a page of 4 keep the order of the code's 10 000 and 100 000 and overflow both within 6 entries. Two failures allow a failed write followed by a failed load, the case in which a fork could come about.
- Three memories stand for levels 1, 2 and 3, the last with a tag a shipped rule names; the providers are one local, one with a key and one without, which reaches every branch of `get_effective_provider`; the custom permits are one that outranks the shipped block and one that does not, the first only in the morning. Two chats and two answers are the least with which an answer given to one chat is changed while the other is under way; `MCBound` lets the second chat come, or the second answer, only about the diagnosis and without the swarm, where answers matter.
- One task of the swarm, with no context of its caller's, with memories to judge, or with ones said to be judged: tasks share the constitution, the toggles and the pipelines, and a change of any of them may come at any point of it; their contexts are their own. Five calls trip the breaker within the longest pipeline but not in the shortest.
- Three add-ons overflow two places, with one evicted while the others hold a token or a challenge; four challenges let an add-on register twice beside them. A token and a challenge last one tick of two, so that either may have expired, or not, when an answer or a token comes; a challenge that was cleared is still young in the tick it was answered in, and too old two ticks on.
- Two memories are enough for one to be merged, left behind or revived while another is untouched: every operation but `delete_all` is about one. Two failures let mem0 be lost at one start and found at the next. One text has no signs and one reads as level 3, and a caller may ask for level 1; with two ids one call of mem0 may make two results, or merge into one and make another.
- In `Home` three changes let one file be changed, changed back and read in between; two threads load while the loop writes; two crashes cut off a write and the start that repairs it.
- Three spans of a text of four characters can nest, chain, touch and coincide; with placeholders of two characters a cut makes the text longer or shorter.
- Three chats: two turns of one conversation and one of another user. Room for one conversation makes every new one evict. The one memory is of the user with one turn, so that it may come to the conversation of the other through the bot's user alone.
- A registry of one nonce is full with the second. Two messages and their nonces let either come again under its own, under the other's and under none. Three keys: the old one, a generated one, and one generated after a crash.
- Two stores and three calls let one store write between the parts of the other's search and again after it.
- In `Doors` two addresses show that attempts are counted apart, two attempts in a lockout of two of three ticks that they are counted in a moving window; three passwords are the old one, a new one and a wrong one. Three calls to a limited service let each limit of the bridge decide: the second within the hour exceeds the hour's one, the third, an hour later, the day's two. `FewCalls` explores three of these, or one call of any kind beside one of these: calls share nothing but the limits and the connector, which its own users call as well.

Symmetries (`AddonSessions`, `VaultSerial`, `Gateway`, `LocalChats`, `Keyring`, `Doors`)
permute values the specification treats alike, and only in runs without liveness
properties.

### Fairness

Two specifications state fairness, each of their own steps and never of the environment.
`SwarmPipeline` has `WF_vars(Step(t))` for each task: the event loop gives every handler
its turn, the client of the language model gives up after 90 seconds, and a search or an
add is a thread that returns or raises. No answer is promised: an agent may fail. From
it follows that every submitted task is answered (`EveryTaskAnswered`). `VectorStore`
has `WF_vars(Step(s))` for each store: a thread inside a call runs on, and a statement
that waits for SQLite's lock gets it or fails after the five seconds of `timeout`. From
it follows that no transaction stays open (`WriterLeaves`). The other specifications are
safety only, as what would have to happen there is up to the user, the model or the
network.

Deadlock is checked in `Consent`, `AuditOneServer`, `Gateway`, `VaultSerial` and
`AddonSessions`, where something is always possible. The others really stop once their
bounded tasks, calls or clock are used up, and their configurations say so.

## 4. What is proved

The proofs are for every value of the constants within the named assumptions. Every
safety invariant and action property that a run checks is also proved. A proof module is
about one component, or about two neighbours: specifications that are used together have
names of their own (`KeyringSpec`, `StoreSpec`, `LocalSpec`, `DoorsSpec`), so that one
module can extend both.

`Consent_proofs` (assumption `LedgerAssumption`: the loop is no worker, `Unset` is no
identifier, every request has a provider, provider and tag keys are distinct, the page
is not empty). The inductive invariant adds to `TypeOK` that a thread inside a handler
has the arguments of that handler (`JobsMatch`), and that while a response is past
`SaveReceipt` a receipt with its request and its decision is in the table
(`ReceiptFirst`). Without the latter, `PreferenceHasReceipt` is not inductive: a
preference is written two steps after the receipt it rests on. `AnswerBeforeDeletion`
proves the action property from the same invariant. The bound on threads, requests,
failures and crashes is gone: these hold for any number. A second invariant relates the
dictionary to the table: who may be where (`Roles`: a thread of the bot that reads is
past its work, rows fetched are held only until they are installed); a row not offered
is on its way to be, in some thread (`Served`); with the loop alone nothing is offered,
or about to be, that is no row (`Backed`), and an answered request is offered no more
except by the handler that is about to remove it (`Once`). From these follow
`PendingServed`, `CacheBacked` and `AnsweredOnce`.

Its second part (`LocalChatsAssumption`: limits are at least one, levels are from 0 to
3, there is room for one conversation) proves the three properties of `LocalChats`.
`OwnMemories` is about what any turn has put into a conversation, through a bot whose
user changes under it: while a chat is under way, the bot's user is one of those around
its conversation (`Gathered`), and an `AgentState`, which goes from chat to chat through
the table, takes its memories along within one conversation only. What a chat reads of
the one bot is its own unless `overtaken` says what came between (`Noted`); an
`AgentState` stays in its conversation (`Kin`), so a chat that nothing overtook has its
own to itself (`OthersAlone`), and there its rounds left and its tool calls add up to
its limit (`Counts`), which is why it cannot run out of iterations before it has set an
answer of its own. `AskedFirst` needs that the tools' copy of the settings is the one in
force while it is shared (`CopyFollows`).

`AuditChain_proofs` (assumption `AuditAssumption`, and one server: each theorem is
stated for `Processes = {s}`). The invariant says of the table that its numbers rise and
that every row names an older entry (`Sorted`, `Backward`), and of the process what
`_last_hash` is worth in each of its states (`Position`): the hash of the last row, or,
once a call has failed, a hash no row has; and the entry about to be inserted is newer
than every row. Without `Position` none of the properties of the table is inductive, as
the rows say nothing of the process that writes the next one. From it follow
`RowsFollow`, `DiskIsChain` and `IndexMatches`, for any sizes of list and page and any
number of entries, failures, restarts and power losses: whatever is given up or taken
back leaves a beginning of the table, which is as sound (`BeginningSound`). For the
readers of the log it takes that rows sorted by time come as they were inserted
(`ByTimeIsItself`): a rising renumbering of 1..n changes nothing, by the least number it
would move. `AuditorPermits` follows, as a window at the end of a chain is linked, and
`VerifiesUnlessEvicted` from one more invariant, that the list is the table plus at most
the entry being written (`ListIsTable`), under the premise that a load reads at least a
full list (100000 rows against 10000). With two servers `DiskIsChain` is false (section
6).

`ChatGateway_proofs` is first about the operators of `PolicyRules`: `BlockHolds` (a
memory a block matches is let out only by a rule of at least its priority, for any
rules), `DefaultsHold` (the shipped rules let no memory of level 2 or 3 out to any
provider without an answer), and `ConsentGateReachable` (after loading, the consent gate
comes before the level 3 block in every case in which both match).

Its second part (assumptions `RulesAssumption`: the local provider is one of the
providers; `GatewayAssumption`: levels, tags and sources of the memories, keys for cloud
providers only, at least one configuration and rules file, `Unset` is no value, no
provider is a tag) proves the types and all four properties. `ConsentBacked` is not
inductive alone: a prompt is filled from the preferences, so the invariant says that
each of them has its receipt (`PrefsBacked`). Neither is `AnsweredIsAudited`, which
needs that a chat is logged once and its prompt filled once: nothing is logged for a
chat before its answer (`NotYetLogged`) and nothing is in a prompt before it is put
together (`NotYetFilled`). `LatestAnswerFollowed` needs the other direction of
`PrefsBacked`: a preference about a provider is the decision of the last receipt about
it (`LatestKept`). `PersonalStaysHome` proves `GuardedStaysHome` with one more premise,
that every rules file has the shipped block of level 2 (or is empty, which loads the
shipped rules): a user may delete that block, and then nothing is promised. The
invariant carries the block from the file through loading, which may only raise it, to
the rules a chat was given at its arrival (`GivenGuards`), and `BlockHolds` turns it
into what the property says of each memory in a prompt (`Held`).

`Agents_proofs` (assumptions `RulesAssumption` and `SwarmAssumption`, which gives the
sorts of the constants) proves the types, `OnlyJudgedLeaves` and `WithheldIsReported`,
for any pipelines the user composes. Neither rests on the order of the agents: each
agent hands on what earlier ones let through, or lets through what the firewall passes
(`GoodReply`, one step per agent), or it was the caller's own (`Brought`), for a
provider that is settled before anything is let through (`Fresh`); and no agent takes an
objection back (`ObjectionStands`), which is why an objection early in the pipeline
still shows in the status at its end.

Its second part (`KeyringAssumption`: the bounds are numbers, there is room for one key)
is about `AgentKeyring`. `AcceptedOnce` holds for any size of the registry, whatever
nonces the messages come under, because a nonce that was accepted is still in it or was
accepted a lifetime ago (`Remembered`): eviction drops old nonces only. For `OneKeyPair`
the invariant goes through `_ensure_key` write by write: what is left of a generation or
a migration, and what the files hold by then (`Generating`, `Copying`, `Unlinking`);
outside of them both sealed files hold one pair or the public one is not whole
(`Matched`); and the one key anybody knows is found again by the next start, in the
sealed files or in the plain ones (`OneKnown`). The last fails after a migration that
could not write, the others only after a rename, exactly as the property says.

`Memory_proofs` (assumption `VaultAssumption`: `None` is no text and no row, `Erased` is
no text, the loop is no worker, levels are from 0 to 3) proves the types with any
threads, and for the loop alone (`Workers = {}`) that an answered deletion is final.
Deletion is three steps over three stores, so the invariant says which are done while
the handler stands between two (`RowsGoFirst`), that no row is about to be written for a
deleted memory (`NothingUnderway`, which fails as soon as a thread adds), and that mem0
is empty as long as it was never there (`AbsentIsEmpty`). Under the same premise a
second invariant follows the texts through the stores: the level a handler is about to
write covers its text (`Resolved`), every row's level covers the text it will give back
(`RowsFit`), what is still to be written of a call's results is covered by it too
(`Under`), the dictionary serves what the row saves, but for the memory a handler has in
hand (`Kept`), and what mem0 holds, but for what it kept of older words, has a row that
covers it (`Served`). From it follow `LevelFitsText` and `RestartKeepsText`.

Its second part (`StoreAssumption`) is about `VectorStore`. That the committed tables
tell one story (`Sound`) is kept because the open transaction tells one too, as far as
it has got (`Writing`): each table it has written is that of the whole operation
(`After`), each other one that of the file; `AfterSound` is the lemma that an operation
as a whole keeps the story, and `OrderCovers` that its statements reach every table it
changes. `ExpiredNotFound` needs that what a search's clean-up removed has no vector
until somebody writes it again (`Undisturbed`).

`Access_proofs` (assumption `AddonAssumption`: `NoAddon` is no add-on, `NoSession` no
session, there is room for one session and a session lasts at least one tick) proves the
types with the limit on sessions, `AcceptedWhilePromised`, `ChallengeUsedOnce` (which is
about issued challenges: the empty one may be used again and again), and that the
sessions implement `AddonTokens`. A token is accepted through two look-ups, and the
invariant says where each may lead: the index to the add-on the token was given to
(`IndexedWasGiven`), the session to the last thing its add-on was told, with an open
challenge that was not used (`SessionsAsTold`); the token of a number not yet issued was
not given (`UnissuedUngiven`). Every step but two kinds only drops sessions and lets the
clock advance (`Shrinks`, `EveryStep`), which settles seven actions at once: such a step
is the `End` of `AddonTokens`, `Register` is an `End` too, and `Authenticate` is a
`Grant`, of a new token or of the add-on's lasting one. That an eviction makes room
rests on the oldest of finitely many sessions existing (`OldestExists`), by
well-foundedness of the numbers.

Its second part (`DoorsAssumption`: there is room for one attempt and one start, the
limits and periods of the bridge are numbers, an hour is no longer than a day,
`connector` is no service) is about `Doors`: every property of the three for every
interleaving of their steps. The lemmas about `SlidingWindow` carry `LimitsHold`: a list
agrees with all that happened on every mark younger than its period (`Keeps`), for that
and every shorter period (`KeepsForLess`), and a mark that is added only where the last
period has room keeps `AtMost` for every period that begins at any earlier mark
(`LimitKept`). They serve the lock's attempts, the bridge's hours and days, which share
one list, and the connectors' minutes. `ChosenOpens` needs what file, memory and the
user know in each step of a start, a change and a failure (`Copies`); `NothingMissed`
that a request a dashboard does not know is in a notice or in a broadcast that has the
dashboard among its targets still (`OnItsWay`); `HandledIsLogged` that a call past its
checks, and one on its way to the host, has its line (`LineBefore`).

`HomeFiles_proofs` (assumption `HomeAssumption`: `Absent`, `Torn` and `None` are no
number, no level and no constitution) proves the four properties of `HomeFiles`, each by
an invariant about one file and the process's copies of it. A token is shown once the
file holds it, and a file that holds one is never written (`TokenInv`). While the files
can be read and no reload is due, the engine and whatever threads have loaded are what
the files say, unless they were overtaken (`RulesInv`), and the same with the settings
and the level last asked for (`SettingsInv`). For the constitution, memory and file
agree with the last answered change until a save is cut off (`LawInv`). All rest on a
stopped or starting server holding nothing (`Quiet`).

`PiiText_proofs` (assumptions `LevelOfAssumption`: every type has a level from 0 to 3;
`FindsAssumption`: matches are finitely many spans; `TextAssumption`: a placeholder has
at least one character, and no type has the name that marks the text's own) proves, for
texts of any length and any types, that merging leaves no overlap (`KeptApart`) and
costs no sensitivity (`LevelOfAll`). The loop compares a match only with the one kept
last, so the invariant says that whatever is still to come starts no earlier than
anything kept (`Ahead`): a match that replaces the last one stays to the right of the
one before it. For the level it says that each match already seen is answered by a kept
one of at least its level (`Answered`), which a chain of replacements keeps.
`RedactedExactly` is about what the redactor's loop and `unredact` leave of the text.
While entities are cut out from the right, the text up to the end of each one that is
still to come is as it was (`LeftAlone`). On the way back a placeholder belongs to one
mapping, is whole and occurs once (`Known`, `InOnePiece`, `Once`), and each character
comes after those it came after in the original, a placeholder counting as what it
stands for (`InPlace`). `PiecesKept` and `Origin` say what a cut does to any sequence of
characters, and serve the loop's cuts and those of `unredact`.

### Only model-checked

`EveryTaskAnswered` of `SwarmPipeline` and `WriterLeaves` of `VectorStore`, as liveness
and ENABLED are out of the proof system's reach.

The type invariants, `IndexMatches` of `AuditChain` and `ChallengeUsedOnce` of
`AddonSessions` are proved and no longer run.

## 5. What is not modelled, and why

- Cryptography: signatures, ciphers, key derivation and hashes are taken as given.
- Which strings a pattern matches, and what a language model says: matches are any spans, answers any answers.
- Expiry of memories, several users of one vault, and the vault's key files, which two first starts can make differ.
- SQLite beyond one transaction, outside `AuditChain`: in the vault and the ledger a failing call leaves no trace (in the code, a failing commit may leave an open transaction), and a crash keeps every committed row (with `synchronous=NORMAL` a power loss may not).
- In the swarm: the token budget, conflicts and arbitration, which no shipped agent triggers; reputation and drift statistics, which decide nothing; the memory guardian, which is in no default pipeline; what the processor does in an add-on's task (`coordinator.py:75`), where it cuts personal data out of the texts and leaves which memories are in them; the add-on's fallback without a swarm.
- The API's rate limiter: a sliding window with no step to interleave with; the bridge's and the connector's are modelled.
- The memory chat, which keeps no state: one search or listing for the user of the request, and one call of the local model.
- Envelope encryption, insights, the local engine (process control), the MCP server of `routes/mcp.py`, what connectors return.
- The TypeScript library, the extension and the dashboard but for its list of requests.
- External services. mem0, SQLite's lock, the providers and the agents in Docker appear as far as the code uses them.

## 6. Noticed while reading

Where the code does less than a document or a reader would expect. None of these is
excluded by a property without that property saying so.

Consent and audit:
- `routes/consent.py:41` raises the loaded flag before the rows are read. When a thread of the bot and the loop load at once, an answered request can be offered again: `AnsweredOnce` and `CacheBacked` hold only while the loop is alone.
- Two servers on one home fork the audit chain (`routes/audit.py:101`), as each keeps the last hash in memory; `RowsFollow` and `DiskIsChain` are about one.
- A provider that fails or times out leaves a prompt that was sent without an audit entry (`routes/proxy.py:569`, against `plan.md:307`).
- After a restart only the latest 100 receipts are loaded (`core/storage.py:243`); older ones can be neither listed nor verified through the API.
- Once the log has outgrown the in-memory list, `verify_audit_chain` reports its first entry as broken; `VerifiesUnlessEvicted` holds exactly up to there. The auditor looks at the newest 1000 rows only and never at the predecessor of the first of them.

Chat and swarm:
- A missing `permitted_memories` is replaced by everything that was retrieved (`routes/proxy.py:462`, against `plan.md:251`). It does no harm because `get_swarm()`, called without arguments (`proxy.py:444`, `deps.py:332`), has no vault and retrieves nothing, so this path never injects a memory at all.
- A memory the model suppresses stays in the context's text (`agents/swarm/addon_memory.py:39`). Facts that the policy rejects to the last one are stored all the same (`coordinator.py:347`), and a text without a long fact is stored at level 1 (`:352`). The tool orchestrator reports `approved` also for what it refused.
- The chats' coordinator ignores `constitution_path` and keeps the constitution it first loaded until a restart. A torn file is replaced by the defaults; after a failing save an approved amendment is in force in memory and a second approval finds nothing.
- A memory the user marked as level 3 whose text shows no sign of it goes through the firewall at the level of its text (`privacy/firewall.py:114`). The preview of `evaluate_memory` shows level 1 unredacted (`firewall.py:635`), unlike the firewall itself.
- A caller's context is merged into a task unchecked (`routes/swarm.py:171`, `coordinator.py:211`): what it calls permitted, the injector puts into the prefix. `OnlyJudgedLeaves` is about the rest.
- `verify_message` skips the look-up of an empty nonce (`agents/swarm/crypto.py:408`), and the nonce is no part of what is signed (`:531`): a message is not kept from being accepted again under another nonce or none, against `crypto.py:9`. `AcceptedOnce` is about one nonce.
- The add-on's fallback without a swarm sends memories of any level with pattern redaction only (`routes/addon.py:190-237`).

Vault:
- A delete between the two halves of an add in a thread is undone (`core/memory.py:324`, against `plan.md:234`).
- When mem0 merges a text into an old memory, the row is classified and sealed by the new text alone (`core/memory.py:303`): the level may fall below what mem0 kept of the older one, and without mem0 the older words are gone.
- `get_all` counts a copy without a row as level 0, even where mem0 knows its level (`core/memory.py:526`); `search` uses mem0's level.
- `add` leaves the column `content` empty when it encrypts, `update` writes the plaintext beside the ciphertext (`core/memory.py:605`).
- `routes/memory.py:100` raises its status 451 inside a `try` that turns it into 500. `routes/addon.py:259` does not look at the result of `add`: a captured memory that was kept back is reported as stored.
- The vector store is not wired in. Its native index is never reached; a clean-up that fails lets expired rows be found; `get` returns them in any case; listing applies its limit before its filters; `delete_col` drops the audit rows.

Sessions, lock, notifier:
- A used challenge is cleared to nothing "so it can't be reused" (`core/addon_auth.py:176`), but an empty challenge in a request matches it: signed within the challenge's time it yields the add-on's same token again and again, and after that time, signed or not, it drops the live session (`:151`). No token is accepted for longer than its add-on was last told because of it.
- `validate_session` looks a session up by add-on: after a second registration an old token is accepted past its own expiry (`core/addon_auth.py:191`). The extension sends `public_key` and reads `session_id`; the route expects `addon_pubkey` and returns `addon_id`.
- A crash between writing `shutdown.key` and the log line leaves a password nobody was told. An installation that fails is only warned about (`app.py:81`), and signals get through. A new password counts at once, though the docstring says it takes a restart (`core/termination_lock.py:152`). `PUT /server/password` judges any number of wrong passwords and counts none (`routes/addon.py:386`): only those of the shutdown route are limited.
- A message that is no JSON ends a dashboard's endpoint (`routes/ws_consent.py:151`). Requests raised in threads send no notice to the dashboards; one slow client delays the others; a dashboard does not reconnect.

Local chats:
- A chat taken on while another runs changes that one's user, memory and limit (`agents/clawdbot.py:475`); its final answer may be an earlier turn's. Evicting at the same time in two threads raises a KeyError.
- Whose a conversation is is not kept: who names its id continues it and has its memories in the prompt. `request_consent` looks a memory up with no user (`agents/tools.py:285`) and copies the text of anybody's into the pending requests.
- The bot's tools keep the settings of its construction; a second change of the consent level never reaches them. The request's `sensitivity_max` (`routes/clawdbot.py:58`) is never passed on, and an approved `write_memory` is never stored.
- The memory chat calls its model on the event loop, which serves nobody else meanwhile.

Text:
- An entity dropped for an overlapping one leaves characters uncovered. The Presidio path never merges, and offsets then go wrong. The classifier's documentation gives the user's level priority, the code takes the maximum (`privacy/classifier.py:5`, `:261`).
- Placeholders of the other styles cannot be told apart when put back.

Files:
- Every file of the home is written in place. `PUT /v1/config` and `config set` validate nothing: a bad value is saved, and the next load raises, so that every request fails and the server cannot start. The saved file beats environment variables (against `config.py:146`).
- A request that loads rules or settings in a thread while they are changed may store the old ones afterwards (`deps.py:255`), and they stay. A torn `custom.json` counts as empty, and the next creation writes over the others. A torn token file locks everybody out until it is removed.

Bridge:
- A missing or empty `closedclaw.yaml` lifts every restriction; one that does not parse keeps the old ones. The first matching category decides, so with the shipped order a text with an identifier and something harmful is redacted and kept.
- `/llm/intercept` forwards without a token and is refused by the host (`docker/bridge/main.py:672`); events for the host's audit are never stored (`routes/bridge.py:142` imports a function that does not exist); an answer that is not JSON raises after its `llm_response` line, and the request is not tracked (`:687`). The log's directory is made outside of the `try` (`:89`), so that a failure of it ends the handler. The shipped endpoints point at the bridge's own container.
- What the bridge has given up on may still be carried out. Counters are lost at a restart. The agents' middleware goes ahead when the bridge does not answer.

## 7. Plan

1. Further on `MemoryVault`: the key files and several servers, expiry, and an abstract vault, a set of memories with levels, that the loop alone implements without failures.
2. Further on `ConsentLedger`: several processes on one database, failing commits and power losses, and an abstract ledger (pending, answered). For `AuditChain`: a clock that goes back, and an abstract append-only log.
3. `ChatGateway`'s view of the swarm as an abstraction of `SwarmPipeline`, shown as a refinement.
4. The TypeScript vault, and the MCP server's sessions.
