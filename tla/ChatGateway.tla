---------------------------- MODULE ChatGateway ----------------------------
(***************************************************************************)
(* POST /v1/chat/completions (routes/proxy.py): a chat retrieves memories,  *)
(* judges each one with the privacy firewall (privacy/firewall.py), with the *)
(* consent gate of routes/consent.py as its handler, puts the permitted ones *)
(* in the prompt, posts the prompt to the configured provider, and logs it. *)
(* With the agent swarm enabled the swarm is asked instead, and has nothing *)
(* to give: get_swarm() makes a coordinator without a memory (see           *)
(* SwarmPipeline).                                                          *)
(*                                                                         *)
(* Everything runs on one event loop and a step goes from one suspension to *)
(* the next: the dependencies of the route are resolved in a thread, the    *)
(* provider is awaited.  Neither pipeline has a suspension from reading the *)
(* provider to posting the prompt.  In between, users answer consent requests (the *)
(* ledger is ConsentLedger; here an answer is one step) and change the      *)
(* configuration and the rules.  No SQLite call fails here: what failures do *)
(* to the ledger and to the audit log, ConsentLedger and AuditChain show.    *)
(*                                                                         *)
(* Bounds: each of Chats is one request; MaxChanges configuration changes   *)
(* and MaxAnswers answered requests.                                        *)
(***************************************************************************)
EXTENDS PolicyRules

CONSTANTS
    Chats, Memories, Candidate,     \* requests, stored memories, a writeback candidate
    StoredLevel,    \* the level each memory was stored with, the user's where there is one
    TextLevel,      \* the level the classifier reads in the text that search returns
    TagsOf, SourceOf,
    Configs,        \* provider and API keys a configuration may hold
    RuleFiles,      \* rules the policy directory may hold
    Hours,          \* hours of the day at which chats come
    Unset,          \* no preference, no tag to remember
    MaxChanges, MaxAnswers

Decisions == {"approve", "approve_redacted", "deny"}
Forms == {"plain", "redacted"}
Keys  == Providers \cup Tags
Ask   == [chat : Chats, mem : Memories \cup {Candidate}, provider : Providers]
Answer == [mem : Memories \cup {Candidate}, provider : Providers, decision : Decisions,
           forProvider : BOOLEAN, forTag : Tags \cup {Unset}]
Item  == [mem : Memories, form : Forms, verdict : Actions]

ASSUME GatewayAssumption ==
    /\ StoredLevel \in [Memories -> Levels] /\ TextLevel \in [Memories -> Levels]
    /\ TagsOf \in [Memories -> SUBSET Tags] /\ SourceOf \in [Memories -> Sources]
    /\ Configs \subseteq [provider : Providers, keys : SUBSET (Providers \ {Local})]
    /\ Configs # {} /\ RuleFiles # {} /\ RuleFiles \subseteq Seq(FileRule)
    /\ Hours \subseteq 0..23
    /\ Unset \notin Decisions \cup Tags \cup Actions \cup Providers
    /\ Candidate \notin Memories
    /\ Providers \cap Tags = {}
    /\ MaxChanges \in Nat /\ MaxAnswers \in Nat

VARIABLES
    swarm,      \* swarm_enabled, fixed when the server starts
    settings,   \* the Settings objects made so far; the last one is cached
    engine,     \* the cached policy engine's rules
    pending,    \* consent requests awaiting an answer
    receipts,   \* the answers, oldest first
    prefs,      \* remembered preferences
    auditLog,   \* what the chats' audit entries say was sent where
    pc,         \* where each chat stands
    stream,     \* whether it asked for a streamed answer
    view,       \* the Settings object it was given
    rules,      \* the engine it was given
    provider,   \* the provider its memories are judged for
    context,    \* the memories in its prompt
    withheld,   \* the memories kept back until the user decides
    endpoint    \* the provider its prompt is posted to

world == <<swarm, settings, engine>>
consent == <<pending, receipts, prefs>>
request == <<stream, view, rules>>
prompt == <<provider, context, withheld, endpoint>>
vars == <<world, consent, auditLog, pc, request, prompt>>

Goto(q, label) == pc' = [pc EXCEPT ![q] = label]

(* get_effective_provider: the configured provider if it is local or has a  *)
(* key, else one that has a key, else the local one.                        *)
Effective(config) ==
    IF config.provider \in config.keys \cup {Local} THEN config.provider
    ELSE IF config.keys # {} THEN CHOOSE p \in config.keys : TRUE
    ELSE Local

NowFor(q) == Effective(settings[view[q]])

(* _resolve_provider_endpoint looks the provider up once more. *)
Endpoint(q) == NowFor(q)

(* What the firewall judges: its classifier reads the text, and the level   *)
(* the memory was stored with plays no part (effective_sensitivity).        *)
AsJudged(m) == [level |-> TextLevel[m], tags |-> TagsOf[m], source |-> SourceOf[m]]

(* get_auto_consent_decision: the provider's preference, else that of the   *)
(* first tag that has one; tags come in any order.                          *)
Remembered(p, m) ==
    LET known == {t \in TagsOf[m] : prefs[t] # Unset}
    IN  IF prefs[p] # Unset THEN {prefs[p]}
        ELSE IF known = {} THEN {Unset} ELSE {prefs[t] : t \in known}

-----------------------------------------------------------------------------
Init ==
    /\ swarm \in BOOLEAN
    /\ settings \in {<<c>> : c \in Configs}
    /\ engine \in {LoadPolicies(f) : f \in RuleFiles}
    /\ pending = {} /\ receipts = <<>> /\ prefs = [k \in Keys |-> Unset]
    /\ auditLog = {}
    /\ pc = [q \in Chats |-> "new"]
    /\ stream = [q \in Chats |-> FALSE]
    /\ view = [q \in Chats |-> 1]
    /\ rules = [q \in Chats |-> <<>>]
    /\ provider = [q \in Chats |-> Local]
    /\ context = [q \in Chats |-> {}]
    /\ withheld = [q \in Chats |-> {}]
    /\ endpoint = [q \in Chats |-> Local]

(* The route's dependencies hand the chat the cached settings and engine.   *)
Arrive(q, streamed) ==
    /\ pc[q] = "new"
    /\ Goto(q, "arrived")
    /\ stream' = [stream EXCEPT ![q] = streamed]
    /\ view' = [view EXCEPT ![q] = Len(settings)]
    /\ rules' = [rules EXCEPT ![q] = engine]
    /\ UNCHANGED <<world, consent, auditLog, prompt>>

(* The request goes out: at once, or when the answer starts streaming.      *)
Post(q) ==
    /\ endpoint' = [endpoint EXCEPT ![q] = Endpoint(q)]
    /\ Goto(q, IF stream[q] THEN "prepared" ELSE "posted")

(* A bug: only an answer of "deny" keeps a memory out. *)
FormUnlessDenied(verdict, answer) ==
    CASE verdict = "PERMIT" -> "plain"
      [] verdict = "REDACT" -> "redacted"
      [] verdict = "CONSENT_REQUIRED" /\ answer # "deny" -> "redacted"
      [] OTHER -> "out"

(* The form in which the firewall lets a memory through, if it does.        *)
Form(verdict, answer) ==
    CASE verdict = "PERMIT" -> "plain"
      [] verdict = "REDACT" -> "redacted"
      [] verdict = "CONSENT_REQUIRED" /\ answer = "approve" -> "plain"
      [] verdict = "CONSENT_REQUIRED" /\ answer = "approve_redacted" -> "redacted"
      [] OTHER -> "out"

(* The memories of verdict's domain that go into the prompt.                *)
Permitted(verdict, answer) ==
    {[mem |-> m, form |-> Form(verdict[m], answer[m]), verdict |-> verdict[m]] :
        m \in {x \in DOMAIN verdict : Form(verdict[x], answer[x]) # "out"}}

Unanswered(verdict, answer) ==
    {m \in DOMAIN verdict : verdict[m] = "CONSENT_REQUIRED" /\ answer[m] = Unset}

Requests(q, mems, p) == {[chat |-> q, mem |-> m, provider |-> p] : m \in mems}

(* _enrich_with_memory without the swarm: all that is retrieved goes through *)
(* the firewall, and what needs an answer nobody gave yet is kept back and   *)
(* put before the user.  An enrichment that fails after asking for some goes *)
(* on with no memory, as if only those had been found.                      *)
Enrich(q, verdict, answer) ==
    /\ provider' = [provider EXCEPT ![q] = NowFor(q)]
    /\ context' = [context EXCEPT ![q] = Permitted(verdict, answer)]
    /\ withheld' = [withheld EXCEPT ![q] = Unanswered(verdict, answer)]
    /\ pending' = pending \cup Requests(q, Unanswered(verdict, answer), NowFor(q))
    /\ Post(q)
    /\ UNCHANGED <<world, receipts, prefs, auditLog, request>>

Legacy(q, found, hour) ==
    LET verdict == [m \in found |-> Verdict(rules[q], AsJudged(m), NowFor(q), hour)]
    IN  /\ pc[q] = "arrived" /\ ~swarm
        /\ \E answer \in [found -> Decisions \cup {Unset}] :
              /\ \A m \in found : answer[m] \in Remembered(NowFor(q), m)
              /\ Enrich(q, verdict, answer)

(* _enrich_with_swarm: the accessor of this coordinator has no memory to     *)
(* search, the governance agent nothing to judge, and the sentinel is not   *)
(* called below level 2: no memory goes into the prompt, whatever is stored. *)
SwarmEnrich(q) ==
    /\ pc[q] = "arrived" /\ swarm
    /\ provider' = [provider EXCEPT ![q] = NowFor(q)]
    /\ Post(q)
    /\ UNCHANGED <<world, consent, auditLog, request, context, withheld>>

(* The client of a stream takes the first chunk, or is gone before that.    *)
StreamStarts(q) ==
    /\ pc[q] = "prepared"
    /\ Goto(q, "posted")
    /\ UNCHANGED <<world, consent, auditLog, request, prompt>>

StreamAbandoned(q) ==
    /\ pc[q] = "prepared"
    /\ Goto(q, "gone")
    /\ UNCHANGED <<world, consent, auditLog, request, prompt>>

(* The audit entry. *)
LogEntry(q) ==
    [chat |-> q, to |-> endpoint[q], mems |-> {i.mem : i \in context[q]}]

(* A bug: the provider asked for is logged, not the one posted to. *)
AnsweredLogged(q) ==
    /\ pc[q] = "posted"
    /\ auditLog' = auditLog \cup {[LogEntry(q) EXCEPT !.to = settings[view[q]].provider]}
    /\ Goto(q, "done")
    /\ UNCHANGED <<world, consent, request, prompt>>

(* The provider answers, or a stream ends in any way at all.                *)
Answered(q) ==
    /\ pc[q] = "posted"
    /\ auditLog' = auditLog \cup {LogEntry(q)}
    /\ Goto(q, "done")
    /\ UNCHANGED <<world, consent, request, prompt>>

(* _run_writeback_policy, a background task of an answered chat: a candidate *)
(* of level 2 or 3 becomes a consent request for the provider of the chat.   *)
(* One of level 0 or 1 is stored, which is the vault's business.            *)
Writeback(q) ==
    /\ pc[q] = "done"
    /\ pending' = pending \cup Requests(q, {Candidate}, endpoint[q])
    /\ Goto(q, "settled")
    /\ UNCHANGED <<world, receipts, prefs, auditLog, request, prompt>>

(* The provider refuses, fails or does not answer in time.                  *)
Refused(q) ==
    /\ pc[q] = "posted" /\ ~stream[q]
    /\ Goto(q, "failed")
    /\ UNCHANGED <<world, consent, auditLog, request, prompt>>

-----------------------------------------------------------------------------
Concerns(a, k) == (a.forProvider /\ k = a.provider) \/ k = a.forTag

(* A bug: a preference is set once and never replaced. *)
RememberOnce(a) ==
    prefs' = [k \in Keys |->
        IF Concerns(a, k) /\ prefs[k] = Unset THEN a.decision ELSE prefs[k]]

(* INSERT OR REPLACE INTO consent_preferences. *)
Remember(a) ==
    prefs' = [k \in Keys |-> IF Concerns(a, k) THEN a.decision ELSE prefs[k]]

Respond(ask, decision, forProvider, forTag) ==
    LET a == [mem |-> ask.mem, provider |-> ask.provider, decision |-> decision,
              forProvider |-> forProvider, forTag |-> forTag]
    IN  /\ ask \in pending /\ Len(receipts) < MaxAnswers
        /\ pending' = pending \ {ask}
        /\ receipts' = Append(receipts, a)
        /\ Remember(a)
        /\ UNCHANGED <<world, auditLog, pc, request, prompt>>

(* PUT /v1/config changes the cached object in place, saves it and drops it: *)
(* chats that hold it see this change, and none after it.                   *)
PutConfig(config) ==
    /\ Len(settings) <= MaxChanges
    /\ settings' = Append([settings EXCEPT ![Len(settings)] = config], config)
    /\ UNCHANGED <<swarm, engine, consent, auditLog, pc, request, prompt>>

(* The policy endpoints save the custom rules and reload the engine.        *)
PutPolicies(files) ==
    /\ engine' = LoadPolicies(files)
    /\ UNCHANGED <<swarm, settings, consent, auditLog, pc, request, prompt>>

Chat(q) ==
    \/ \E streamed \in BOOLEAN : Arrive(q, streamed)
    \/ \E found \in SUBSET Memories, hour \in Hours : Legacy(q, found, hour)
    \/ SwarmEnrich(q)
    \/ StreamStarts(q) \/ StreamAbandoned(q)
    \/ Answered(q) \/ Writeback(q) \/ Refused(q)

Next ==
    \/ \E q \in Chats : Chat(q)
    \/ \E ask \in pending, d \in Decisions, p \in BOOLEAN, g \in Tags \cup {Unset} :
          Respond(ask, d, p, g)
    \/ \E config \in Configs : PutConfig(config)
    \/ \E files \in RuleFiles : PutPolicies(files)

Spec == Init /\ [][Next]_vars

-----------------------------------------------------------------------------

TypeOK ==
    /\ swarm \in BOOLEAN
    /\ settings \in Seq(Configs) /\ settings # <<>> /\ engine \in Seq(Rule)
    /\ pending \subseteq Ask /\ receipts \in Seq(Answer)
    /\ prefs \in [Keys -> Decisions \cup {Unset}]
    /\ auditLog \subseteq [chat : Chats, to : Providers, mems : SUBSET Memories]
    /\ pc \in [Chats -> {"new", "arrived", "prepared", "posted", "gone", "done",
                         "settled", "failed"}]
    /\ stream \in [Chats -> BOOLEAN]
    /\ view \in [Chats -> 1..Len(settings)] /\ rules \in [Chats -> Seq(Rule)]
    /\ provider \in [Chats -> Providers] /\ endpoint \in [Chats -> Providers]
    /\ context \in [Chats -> SUBSET Item] /\ withheld \in [Chats -> SUBSET Memories]

Disclosed(q) == IF pc[q] \in {"posted", "done", "settled", "failed"} THEN context[q] ELSE {}

(* The answer that lets a memory out in this form. *)
Approval(form) == IF form = "plain" THEN "approve" ELSE "approve_redacted"

(* A memory behind the consent gate is in a prompt only if the user gave     *)
(* that very answer, and told to remember it for the provider the memory     *)
(* was judged for or for a tag the memory has.                              *)
ConsentBacked ==
    \A q \in Chats : \A i \in context[q] : i.verdict = "CONSENT_REQUIRED" =>
        \E k \in 1..Len(receipts) :
            /\ receipts[k].decision = Approval(i.form)
            /\ \/ receipts[k].forProvider /\ receipts[k].provider = provider[q]
               \/ receipts[k].forTag \in TagsOf[i.mem]

About(a, p) == a.forProvider /\ a.provider = p

LatestAbout(k, p) ==
    About(receipts[k], p) /\ \A j \in k+1..Len(receipts) : ~About(receipts[j], p)

FollowsLatest(q) ==
    \A i \in context'[q] \ context[q] : i.verdict = "CONSENT_REQUIRED" =>
        \A k \in 1..Len(receipts) :
            LatestAbout(k, provider'[q]) => receipts[k].decision = Approval(i.form)

(* When the user changes an answer remembered for a provider, the latest one *)
(* decides what the next chat with that provider is told.                   *)
LatestAnswerFollowed == [][\A q \in Chats : FollowsLatest(q)]_vars

(* Without an answer, a memory judged personal or worse is posted to a       *)
(* provider in the cloud only under a rule that lets it out to that very    *)
(* provider and ranks no lower than the shipped block, whatever else is     *)
(* configured and whenever the configuration changes.                       *)
GuardedStaysHome ==
    \A q \in Chats : \A i \in Disclosed(q) :
        (endpoint[q] # Local /\ TextLevel[i.mem] >= 2 /\ i.verdict \in {"PERMIT", "REDACT"}) =>
        \E k \in 1..Len(rules[q]) :
            /\ rules[q][k].enabled /\ rules[q][k].action = i.verdict
            /\ rules[q][k].priority >= BlockLevel2.priority
            /\ ConditionsMatch(rules[q][k], AsJudged(i.mem), endpoint[q])

(* A chat that was answered has one audit entry, with the provider it went   *)
(* to and exactly the memories that went there.                             *)
AnsweredIsAudited ==
    \A q \in Chats : pc[q] \in {"done", "settled"} =>
        {e \in auditLog : e.chat = q} =
            {[chat |-> q, to |-> endpoint[q], mems |-> {i.mem : i \in context[q]}]}

=============================================================================
