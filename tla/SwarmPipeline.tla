--------------------------- MODULE SwarmPipeline ---------------------------
(***************************************************************************)
(* The agent swarm: SwarmCoordinator.execute (agents/swarm/coordinator.py)  *)
(* takes a task through its pipeline, one agent after the other, each agent *)
(* reading what the ones before it left in the context of the task.         *)
(*                                                                         *)
(* The program has two coordinators: the one of routes/swarm.py, which has  *)
(* the vault and obeys the toggles, pipelines and constitution set there,   *)
(* and the one get_swarm() makes for the chats, the add-on and the tools,   *)
(* which has no vault and is never configured.  hasVault tells them apart.  *)
(*                                                                         *)
(* All tasks share the event loop.  An agent that waits for its model or    *)
(* for a search is called in one step and answers in another; what a model  *)
(* says is any answer at all, and none where it fails.  The loop runs on    *)
(* from one agent to the next without a suspension when neither waits; here *)
(* each is a step of its own, which only adds interleavings.                *)
(*                                                                         *)
(* No agent reports the tokens it used and none reports a conflict, so the  *)
(* token budget and the arbitration of execute never come into play.        *)
(*                                                                         *)
(* Bounds: each of Tasks is one task; MaxChanges changes of the set-up.      *)
(***************************************************************************)
EXTENDS PolicyRules

CONSTANTS
    Tasks, Memories,
    StoredLevel,    \* the level a memory was stored with
    Judgement,      \* what the firewall reads in it: level, tags, source
    Ambiguous,      \* memories whose copyright only a model can settle
    Facts, Whole,   \* what a text says; the text itself, as one fact
    FactLevel, TopicOf, Long,   \* level, topic; the facts of more than 20 characters
    Topics, Constitutions, Pipelines, BrokenKeys,
    Ceilings,       \* values of sensitivity_max
    Contexts,       \* what callers of POST /v1/swarm/tasks put in the context
    MaxCalls,       \* swarm_max_agent_calls
    MaxChanges

Core   == {"accessor", "governance", "sentinel", "maker", "policy", "arbitrator", "auditor"}
Agents == Core \cup {"addon_memory", "injector", "processor", "tool_orchestrator"}
Types  == {"FULL", "STORE", "RETRIEVE", "EVALUATE", "CHECK_POLICY", "DETECT", "RESOLVE",
           "AUDIT", "COMPACT", "EVOLVE", "ADDON", "TOOL"}
Principles == [blocked : SUBSET Topics, cloud : Levels, allowed : SUBSET Providers]

Context == [memories : SUBSET Memories, permitted : SUBSET Memories,
            text : SUBSET Memories, prefix : SUBSET Memories, level : Levels,
            withheld : SUBSET Memories, toolAsks : BOOLEAN,
            extracted : SUBSET Facts, compliant : SUBSET Facts]
NoContext == [memories |-> {}, permitted |-> {}, text |-> {}, prefix |-> {}, level |-> 0,
              withheld |-> {}, toolAsks |-> FALSE, extracted |-> {}, compliant |-> {}]

(* An agent has something to object to: no key of the context says so.      *)
Objects(context) == context.withheld # {} \/ context.toolAsks

ASSUME SwarmAssumption ==
    /\ StoredLevel \in [Memories -> Levels] /\ Judgement \in [Memories -> Judged]
    /\ Ambiguous \subseteq Memories
    /\ Whole \in Facts /\ Long \subseteq Facts
    /\ FactLevel \in [Facts -> Levels] /\ TopicOf \in [Facts -> SUBSET Topics]
    /\ Constitutions \subseteq Principles /\ Constitutions # {}
    /\ Pipelines \subseteq Types \X Seq(Core)
    /\ BrokenKeys \subseteq Agents /\ Ceilings \subseteq Levels /\ Ceilings # {}
    /\ NoContext \in Contexts /\ Contexts \subseteq Context
    /\ \A context \in Contexts : ~Objects(context)
    /\ MaxCalls \in 1..50 /\ MaxChanges \in Nat

DefaultPipeline(type) ==
    CASE type = "FULL"     -> <<"accessor", "governance", "sentinel">>
      [] type = "STORE"    -> <<"maker", "governance", "policy">>
      [] type = "RETRIEVE" -> <<"accessor", "governance">>
      [] type = "EVALUATE" -> <<"governance">>
      [] type \in {"CHECK_POLICY", "EVOLVE"} -> <<"policy">>
      [] type = "DETECT"   -> <<"accessor", "sentinel">>
      [] type = "RESOLVE"  -> <<"arbitrator">>
      [] type = "AUDIT"    -> <<"auditor">>
      [] type = "COMPACT"  -> <<"maker">>
      [] type = "ADDON"    -> <<"accessor", "governance", "addon_memory", "injector",
                                "processor", "sentinel", "auditor">>
      [] type = "TOOL"     -> <<"governance", "tool_orchestrator", "auditor">>

VARIABLES
    hasVault,       \* whether this coordinator was given the vault
    disabled, override, constitution, changes,
    broken,         \* agents whose two key files do not belong together
    task,           \* what each task asks for
    phase,          \* where its execution stands
    todo,           \* the agents still to call
    ctx,            \* the context the agents share
    status, invoked,
    unsaved, stored \* facts to store, and all that was stored, for which task

setup == <<hasVault, disabled, override, constitution, changes, broken>>
vars == <<setup, task, phase, todo, ctx, status, invoked, unsaved, stored>>

(* writes: the operation asked of a tool does; says: there is a text for the *)
(* maker.                                                                   *)
Task == [type : Types, provider : Providers, ceiling : Ceilings, writes : BOOLEAN,
         says : BOOLEAN, context : Contexts]
Nothing == [type |-> "AUDIT", provider |-> Local, ceiling |-> CHOOSE l \in Ceilings : TRUE,
            writes |-> FALSE, says |-> FALSE, context |-> NoContext]

Verdicts(mems, provider, verdict) ==
    {m \in mems : Verdict(DefaultRules, Judgement[m], provider, 12) = verdict}

(* What the governance agent's firewall lets through.  It has the shipped    *)
(* rules (its PolicyEngine() lacks an argument) and nobody to ask.          *)
Passed(mems, provider) ==
    Verdicts(mems, provider, "PERMIT") \cup Verdicts(mems, provider, "REDACT")

(* Constitution.check_compliance. *)
Complies(f, provider) ==
    /\ TopicOf[f] \cap constitution.blocked = {}
    /\ provider = Local \/ FactLevel[f] <= constitution.cloud
    /\ constitution.allowed = {} \/ provider \in constitution.allowed

ToolsAllowed == constitution.allowed = {} \/ Local \in constitution.allowed

-----------------------------------------------------------------------------
(* What an agent may answer: the context it leaves and the status.          *)
Reply(context, st) == [ctx |-> context, status |-> st]

AccessorReplies(t) ==
    LET within == {m \in Memories : StoredLevel[m] <= task[t].ceiling}
    IN  {Reply([ctx[t] EXCEPT !.memories = found], status[t]) :
            found \in IF hasVault THEN SUBSET within ELSE {{}}}

(* With nothing to judge the text of an earlier judgement, or of the caller, *)
(* stays.                                                                   *)
GovernanceReplies(t) ==
    LET mems   == ctx[t].memories
        passed == Passed(mems, task[t].provider)
        asks   == Verdicts(mems, task[t].provider, "CONSENT_REQUIRED")
        blocks == Verdicts(mems, task[t].provider, "BLOCK") # {}
    IN  IF mems = {}
        THEN {Reply([ctx[t] EXCEPT !.permitted = {}, !.withheld = {}], status[t])}
        ELSE {Reply([ctx[t] EXCEPT !.permitted = passed, !.text = passed, !.withheld = asks],
                    IF asks # {} THEN "consent_required"
                    ELSE IF blocks /\ passed = {} THEN "blocked" ELSE status[t])}

(* The facts the model finds in the text, or the text where it finds none;   *)
(* those on a blocked topic are left out.  Asked to compact memories, the    *)
(* maker adds nothing to the context.                                       *)
MakerReplies(t) ==
    LET said == IF task[t].says THEN (SUBSET Facts \ {{}}) \cup {{Whole}} ELSE {{}}
    IN  {Reply([ctx[t] EXCEPT !.extracted =
                   {f \in facts : TopicOf[f] \cap constitution.blocked = {}}], status[t]) :
            facts \in said}
        \cup {Reply(ctx[t], status[t])}

PolicyReplies(t) ==
    IF ctx[t].extracted = {} THEN {Reply(ctx[t], status[t])}
    ELSE {Reply([ctx[t] EXCEPT !.compliant =
                    {f \in ctx[t].extracted : Complies(f, task[t].provider)}], status[t])}

(* The model is asked about one memory at most, and may say "suppress".  The *)
(* text that governance put together is not touched.                        *)
AddonReplies(t) ==
    {Reply([ctx[t] EXCEPT !.permitted = @ \ gone], status[t]) :
        gone \in {{}} \cup {{m} : m \in ctx[t].permitted \cap Ambiguous}}

(* A bug: the prefix is put together from what was retrieved. *)
InjectorRepliesRaw(t) == {Reply([ctx[t] EXCEPT !.prefix = ctx[t].memories], status[t])}

InjectorReplies(t) ==
    {Reply([ctx[t] EXCEPT !.prefix = IF ctx[t].text # {} THEN ctx[t].text
                                     ELSE ctx[t].permitted], status[t])}

(* An operation that writes needs the user's consent, unless the tool is     *)
(* refused first.                                                           *)
ToolReplies(t) ==
    LET asks == ToolsAllowed /\ task[t].writes
    IN  {Reply([ctx[t] EXCEPT !.toolAsks = asks],
               IF asks THEN "consent_required" ELSE status[t])}

Replies(a, t) ==
    CASE a = "accessor"     -> AccessorReplies(t)
      [] a = "governance"   -> GovernanceReplies(t)
      [] a = "maker"        -> MakerReplies(t)
      [] a = "policy"       -> PolicyReplies(t)
      [] a = "addon_memory" -> AddonReplies(t)
      [] a = "injector"     -> InjectorReplies(t)
      [] a = "tool_orchestrator" -> ToolReplies(t)
      [] OTHER              -> {Reply(ctx[t], status[t])}

(* The agents that wait for a search or a model before they answer.         *)
Waits(a, t) ==
    \/ a = "accessor" /\ hasVault
    \/ a = "maker" /\ task[t].says
    \/ a = "addon_memory" /\ ctx[t].permitted \cap Ambiguous # {}
    \/ a = "sentinel" /\ task[t].type = "DETECT"
    \/ a = "policy" /\ task[t].type = "EVOLVE"
    \/ a = "tool_orchestrator" /\ ToolsAllowed

-----------------------------------------------------------------------------
Init ==
    /\ hasVault \in BOOLEAN
    /\ disabled = {} /\ override = [type \in Types |-> <<>>] /\ changes = 0
    /\ constitution \in Constitutions
    /\ broken \in SUBSET BrokenKeys
    /\ task = [t \in Tasks |-> Nothing]
    /\ phase = [t \in Tasks |-> "new"]
    /\ todo = [t \in Tasks |-> <<>>]
    /\ ctx = [t \in Tasks |-> NoContext]
    /\ status = [t \in Tasks |-> "completed"]
    /\ invoked = [t \in Tasks |-> <<>>]
    /\ unsaved = [t \in Tasks |-> {}]
    /\ stored = {}

Goto(t, label) == phase' = [phase EXCEPT ![t] = label]

Pipeline(type) == IF override[type] # <<>> THEN override[type] ELSE DefaultPipeline(type)

(* A task comes in: POST /v1/swarm/tasks for the one coordinator, where the  *)
(* caller's context, whatever is in it, is the one the agents start from; a  *)
(* chat, an add-on or a tool, which bring none, for the other.              *)
Submit(t, want) ==
    /\ phase[t] = "new"
    /\ ~hasVault => want.type \in {"FULL", "ADDON", "TOOL"} /\ want.context = NoContext
    /\ want.writes => want.type = "TOOL"
    /\ task' = [task EXCEPT ![t] = want]
    /\ todo' = [todo EXCEPT ![t] = Pipeline(want.type)]
    /\ ctx' = [ctx EXCEPT ![t] = want.context]
    /\ Goto(t, "running")
    /\ UNCHANGED <<setup, status, invoked, unsaved, stored>>

Agent(t) == Head(todo[t])

Runs(t) == phase[t] = "running" /\ todo[t] # <<>>
Tripped(t) == Len(invoked[t]) >= IF hasVault THEN MaxCalls ELSE 10

(* CONDITIONAL_AGENTS: the sentinel is for level 2 and above. *)
Skipped(t) == Agent(t) \in disabled \/ (Agent(t) = "sentinel" /\ ctx[t].level < 2)

Skip(t) ==
    /\ Runs(t) /\ ~Tripped(t) /\ Skipped(t)
    /\ todo' = [todo EXCEPT ![t] = Tail(@)]
    /\ UNCHANGED <<setup, task, phase, ctx, status, invoked, unsaved, stored>>

Trip(t) ==
    /\ Runs(t) /\ Tripped(t)
    /\ status' = [status EXCEPT ![t] = "circuit_breaker"]
    /\ todo' = [todo EXCEPT ![t] = <<>>]
    /\ UNCHANGED <<setup, task, phase, ctx, invoked, unsaved, stored>>

Called(t) ==
    \/ phase[t] = "waiting"
    \/ Runs(t) /\ ~Tripped(t) /\ ~Skipped(t) /\ ~Waits(Agent(t), t)

Call(t) ==
    /\ Runs(t) /\ ~Tripped(t) /\ ~Skipped(t) /\ Waits(Agent(t), t)
    /\ Goto(t, "waiting")
    /\ UNCHANGED <<setup, task, todo, ctx, status, invoked, unsaved, stored>>

WorstOf(mems, level) ==
    CHOOSE l \in {StoredLevel[m] : m \in mems} \cup {level} :
        l >= level /\ \A m \in mems : l >= StoredLevel[m]

(* A bug: an agent with nothing to object to sets the status back. *)
AnswerResets(t) ==
    /\ Called(t) /\ Agent(t) \notin broken
    /\ \E reply \in Replies(Agent(t), t) :
          /\ ctx' = [ctx EXCEPT ![t] = [reply.ctx EXCEPT
                        !.level = WorstOf(reply.ctx.memories, ctx[t].level)]]
          /\ status' = [status EXCEPT ![t] =
                IF reply.status = @ THEN "completed" ELSE reply.status]
    /\ invoked' = [invoked EXCEPT ![t] = Append(@, Agent(t))]
    /\ todo' = [todo EXCEPT ![t] = Tail(@)]
    /\ Goto(t, "running")
    /\ UNCHANGED <<setup, task, unsaved, stored>>

(* The agent's answer verifies and the next one sees what it left behind.   *)
Answer(t) ==
    /\ Called(t) /\ Agent(t) \notin broken
    /\ \E reply \in Replies(Agent(t), t) :
          /\ ctx' = [ctx EXCEPT ![t] = [reply.ctx EXCEPT
                        !.level = WorstOf(reply.ctx.memories, ctx[t].level)]]
          /\ status' = [status EXCEPT ![t] = reply.status]
    /\ invoked' = [invoked EXCEPT ![t] = Append(@, Agent(t))]
    /\ todo' = [todo EXCEPT ![t] = Tail(@)]
    /\ Goto(t, "running")
    /\ UNCHANGED <<setup, task, unsaved, stored>>

(* A bug: an agent that fails is called again. *)
FailAgain(t) ==
    /\ Called(t)
    /\ Goto(t, "running")
    /\ UNCHANGED <<setup, task, todo, ctx, status, invoked, unsaved, stored>>

(* The agent raises: the loop goes on with the next. *)
Fail(t) ==
    /\ Called(t)
    /\ todo' = [todo EXCEPT ![t] = Tail(@)]
    /\ Goto(t, "running")
    /\ UNCHANGED <<setup, task, ctx, status, invoked, unsaved, stored>>

(* The answer does not verify: the public key is not the signing key's.     *)
Tampered(t) ==
    /\ Called(t) /\ Agent(t) \in broken
    /\ status' = [status EXCEPT ![t] = "tamper_detected"]
    /\ todo' = [todo EXCEPT ![t] = <<>>]
    /\ Goto(t, "running")
    /\ UNCHANGED <<setup, task, ctx, invoked, unsaved, stored>>

-----------------------------------------------------------------------------

(* compliant_facts, or extracted_facts where there are none. *)
ToStore(t) ==
    (IF ctx[t].compliant # {} THEN ctx[t].compliant ELSE ctx[t].extracted) \cap Long

Entry(t, f, level) == [task |-> t, fact |-> f, level |-> level]

Persists(t) == task[t].type = "STORE" /\ status[t] = "completed"

(* The pipeline is through: a STORE task that nothing stopped stores its     *)
(* facts, or, when no long one is left, the text, if any, as it came, as     *)
(* level 1.                                                                 *)
Persist(t) ==
    /\ phase[t] = "running" /\ todo[t] = <<>> /\ Persists(t)
    /\ unsaved' = [unsaved EXCEPT ![t] =
           IF ToStore(t) # {} THEN {Entry(t, f, FactLevel[f]) : f \in ToStore(t)}
           ELSE IF task[t].says THEN {Entry(t, Whole, 1)} ELSE {}]
    /\ Goto(t, "storing")
    /\ UNCHANGED <<setup, task, todo, ctx, status, invoked, stored>>

(* memory.add, in a thread; it may fail. *)
Store(t) ==
    /\ phase[t] = "storing"
    /\ \E e \in unsaved[t] :
          /\ unsaved' = [unsaved EXCEPT ![t] = @ \ {e}]
          /\ stored' \in {stored, stored \cup {e}}
    /\ UNCHANGED <<setup, task, phase, todo, ctx, status, invoked>>

Finish(t) ==
    /\ \/ phase[t] = "running" /\ todo[t] = <<>> /\ ~Persists(t)
       \/ phase[t] = "storing" /\ unsaved[t] = {}
    /\ Goto(t, "answered")
    /\ UNCHANGED <<setup, task, todo, ctx, status, invoked, unsaved, stored>>

-----------------------------------------------------------------------------
Changes ==
    /\ hasVault /\ changes < MaxChanges /\ changes' = changes + 1
    /\ UNCHANGED <<hasVault, broken, task, phase, todo, ctx, status, invoked, unsaved, stored>>

SetAgentEnabled(a) ==
    /\ disabled' = IF a \in disabled THEN disabled \ {a} ELSE disabled \cup {a}
    /\ UNCHANGED <<override, constitution>> /\ Changes

SetPipeline(type, agents) ==
    /\ override' = [override EXCEPT ![type] = agents]
    /\ UNCHANGED <<disabled, constitution>> /\ Changes

PutConstitution(c) ==
    /\ constitution' = c
    /\ UNCHANGED <<disabled, override>> /\ Changes

Step(t) ==
    \/ Skip(t) \/ Trip(t) \/ Call(t) \/ Answer(t) \/ Fail(t) \/ Tampered(t)
    \/ Persist(t) \/ Store(t) \/ Finish(t)

Next ==
    \/ \E t \in Tasks :
          \/ \E want \in Task : Submit(t, want)
          \/ Step(t)
    \/ \E a \in Core : SetAgentEnabled(a)
    \/ \E p \in Pipelines : SetPipeline(p[1], p[2])
    \/ \E c \in Constitutions : PutConstitution(c)

(* The event loop gives every handler its turn, and whatever an agent waits  *)
(* for ends: the client of the model gives up after 90 seconds, and a search *)
(* or an add is a thread that returns or raises.                            *)
Fairness == \A t \in Tasks : WF_vars(Step(t))

Spec == Init /\ [][Next]_vars /\ Fairness

-----------------------------------------------------------------------------

TypeOK ==
    /\ hasVault \in BOOLEAN
    /\ disabled \subseteq Core /\ broken \subseteq Agents /\ changes \in 0..MaxChanges
    /\ override \in [Types -> Seq(Core)] /\ constitution \in Constitutions
    /\ task \in [Tasks -> Task]
    /\ phase \in [Tasks -> {"new", "running", "waiting", "storing", "answered"}]
    /\ todo \in [Tasks -> Seq(Agents)] /\ invoked \in [Tasks -> Seq(Agents)]
    /\ ctx \in [Tasks -> Context]
    /\ status \in [Tasks -> {"completed", "consent_required", "blocked",
                             "circuit_breaker", "tamper_detected"}]
    /\ unsaved \in [Tasks -> SUBSET [task : Tasks, fact : Facts, level : Levels]]
    /\ stored \subseteq [task : Tasks, fact : Facts, level : Levels]

Letting(context) == context.permitted \cup context.text \cup context.prefix
Leaving(t) == Letting(ctx[t])
Brought(t) == Letting(task[t].context)

(* Whatever agents are disabled, fail, or are called in another order, and    *)
(* whenever that is changed: no memory is in the prefix or the text that an  *)
(* add-on gets, nor among the permitted ones, unless the firewall permits it *)
(* for the provider the task names, or the caller put it there itself.       *)
OnlyJudgedLeaves ==
    \A t \in Tasks : \A m \in Leaving(t) \ Brought(t) :
        Verdict(DefaultRules, Judgement[m], task[t].provider, 12) \in {"PERMIT", "REDACT"}

(* A task that has a memory kept back for consent, or a tool that may not    *)
(* write without, never ends as "completed": the caller is told.            *)
WithheldIsReported ==
    \A t \in Tasks : phase[t] = "answered" /\ status[t] = "completed" =>
        ~Objects(ctx[t])

(* Every task is answered. *)
EveryTaskAnswered ==
    \A t \in Tasks : phase[t] = "running" ~> phase[t] = "answered"

=============================================================================
