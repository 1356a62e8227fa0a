---------------------------- MODULE Agents_proofs -----------------------------
(***************************************************************************)
(* The agent swarm for any tasks, memories, constitutions, pipelines and   *)
(* broken keys, however many agents are called: types, that nothing leaves *)
(* unjudged, and that what was kept back is reported.                      *)
(*                                                                         *)
(* Neither rests on the order of the agents. An agent hands on what        *)
(* earlier ones let through, or lets through what the firewall passes      *)
(* (GoodReply), for a provider that is settled before anything is let      *)
(* through (Fresh); and no agent takes an objection back without a new     *)
(* judgement (ObjectionStands).                                            *)
(*                                                                         *)
(* The second part is about their keys and messages, for any number of     *)
(* rings, keys, messages and deaths of the server. A ring signs with what  *)
(* it holds, which is what the files gave it: so the invariant says which  *)
(* writes of a generation or a migration are already done (Generating,     *)
(* Copying, Unlinking), that the one key known to anybody is found by the  *)
(* next start (OneKnown), and that an accepted message is still in the     *)
(* registry or was accepted a lifetime ago (Remembered).                   *)
(***************************************************************************)
EXTENDS SwarmPipeline, AgentKeyring, FiniteSetTheorems, SequenceTheorems, TLAPS

Statuses == {"completed", "consent_required", "blocked", "circuit_breaker",
             "tamper_detected"}
Phases == {"new", "running", "waiting", "storing", "answered"}
Entries == [task : Tasks, fact : Facts, level : Levels]

WaitsForOne == \A t \in Tasks : phase[t] = "waiting" => todo[t] # <<>>

Fresh == \A t \in Tasks : phase[t] = "new" => Leaving(t) = {}

ObjectionStands == \A t \in Tasks : Objects(ctx[t]) => status[t] # "completed"

IInv == TypeOK /\ WaitsForOne /\ Fresh /\ OnlyJudgedLeaves /\ ObjectionStands

GoodReply(t, reply) ==
    /\ reply.ctx \in Context /\ reply.status \in Statuses
    /\ Letting(reply.ctx) \subseteq Leaving(t) \cup Passed(ctx[t].memories, task[t].provider)
    /\ Objects(reply.ctx) => reply.status # "completed"

-----------------------------------------------------------------------------
(* The worst of some levels is one of them. *)
LEMMA WorstOfType ==
    ASSUME NEW mems \in SUBSET Memories, NEW level \in Levels
    PROVE  WorstOf(mems, level) \in Levels
<1> DEFINE S == {StoredLevel[m] : m \in mems} \cup {level}
<1>1. S \subseteq 0..3
  BY SwarmAssumption DEF Levels
<1>2. \E l \in S : \A k \in S : l >= k
  <2>1. CASE 3 \in S
    BY <2>1, <1>1
  <2>2. CASE 3 \notin S /\ 2 \in S
    BY <2>2, <1>1
  <2>3. CASE 3 \notin S /\ 2 \notin S /\ 1 \in S
    BY <2>3, <1>1
  <2>4. CASE 3 \notin S /\ 2 \notin S /\ 1 \notin S
    <3>1. level = 0 /\ \A k \in S : k = 0
      BY <2>4, <1>1
    <3> QED BY <3>1
  <2> QED BY <2>1, <2>2, <2>3, <2>4
<1>3. PICK l \in S : \A k \in S : l >= k
  BY <1>2
<1>4. l >= level /\ \A m \in mems : l >= StoredLevel[m]
  BY <1>3
<1>5. WorstOf(mems, level) \in S
  BY <1>4 DEF WorstOf
<1> QED BY <1>1, <1>5 DEF Levels

(* What an agent is given is typed. *)
LEMMA Given ==
    ASSUME TypeOK, NEW t \in Tasks
    PROVE  /\ ctx[t] \in Context /\ status[t] \in Statuses /\ task[t] \in Task
           /\ Letting(ctx[t]) = Leaving(t)
BY DEF TypeOK, Statuses, Letting, Leaving

LEMMA PassedAreMemories ==
    ASSUME NEW mems, NEW provider
    PROVE  /\ Passed(mems, provider) \subseteq mems
           /\ \A m \in Passed(mems, provider) :
                 Verdict(DefaultRules, Judgement[m], provider, 12) \in {"PERMIT", "REDACT"}
BY DEF Passed, Verdicts

(* The agents that change nothing of what leaves and raise no objection.     *)
LEMMA HarmlessReplies ==
    ASSUME IInv, NEW t \in Tasks,
           NEW reply \in AccessorReplies(t) \cup MakerReplies(t) \cup PolicyReplies(t)
                         \cup {Reply(ctx[t], status[t])}
    PROVE  GoodReply(t, reply)
<1> USE DEF Context, Letting, Objects
<1>1. /\ ctx[t] \in Context /\ status[t] \in Statuses
      /\ Letting(ctx[t]) = Leaving(t) /\ (Objects(ctx[t]) => status[t] # "completed")
  BY Given DEF IInv, ObjectionStands
<1>2. CASE reply \in AccessorReplies(t)
  <2>1. PICK found \in SUBSET Memories :
            reply = Reply([ctx[t] EXCEPT !.memories = found], status[t])
    BY <1>2 DEF AccessorReplies
  <2> QED BY <1>1, <2>1 DEF GoodReply, Reply
<1>3. CASE reply \in MakerReplies(t)
  <2> SUFFICES ASSUME reply # Reply(ctx[t], status[t]) PROVE GoodReply(t, reply)
    BY <1>1 DEF GoodReply, Reply
  <2>1. PICK facts \in SUBSET Facts :
            reply = Reply([ctx[t] EXCEPT !.extracted =
                        {f \in facts : TopicOf[f] \cap constitution.blocked = {}}], status[t])
    BY <1>3, SwarmAssumption DEF MakerReplies
  <2>2. {f \in facts : TopicOf[f] \cap constitution.blocked = {}} \subseteq Facts
    OBVIOUS
  <2> QED BY <1>1, <2>1, <2>2 DEF GoodReply, Reply
<1>4. CASE reply \in PolicyReplies(t)
  <2> DEFINE good == {f \in ctx[t].extracted : Complies(f, task[t].provider)}
  <2>1. \/ reply = Reply(ctx[t], status[t])
        \/ reply = Reply([ctx[t] EXCEPT !.compliant = good], status[t])
    BY <1>4 DEF PolicyReplies
  <2>2. good \subseteq Facts
    BY <1>1
  <2> QED BY <1>1, <2>1, <2>2 DEF GoodReply, Reply
<1>5. CASE reply = Reply(ctx[t], status[t])
  BY <1>1, <1>5 DEF GoodReply, Reply
<1> QED BY <1>2, <1>3, <1>4, <1>5

(* A new judgement lets through what the firewall passes, and objects where  *)
(* it keeps something back.                                                 *)
LEMMA GovernanceRepliesGood ==
    ASSUME IInv, NEW t \in Tasks, NEW reply \in GovernanceReplies(t)
    PROVE  GoodReply(t, reply)
<1> DEFINE mems   == ctx[t].memories
           passed == Passed(mems, task[t].provider)
           asks   == Verdicts(mems, task[t].provider, "CONSENT_REQUIRED")
           blocks == Verdicts(mems, task[t].provider, "BLOCK") # {}
           said   == IF asks # {} THEN "consent_required"
                     ELSE IF blocks /\ passed = {} THEN "blocked" ELSE status[t]
<1> USE DEF Context, Letting, Objects
<1>1. /\ ctx[t] \in Context /\ status[t] \in Statuses
      /\ Letting(ctx[t]) = Leaving(t) /\ (Objects(ctx[t]) => status[t] # "completed")
  BY Given DEF IInv, ObjectionStands
<1>2. passed \subseteq Memories /\ asks \subseteq Memories
  BY <1>1, PassedAreMemories DEF Verdicts
<1>3. CASE mems = {}
  <2>1. reply = Reply([ctx[t] EXCEPT !.permitted = {}, !.withheld = {}], status[t])
    BY <1>3 DEF GovernanceReplies
  <2> QED BY <1>1, <2>1 DEF GoodReply, Reply
<1>4. CASE mems # {}
  <2>1. reply = Reply([ctx[t] EXCEPT !.permitted = passed, !.text = passed,
                                     !.withheld = asks], said)
    BY <1>4 DEF GovernanceReplies
  <2>2. said \in Statuses
    BY <1>1 DEF Statuses
  <2>3. asks # {} \/ ctx[t].toolAsks => said # "completed"
    BY <1>1
  <2> HIDE DEF passed, asks, said
  <2>4. reply.ctx \in Context /\ reply.status = said /\ reply.ctx.permitted = passed
        /\ reply.ctx.text = passed /\ reply.ctx.prefix = ctx[t].prefix
        /\ reply.ctx.withheld = asks /\ reply.ctx.toolAsks = ctx[t].toolAsks
    BY <1>1, <1>2, <2>1 DEF Reply
  <2>5. Letting(reply.ctx) \subseteq Leaving(t) \cup passed
    BY <1>1, <2>4
  <2> QED BY <2>2, <2>3, <2>4, <2>5 DEF GoodReply, passed
<1> QED BY <1>3, <1>4

(* The add-on's agents hand on no more than they were given.                *)
LEMMA AddonRepliesGood ==
    ASSUME IInv, NEW t \in Tasks, NEW reply \in AddonReplies(t) \cup InjectorReplies(t)
    PROVE  GoodReply(t, reply)
<1> USE DEF Context, Letting, Objects
<1>1. /\ ctx[t] \in Context /\ status[t] \in Statuses
      /\ Letting(ctx[t]) = Leaving(t) /\ (Objects(ctx[t]) => status[t] # "completed")
  BY Given DEF IInv, ObjectionStands
<1>2. CASE reply \in AddonReplies(t)
  <2>1. PICK gone : reply = Reply([ctx[t] EXCEPT !.permitted = @ \ gone], status[t])
    BY <1>2 DEF AddonReplies
  <2> QED BY <1>1, <2>1 DEF GoodReply, Reply
<1>3. CASE reply \in InjectorReplies(t)
  <2>1. \/ reply = Reply([ctx[t] EXCEPT !.prefix = ctx[t].text], status[t])
        \/ reply = Reply([ctx[t] EXCEPT !.prefix = ctx[t].permitted], status[t])
    BY <1>3 DEF InjectorReplies
  <2> QED BY <1>1, <2>1 DEF GoodReply, Reply
<1> QED BY <1>2, <1>3

LEMMA ToolRepliesGood ==
    ASSUME IInv, NEW t \in Tasks, NEW reply \in ToolReplies(t)
    PROVE  GoodReply(t, reply)
<1> DEFINE asks == ToolsAllowed /\ task[t].writes
<1> USE DEF Context, Letting, Objects
<1>1. /\ ctx[t] \in Context /\ status[t] \in Statuses
      /\ Letting(ctx[t]) = Leaving(t) /\ (Objects(ctx[t]) => status[t] # "completed")
  BY Given DEF IInv, ObjectionStands
<1>2. reply = Reply([ctx[t] EXCEPT !.toolAsks = asks],
                    IF asks THEN "consent_required" ELSE status[t])
  BY DEF ToolReplies
<1>3. asks \in BOOLEAN
  BY DEF ToolsAllowed
<1>4. CASE asks
  <2>1. reply = Reply([ctx[t] EXCEPT !.toolAsks = TRUE], "consent_required")
    BY <1>2, <1>4
  <2> QED BY <1>1, <2>1 DEF GoodReply, Reply, Statuses
<1>5. CASE ~asks
  <2>1. reply = Reply([ctx[t] EXCEPT !.toolAsks = FALSE], status[t])
    BY <1>2, <1>3, <1>5
  <2> QED BY <1>1, <2>1 DEF GoodReply, Reply
<1> QED BY <1>4, <1>5

LEMMA RepliesGood ==
    ASSUME IInv, NEW t \in Tasks, NEW a, NEW reply \in Replies(a, t)
    PROVE  GoodReply(t, reply)
BY HarmlessReplies, GovernanceRepliesGood, AddonRepliesGood, ToolRepliesGood DEF Replies

-----------------------------------------------------------------------------
LEMMA PipelineType ==
    ASSUME TypeOK, NEW type \in Types
    PROVE  Pipeline(type) \in Seq(Agents)
<1>1. override[type] \in Seq(Agents)
  BY DEF TypeOK, Agents
<1>2. DefaultPipeline(type) \in Seq(Agents)
  <2>1. /\ <<"accessor", "governance", "sentinel">> \in Seq(Agents)
        /\ <<"maker", "governance", "policy">> \in Seq(Agents)
        /\ <<"accessor", "governance">> \in Seq(Agents)
        /\ <<"accessor", "sentinel">> \in Seq(Agents)
    BY DEF Agents, Core
  <2>2. /\ <<"governance">> \in Seq(Agents) /\ <<"policy">> \in Seq(Agents)
        /\ <<"arbitrator">> \in Seq(Agents) /\ <<"auditor">> \in Seq(Agents)
        /\ <<"maker">> \in Seq(Agents)
        /\ <<"governance", "tool_orchestrator", "auditor">> \in Seq(Agents)
    BY DEF Agents, Core
  <2>3. <<"accessor", "governance", "addon_memory", "injector", "processor",
          "sentinel", "auditor">> \in Seq(Agents)
    BY DEF Agents, Core
  <2> QED BY <2>1, <2>2, <2>3 DEF DefaultPipeline, Types
<1> QED BY <1>1, <1>2 DEF Pipeline

LEMMA InitInv == Init => IInv
<1> SUFFICES ASSUME Init PROVE IInv
  OBVIOUS
<1>1. TypeOK
  <2>1. NoContext \in Context
    BY DEF NoContext, Context, Levels
  <2>2. changes \in 0..MaxChanges
    BY SwarmAssumption DEF Init
  <2>3. task \in [Tasks -> Task]
    BY SwarmAssumption, RulesAssumption DEF Init, Nothing, Task, Types
  <2> QED BY <2>1, <2>2, <2>3, SwarmAssumption DEF Init, TypeOK
<1>2. \A t \in Tasks : ctx[t] = NoContext /\ phase[t] = "new"
  BY DEF Init
<1>3. WaitsForOne
  BY <1>2 DEF WaitsForOne
<1>4. Fresh /\ OnlyJudgedLeaves
  BY <1>2 DEF Fresh, OnlyJudgedLeaves, Leaving, Letting, NoContext
<1>5. ObjectionStands
  BY <1>2 DEF ObjectionStands, Objects, NoContext
<1> QED BY <1>1, <1>3, <1>4, <1>5 DEF IInv

(* A task is told what it is for while nothing has been let through but what *)
(* its caller brings along.                                                 *)
LEMMA SubmitInv ==
    ASSUME IInv, NEW t \in Tasks, NEW want \in Task, Submit(t, want)
    PROVE  IInv'
<1>1. /\ phase[t] = "new" /\ task' = [task EXCEPT ![t] = want]
      /\ todo' = [todo EXCEPT ![t] = Pipeline(want.type)]
      /\ ctx' = [ctx EXCEPT ![t] = want.context]
      /\ phase' = [phase EXCEPT ![t] = "running"]
      /\ UNCHANGED <<setup, status, invoked, unsaved, stored>>
  BY DEF Submit, Goto
<1>2. TypeOK /\ want.type \in Types
  BY DEF IInv, Task
<1>3. want.context \in Context /\ ~Objects(want.context)
  BY SwarmAssumption DEF Task
<1>4. /\ ctx'[t] = want.context /\ task'[t] = want
      /\ \A u \in Tasks : u # t => ctx'[u] = ctx[u] /\ task'[u] = task[u] /\ phase'[u] = phase[u]
  BY <1>1, <1>2 DEF TypeOK
<1>5. TypeOK'
  <2>1. ctx' \in [Tasks -> Context]
    BY <1>1, <1>2, <1>3 DEF TypeOK
  <2>2. Pipeline(want.type) \in Seq(Agents)
    BY <1>2, PipelineType
  <2> QED BY <1>1, <1>2, <2>1, <2>2 DEF TypeOK, setup
<1>6. WaitsForOne'
  BY <1>1, <1>2 DEF IInv, WaitsForOne, TypeOK
<1>7. /\ phase'[t] = "running" /\ Leaving(t)' = Brought(t)'
      /\ \A u \in Tasks : u # t => Leaving(u)' = Leaving(u) /\ Brought(u)' = Brought(u)
  BY <1>1, <1>2, <1>4 DEF TypeOK, Leaving, Brought
<1>8. Fresh' /\ OnlyJudgedLeaves'
  BY <1>4, <1>7 DEF IInv, Fresh, OnlyJudgedLeaves
<1>9. ObjectionStands'
  BY <1>1, <1>3, <1>4 DEF IInv, ObjectionStands
<1> QED BY <1>5, <1>6, <1>8, <1>9 DEF IInv

(* An agent's answer. *)
LEMMA AnswerInv ==
    ASSUME IInv, NEW t \in Tasks, Answer(t)
    PROVE  IInv'
<1>1. TypeOK /\ ctx[t] \in Context /\ todo[t] \in Seq(Agents) /\ todo[t] # <<>>
  BY Given DEF IInv, TypeOK, WaitsForOne, Answer, Called, Runs
<1>2. PICK reply \in Replies(Agent(t), t) :
        /\ ctx' = [ctx EXCEPT ![t] = [reply.ctx EXCEPT
                        !.level = WorstOf(reply.ctx.memories, ctx[t].level)]]
        /\ status' = [status EXCEPT ![t] = reply.status]
  BY DEF Answer
<1>3. /\ invoked' = [invoked EXCEPT ![t] = Append(@, Agent(t))]
      /\ todo' = [todo EXCEPT ![t] = Tail(@)]
      /\ phase' = [phase EXCEPT ![t] = "running"]
      /\ UNCHANGED <<setup, task, unsaved, stored>>
  BY DEF Answer, Goto
<1>4. GoodReply(t, reply)
  BY RepliesGood
<1>5. WorstOf(reply.ctx.memories, ctx[t].level) \in Levels
  BY <1>1, <1>4, WorstOfType DEF GoodReply, Context
<1>6. /\ ctx'[t] \in Context /\ Letting(ctx'[t]) = Letting(reply.ctx)
      /\ Objects(ctx'[t]) <=> Objects(reply.ctx)
      /\ status'[t] = reply.status
      /\ \A u \in Tasks : u # t => ctx'[u] = ctx[u] /\ status'[u] = status[u]
                                   /\ phase'[u] = phase[u]
      /\ phase'[t] = "running"
  BY <1>1, <1>2, <1>3, <1>4, <1>5 DEF GoodReply, Context, TypeOK, Letting, Objects
<1>7. TypeOK'
  <2>1. ctx' \in [Tasks -> Context]
    BY <1>1, <1>2, <1>6 DEF TypeOK
  <2>2. Agent(t) \in Agents /\ Tail(todo[t]) \in Seq(Agents)
    BY <1>1 DEF Agent
  <2>3. Append(invoked[t], Agent(t)) \in Seq(Agents)
    BY <1>1, <2>2 DEF TypeOK
  <2> QED BY <1>1, <1>2, <1>3, <1>4, <2>1, <2>2, <2>3 DEF TypeOK, setup, GoodReply, Statuses
<1>8. WaitsForOne'
  BY <1>1, <1>3, <1>6 DEF IInv, WaitsForOne, TypeOK
<1>9. Leaving(t)' = Letting(reply.ctx) /\ \A u \in Tasks : u # t => Leaving(u)' = Leaving(u)
  BY <1>6 DEF Leaving, Letting
<1>10. Fresh'
  BY <1>6, <1>9 DEF IInv, Fresh
<1>11. OnlyJudgedLeaves'
  <2> SUFFICES ASSUME NEW u \in Tasks, NEW m \in Leaving(u)' \ Brought(u)
               PROVE  Verdict(DefaultRules, Judgement[m], task[u].provider, 12)
                          \in {"PERMIT", "REDACT"}
    BY <1>3 DEF OnlyJudgedLeaves, Brought
  <2>1. m \in Leaving(u) \/ m \in Passed(ctx[u].memories, task[u].provider)
    BY <1>4, <1>9 DEF GoodReply
  <2> QED BY <2>1, PassedAreMemories DEF IInv, OnlyJudgedLeaves
<1>12. ObjectionStands'
  BY <1>4, <1>6 DEF IInv, ObjectionStands, GoodReply
<1> QED BY <1>7, <1>8, <1>10, <1>11, <1>12 DEF IInv

(* The steps in which no context changes and no status becomes "completed".  *)
LEMMA OtherStepsInv ==
    ASSUME IInv, NEW t \in Tasks,
           Skip(t) \/ Trip(t) \/ Call(t) \/ Fail(t) \/ Tampered(t)
    PROVE  IInv'
<1> USE DEF IInv
<1>1. TypeOK /\ todo[t] \in Seq(Agents) /\ todo[t] # <<>> /\ Tail(todo[t]) \in Seq(Agents)
      /\ <<>> \in Seq(Agents)
  BY DEF TypeOK, WaitsForOne, Skip, Trip, Call, Fail, Tampered, Called, Runs
<1>2. /\ UNCHANGED <<setup, task, ctx, invoked, unsaved, stored>>
      /\ \/ todo' = todo
         \/ todo' = [todo EXCEPT ![t] = Tail(@)] \/ todo' = [todo EXCEPT ![t] = <<>>]
      /\ \/ status' = status
         \/ status' = [status EXCEPT ![t] = "circuit_breaker"]
         \/ status' = [status EXCEPT ![t] = "tamper_detected"]
  BY DEF Skip, Trip, Call, Fail, Tampered
<1>3. /\ phase[t] \in {"running", "waiting"}
      /\ \/ phase' = phase /\ phase[t] = "running"
         \/ phase' = [phase EXCEPT ![t] = "running"]
         \/ phase' = [phase EXCEPT ![t] = "waiting"] /\ todo' = todo
  BY DEF Skip, Trip, Call, Fail, Tampered, Called, Runs, Goto
<1>4. TypeOK'
  <2>1. todo' \in [Tasks -> Seq(Agents)]
    BY <1>1, <1>2 DEF TypeOK
  <2>2. status' \in [Tasks -> Statuses]
    BY <1>1, <1>2 DEF TypeOK, Statuses
  <2>3. phase' \in [Tasks -> Phases]
    BY <1>1, <1>3 DEF TypeOK, Phases
  <2> QED BY <1>1, <1>2, <2>1, <2>2, <2>3 DEF TypeOK, setup, Statuses, Phases
<1>5. WaitsForOne'
  BY <1>1, <1>2, <1>3 DEF WaitsForOne, TypeOK
<1>6. \A u \in Tasks : Leaving(u)' = Leaving(u) /\ (phase'[u] = "new" => phase[u] = "new")
  BY <1>1, <1>2, <1>3 DEF Leaving, TypeOK
<1>7. Fresh' /\ OnlyJudgedLeaves'
  BY <1>2, <1>6 DEF Fresh, OnlyJudgedLeaves, Brought
<1>8. ObjectionStands'
  BY <1>1, <1>2 DEF ObjectionStands, Objects, TypeOK
<1> QED BY <1>4, <1>5, <1>7, <1>8

(* What follows the last agent, and changes of the set-up.                  *)
LEMMA StoringInv ==
    ASSUME IInv, NEW t \in Tasks, Persist(t) \/ Store(t) \/ Finish(t)
    PROVE  IInv'
<1> USE DEF IInv
<1>1. TypeOK
  OBVIOUS
<1>2. /\ UNCHANGED <<setup, task, todo, ctx, status, invoked>>
      /\ phase[t] # "new"
      /\ \/ phase' = phase
         \/ phase' = [phase EXCEPT ![t] = "storing"]
         \/ phase' = [phase EXCEPT ![t] = "answered"]
  BY DEF Persist, Store, Finish, Goto
<1>3. unsaved' \in [Tasks -> SUBSET Entries] /\ stored' \subseteq Entries
  <2>1. unsaved \in [Tasks -> SUBSET Entries] /\ stored \subseteq Entries
    BY <1>1 DEF TypeOK, Entries
  <2>2. CASE Persist(t)
    <3>1. ctx[t] \in Context
      BY <1>1, Given
    <3>2. ToStore(t) \subseteq Facts
      BY <3>1 DEF ToStore, Context
    <3>3. {Entry(t, f, FactLevel[f]) : f \in ToStore(t)} \subseteq Entries
      BY <3>2, SwarmAssumption DEF Entry, Entries
    <3>4. {Entry(t, Whole, 1)} \subseteq Entries
      BY SwarmAssumption DEF Entry, Entries, Levels
    <3> QED BY <2>1, <2>2, <3>3, <3>4 DEF Persist
  <2>3. CASE Store(t)
    <3>1. PICK e \in unsaved[t] : /\ unsaved' = [unsaved EXCEPT ![t] = @ \ {e}]
                                  /\ stored' \in {stored, stored \cup {e}}
      BY <2>3 DEF Store
    <3> QED BY <2>1, <3>1
  <2>4. CASE Finish(t)
    BY <2>1, <2>4 DEF Finish
  <2> QED BY <2>2, <2>3, <2>4
<1>4. TypeOK'
  BY <1>1, <1>2, <1>3 DEF TypeOK, setup, Entries
<1>5. WaitsForOne' /\ \A u \in Tasks : Leaving(u)' = Leaving(u) /\ (phase'[u] = "new" => phase[u] = "new")
  BY <1>1, <1>2 DEF WaitsForOne, Leaving, TypeOK
<1>6. Fresh' /\ OnlyJudgedLeaves' /\ ObjectionStands'
  BY <1>2, <1>5 DEF Fresh, OnlyJudgedLeaves, Brought, ObjectionStands, Objects
<1> QED BY <1>4, <1>5, <1>6

LEMMA SetupInv ==
    ASSUME IInv,
           \/ \E a \in Core : SetAgentEnabled(a)
           \/ \E p \in Pipelines : SetPipeline(p[1], p[2])
           \/ \E c \in Constitutions : PutConstitution(c)
           \/ UNCHANGED vars
    PROVE  IInv'
<1> USE DEF IInv
<1>1. UNCHANGED <<hasVault, broken, task, phase, todo, ctx, status, invoked, unsaved, stored>>
  BY DEF SetAgentEnabled, SetPipeline, PutConstitution, Changes, vars, setup
<1>2. changes' \in 0..MaxChanges
  BY SwarmAssumption DEF SetAgentEnabled, SetPipeline, PutConstitution, Changes, vars, setup, TypeOK
<1>3. disabled' \subseteq Core /\ constitution' \in Constitutions
  BY DEF SetAgentEnabled, SetPipeline, PutConstitution, vars, setup, TypeOK
<1>4. override' \in [Types -> Seq(Core)]
  <2>1. ASSUME NEW p \in Pipelines, SetPipeline(p[1], p[2])
        PROVE  override' \in [Types -> Seq(Core)]
    <3>1. p[1] \in Types /\ p[2] \in Seq(Core)
      BY SwarmAssumption
    <3> QED BY <2>1, <3>1 DEF SetPipeline, TypeOK
  <2> QED BY <2>1 DEF SetAgentEnabled, PutConstitution, vars, setup, TypeOK
<1>5. TypeOK'
  BY <1>1, <1>2, <1>3, <1>4 DEF TypeOK
<1>6. WaitsForOne' /\ Fresh' /\ OnlyJudgedLeaves' /\ ObjectionStands'
  BY <1>1 DEF WaitsForOne, Fresh, OnlyJudgedLeaves, Brought, ObjectionStands, Objects,
              Leaving, Letting
<1> QED BY <1>5, <1>6

LEMMA NextInv == IInv /\ [Next]_vars => IInv'
BY SubmitInv, AnswerInv, OtherStepsInv, StoringInv, SetupInv DEF Next, Step

(* Every variable of the pipeline keeps its type, for any tasks, memories,   *)
(* pipelines and changes of them.                                           *)
THEOREM TypeCorrect == Spec => []TypeOK
<1>1. IInv => TypeOK
  BY DEF IInv
<1> QED BY <1>1, InitInv, NextInv, PTL DEF Spec

(* Whatever agents are disabled, fail or come in another order, and whatever *)
(* the caller put in the context: nothing else is let through but what the   *)
(* firewall permits for the task's provider                                 *)
(* (agents/swarm/coordinator.py:259, governance.py).                        *)
THEOREM NothingLeavesUnjudged == Spec => []OnlyJudgedLeaves
<1>1. IInv => OnlyJudgedLeaves
  BY DEF IInv
<1> QED BY <1>1, InitInv, NextInv, PTL DEF Spec

(* A task with something kept back never ends as "completed", whichever     *)
(* agents come after the one that objected (coordinator.py:336).            *)
THEOREM NothingWithheldSilently == Spec => []WithheldIsReported
<1>1. IInv => WithheldIsReported
  BY DEF IInv, ObjectionStands, WithheldIsReported, Objects, TypeOK, Context
<1> QED BY <1>1, InitInv, NextInv, PTL DEF Spec

-----------------------------------------------------------------------------
(* The keys of the agents and the messages signed with them                 *)
Contents == Keys \cup {Missing, Damaged}

RingTypes ==
    /\ clock \in Nat
    /\ nonces \in [Rings -> SUBSET (Nat \X Nat)]
    /\ accepted \in [Rings -> Seq(Nat \X Nat)]
    /\ signed \in Nat

(* The nonce of an accepted message, when it has one, is in the registry, or  *)
(* it was accepted a lifetime ago.                                          *)
Remembered ==
    \A r \in Rings : \A i \in DOMAIN accepted[r] :
        \/ accepted[r][i][1] = NoNonce
        \/ accepted[r][i] \in nonces[r]
        \/ clock - accepted[r][i][2] >= Ttl

MessageInv == RingTypes /\ Remembered /\ AcceptedOnce

-----------------------------------------------------------------------------
(* The keys: their files, and the pairs in memory. *)
Steps == [file : {"ed25519.enc", "ed25519.pub"}, key : Contents]
         \cup [file : {"private.pem", "public.pem"}, key : {Missing}]

KeyTypes ==
    /\ disk \in [Files -> Contents]
    /\ made \in Nat \ {0}
    /\ held \in [Rings -> Pair \cup {NoPair}]
    /\ ring \in Rings /\ pair \in Pair \cup {NoPair}
    /\ writes \in Seq(Steps)
    /\ trusted \subseteq Keys
    /\ disk["private.pem"] \in {Missing, 1} /\ disk["public.pem"] \in {Missing, 1}

(* What is left of a save, and of a migration. *)
Unlink1 == <<Put("public.pem", Missing)>>
Unlink2 == <<Put("private.pem", Missing), Put("public.pem", Missing)>>

Save4(p) == <<Put("ed25519.enc", Damaged), Put("ed25519.enc", p.private),
              Put("ed25519.pub", Damaged), Put("ed25519.pub", p.public)>>
Save3(p) == <<Put("ed25519.enc", p.private),
              Put("ed25519.pub", Damaged), Put("ed25519.pub", p.public)>>
Save2(p) == <<Put("ed25519.pub", Damaged), Put("ed25519.pub", p.public)>>
Save1(p) == <<Put("ed25519.pub", p.public)>>

Move6(p) == <<Put("ed25519.enc", Damaged), Put("ed25519.enc", p.private),
              Put("ed25519.pub", Damaged), Put("ed25519.pub", p.public),
              Put("private.pem", Missing), Put("public.pem", Missing)>>
Move5(p) == <<Put("ed25519.enc", p.private),
              Put("ed25519.pub", Damaged), Put("ed25519.pub", p.public),
              Put("private.pem", Missing), Put("public.pem", Missing)>>
Move4(p) == <<Put("ed25519.pub", Damaged), Put("ed25519.pub", p.public),
              Put("private.pem", Missing), Put("public.pem", Missing)>>
Move3(p) == <<Put("ed25519.pub", p.public),
              Put("private.pem", Missing), Put("public.pem", Missing)>>

BothPlain == Has("private.pem") /\ Has("public.pem")

(* The keys that signed or may sign now; and where a start finds one. *)
Known == trusted \cup {held[r].private : r \in {q \in Rings : held[q] # NoPair}}

Found(k) ==
    \/ disk["ed25519.enc"] = k /\ Good("ed25519.pub")
    \/ disk["private.pem"] = k /\ disk["public.pem"] = k

(* Where the server stands inside _ensure_key, and what the files hold then. *)
Generating ==
    /\ \/ writes = Save4(pair)
       \/ writes = Save3(pair)
       \/ writes = Save2(pair) /\ disk["ed25519.enc"] = pair.private
       \/ writes = Save1(pair) /\ disk["ed25519.enc"] = pair.private
    /\ ~Good("ed25519.pub")
    /\ held[ring] = NoPair
    /\ excused = {} => Known = {} /\ ~BothPlain

Copying ==
    /\ \/ writes = Move6(pair)
       \/ writes = Move5(pair)
       \/ writes = Move4(pair) /\ disk["ed25519.enc"] = pair.private
       \/ writes = Move3(pair) /\ disk["ed25519.enc"] = pair.private
    /\ ~Good("ed25519.pub")
    /\ held[ring] = pair
    /\ BothPlain /\ pair.private = 1

Unlinking ==
    /\ writes \in {Unlink2, Unlink1}
    /\ disk["ed25519.enc"] = pair.private /\ disk["ed25519.pub"] = pair.public
    /\ held[ring] = pair

Stages ==
    \/ writes = <<>>
    \/ /\ pair \in Pair /\ pair.private = pair.public
       /\ Generating \/ Copying \/ Unlinking

Matched ==
    /\ Good("ed25519.pub") => disk["ed25519.enc"] = disk["ed25519.pub"]
    /\ \A r \in Rings : held[r].private = held[r].public

OneKnown ==
    /\ \A k \in Known : Found(k)
    /\ \A k, l \in Known : k = l
    /\ BothPlain /\ Good("ed25519.enc") => disk["ed25519.enc"] = 1

KeyInv ==
    /\ KeyTypes
    /\ "renamed" \notin excused => Stages /\ Matched
    /\ excused = {} => OneKnown

-----------------------------------------------------------------------------
(* Every list of writes of crypto.py is made of steps on the four files.    *)
LEMMA PlansInSteps ==
    ASSUME NEW p \in Pair
    PROVE  /\ Saved(p) = Save4(p) /\ Migration(p) = Move6(p)
           /\ Saved(p) \in Seq(Steps) /\ Migration(p) \in Seq(Steps)
  <1>1. \A f \in {"ed25519.enc", "ed25519.pub"} : \A k \in Contents : Put(f, k) \in Steps
    BY DEF Steps, Put
  <1>2. \A f \in {"private.pem", "public.pem"} : Put(f, Missing) \in Steps
    BY DEF Steps, Put
  <1>3. p.private \in Contents /\ p.public \in Contents /\ Damaged \in Contents
    BY DEF Pair, Contents
  <1>4. Save4(p) \in Seq(Steps)
    BY <1>1, <1>3 DEF Save4
  <1>5. Move6(p) \in Seq(Steps)
    BY <1>1, <1>2, <1>3 DEF Move6
  <1>6. Saved(p) = Save4(p)
    <2> DEFINE first == Written("ed25519.enc", p.private)
               second == Written("ed25519.pub", p.public)
    <2>1. /\ first \in Seq(Steps) /\ Len(first) = 2
          /\ first[1] = Put("ed25519.enc", Damaged) /\ first[2] = Put("ed25519.enc", p.private)
      BY <1>1, <1>3 DEF Written
    <2>2. /\ second \in Seq(Steps) /\ Len(second) = 2
          /\ second[1] = Put("ed25519.pub", Damaged) /\ second[2] = Put("ed25519.pub", p.public)
      BY <1>1, <1>3 DEF Written
    <2>3. Saved(p) = first \o second
      BY DEF Saved
    <2> HIDE DEF first, second
    <2>4. /\ Saved(p) \in Seq(Steps) /\ Len(Saved(p)) = 4
          /\ Saved(p)[1] = first[1] /\ Saved(p)[2] = first[2]
          /\ Saved(p)[3] = second[1] /\ Saved(p)[4] = second[2]
      <3>1. /\ first \o second \in Seq(Steps) /\ Len(first \o second) = 4
            /\ \A i \in 1..4 : (first \o second)[i] = IF i <= 2 THEN first[i] ELSE second[i - 2]
        BY <2>1, <2>2, ConcatProperties
      <3>2. QED
        BY <2>3, <3>1
    <2>5. Len(Save4(p)) = 4 /\ \A i \in 1..4 : Saved(p)[i] = Save4(p)[i]
      BY <2>1, <2>2, <2>4 DEF Save4
    <2>6. QED
      BY <1>4, <2>4, <2>5, SeqEqual
  <1>7. Migration(p) = Move6(p)
    <2>1. /\ Unlinked \in Seq(Steps) /\ Len(Unlinked) = 2
          /\ Unlinked[1] = Put("private.pem", Missing) /\ Unlinked[2] = Put("public.pem", Missing)
      BY <1>2 DEF Unlinked
    <2>2. /\ Len(Save4(p)) = 4
          /\ Save4(p)[1] = Put("ed25519.enc", Damaged) /\ Save4(p)[2] = Put("ed25519.enc", p.private)
          /\ Save4(p)[3] = Put("ed25519.pub", Damaged) /\ Save4(p)[4] = Put("ed25519.pub", p.public)
      BY DEF Save4
    <2>3. Migration(p) = Save4(p) \o Unlinked
      BY <1>6 DEF Migration
    <2>4. /\ Migration(p) \in Seq(Steps) /\ Len(Migration(p)) = 6
          /\ \A i \in 1..6 : Migration(p)[i] = IF i <= 4 THEN Save4(p)[i] ELSE Unlinked[i - 4]
      <3> DEFINE first == Save4(p)
                 joined == first \o Unlinked
      <3>1. first \in Seq(Steps) /\ Len(first) = 4
        BY <1>4, <2>2
      <3> HIDE DEF first
      <3>2. /\ joined \in Seq(Steps) /\ Len(joined) = Len(first) + Len(Unlinked)
            /\ \A i \in 1..Len(first) + Len(Unlinked) :
                   joined[i] = IF i <= Len(first) THEN first[i] ELSE Unlinked[i - Len(first)]
        BY <3>1, <2>1, ConcatProperties
      <3> HIDE DEF joined
      <3>3. /\ joined \in Seq(Steps) /\ Len(joined) = 6
            /\ \A i \in 1..6 : joined[i] = IF i <= 4 THEN first[i] ELSE Unlinked[i - 4]
        BY <2>1, <3>1, <3>2
      <3>4. QED
        BY <2>3, <3>3 DEF joined, first
    <2>5. Len(Move6(p)) = 6 /\ \A i \in 1..6 : Migration(p)[i] = Move6(p)[i]
      BY <2>1, <2>2, <2>4 DEF Move6
    <2>6. QED
      BY <1>5, <2>4, <2>5, SeqEqual
  <1>8. QED
    BY <1>4, <1>5, <1>6, <1>7

(* The first write of what is left, and what is left then. *)
LEMMA SaveLeft ==
    ASSUME NEW p
    PROVE  /\ /\ Save4(p) # <<>> /\ Tail(Save4(p)) = Save3(p) /\ Len(Save4(p)) = 4
              /\ Head(Save4(p)) = Put("ed25519.enc", Damaged)
           /\ /\ Save3(p) # <<>> /\ Tail(Save3(p)) = Save2(p) /\ Len(Save3(p)) = 3
              /\ Head(Save3(p)) = Put("ed25519.enc", p.private)
           /\ /\ Save2(p) # <<>> /\ Tail(Save2(p)) = Save1(p) /\ Len(Save2(p)) = 2
              /\ Head(Save2(p)) = Put("ed25519.pub", Damaged)
           /\ /\ Save1(p) # <<>> /\ Tail(Save1(p)) = <<>> /\ Len(Save1(p)) = 1
              /\ Head(Save1(p)) = Put("ed25519.pub", p.public)
  BY DEF Save4, Save3, Save2, Save1

(* What is left of a migration after each of its writes.                    *)
LEMMA MoveLeft ==
    ASSUME NEW p
    PROVE  /\ /\ Move6(p) # <<>> /\ Tail(Move6(p)) = Move5(p) /\ Len(Move6(p)) = 6
              /\ Head(Move6(p)) = Put("ed25519.enc", Damaged)
           /\ /\ Move5(p) # <<>> /\ Tail(Move5(p)) = Move4(p) /\ Len(Move5(p)) = 5
              /\ Head(Move5(p)) = Put("ed25519.enc", p.private)
           /\ /\ Move4(p) # <<>> /\ Tail(Move4(p)) = Move3(p) /\ Len(Move4(p)) = 4
              /\ Head(Move4(p)) = Put("ed25519.pub", Damaged)
           /\ /\ Move3(p) # <<>> /\ Tail(Move3(p)) = Unlink2 /\ Len(Move3(p)) = 3
              /\ Head(Move3(p)) = Put("ed25519.pub", p.public)
  BY DEF Move6, Move5, Move4, Move3, Unlink2

(* And once only the plain files are to be unlinked.                        *)
LEMMA UnlinkLeft ==
    /\ /\ Unlink2 # <<>> /\ Tail(Unlink2) = Unlink1 /\ Len(Unlink2) = 2
       /\ Head(Unlink2) = Put("private.pem", Missing)
    /\ /\ Unlink1 # <<>> /\ Tail(Unlink1) = <<>> /\ Len(Unlink1) = 1
       /\ Head(Unlink1) = Put("public.pem", Missing)
  BY DEF Unlink2, Unlink1

-----------------------------------------------------------------------------
(* The messages. *)
LEMMA MessageInit == KeyringInit => MessageInv
  BY KeyringAssumption DEF KeyringInit, MessageInv, RingTypes, Remembered, AcceptedOnce

(* What stands before the last element was there before it. *)
LEMMA BeforeTheLast ==
    ASSUME NEW S, NEW s \in Seq(S), NEW x \in S, NEW i \in DOMAIN Append(s, x),
           NEW j \in DOMAIN Append(s, x), i < j, j \notin DOMAIN s
    PROVE  i \in DOMAIN s /\ Append(s, x)[i] = s[i] /\ Append(s, x)[j] = x
  OBVIOUS

(* A message is accepted only if its nonce is not in the registry after the *)
(* eviction, which drops no nonce younger than Ttl.                         *)
LEMMA VerifyStep ==
    ASSUME MessageInv, NEW r \in Rings, NEW m \in 1..signed, NEW n \in NoNonce..signed,
           Verify(r, m, n)
    PROVE  MessageInv'
  <1> USE DEF MessageInv
  <1>1. n \in Nat /\ UNCHANGED <<clock, signed>>
    BY DEF Verify, RingTypes, NoNonce
  <1>2. \/ n = NoNonce /\ nonces' = nonces
        \/ n # NoNonce /\ nonces' = [nonces EXCEPT ![r] = Kept(nonces[r]) \cup {<<n, clock>>}]
    BY DEF Verify
  <1>3. Kept(nonces[r]) \subseteq nonces[r]
    BY DEF Kept
  <1>4. nonces' \in [Rings -> SUBSET (Nat \X Nat)]
    <2>1. CASE n = NoNonce /\ nonces' = nonces
      BY <2>1 DEF RingTypes
    <2>2. CASE nonces' = [nonces EXCEPT ![r] = Kept(nonces[r]) \cup {<<n, clock>>}]
      BY <1>1, <1>3, <2>2 DEF RingTypes
    <2>3. QED
      BY <1>2, <2>1, <2>2
  <1>5. \A k \in nonces[r] : k \in Kept(nonces[r]) \/ clock - k[2] >= Ttl
    BY KeyringAssumption DEF Kept, RingTypes
  <1>6. \/ accepted' = accepted
        \/ accepted' = [accepted EXCEPT ![r] = Append(accepted[r], <<n, clock>>)]
    BY DEF Verify, RingTypes
  <1>7. RingTypes'
    <2>1. accepted[r] \in Seq(Nat \X Nat) /\ clock \in Nat /\ signed \in Nat
          /\ accepted \in [Rings -> Seq(Nat \X Nat)]
      BY DEF RingTypes
    <2>2. <<n, clock>> \in Nat \X Nat
      BY <1>1, <2>1
    <2>3. Append(accepted[r], <<n, clock>>) \in Seq(Nat \X Nat)
      BY <2>1, <2>2
    <2>4. accepted' \in [Rings -> Seq(Nat \X Nat)]
      BY <1>6, <2>1, <2>3
    <2>5. QED
      BY <1>1, <1>4, <2>1, <2>4 DEF RingTypes
  <1>8. \A q \in Rings : \A k \in nonces[q] : k \in nonces'[q] \/ clock - k[2] >= Ttl
    BY <1>2, <1>5 DEF RingTypes
  <1>9. \A q \in Rings : \A i \in DOMAIN accepted[q] : 
            \/ accepted[q][i][1] = NoNonce
            \/ accepted[q][i] \in nonces'[q]
            \/ clock - accepted[q][i][2] >= Ttl
    BY <1>8 DEF Remembered
  <1>10. \A i \in DOMAIN accepted[r] :
            n # NoNonce /\ accepted[r][i][1] = n => clock - accepted[r][i][2] >= Ttl
    <2>1. n # NoNonce => \A k \in Kept(nonces[r]) : k[1] # n
      <3>1. ~ Registered(r, n)
        BY DEF Verify
      <3>2. QED
        BY <3>1, Zenon DEF Registered
    <2>2. QED
      BY <2>1, <1>5 DEF Remembered
  <1>11. CASE accepted' = accepted
    BY <1>1, <1>7, <1>9, <1>11 DEF Remembered, AcceptedOnce
  <1>12. CASE accepted' = [accepted EXCEPT ![r] = Append(accepted[r], <<n, clock>>)]
    <2>1. /\ accepted'[r] = Append(accepted[r], <<n, clock>>)
          /\ \A q \in Rings \ {r} : accepted'[q] = accepted[q]
      BY <1>12 DEF RingTypes
    <2>2. accepted[r] \in Seq(Nat \X Nat) /\ clock \in Nat
      BY DEF RingTypes
    <2>3. n = NoNonce \/ <<n, clock>> \in nonces'[r]
      BY <1>2 DEF RingTypes
    <2>4. Remembered'
      <3> SUFFICES ASSUME NEW q \in Rings, NEW i \in DOMAIN accepted'[q]
                   PROVE  \/ accepted'[q][i][1] = NoNonce
                          \/ accepted'[q][i] \in nonces'[q]
                          \/ clock - accepted'[q][i][2] >= Ttl
        BY <1>1 DEF Remembered
      <3>1. CASE q # r
        BY <3>1, <2>1, <1>9
      <3>2. CASE q = r /\ i \in DOMAIN accepted[r]
        BY <3>2, <2>1, <2>2, <1>9
      <3>3. CASE q = r /\ i \notin DOMAIN accepted[r]
        BY <3>3, <2>1, <2>2, <2>3
      <3>4. QED
        BY <3>1, <3>2, <3>3
    <2>5. AcceptedOnce'
      <3> SUFFICES ASSUME NEW q \in Rings, NEW i \in DOMAIN accepted'[q], NEW j \in DOMAIN accepted'[q],
                          i < j, accepted'[q][i][1] # NoNonce,
                          accepted'[q][i][1] = accepted'[q][j][1]
                   PROVE  accepted'[q][j][2] - accepted'[q][i][2] >= Ttl
        BY DEF AcceptedOnce
      <3>1. CASE q # r
        BY <3>1, <2>1 DEF AcceptedOnce
      <3>2. CASE q = r /\ j \in DOMAIN accepted[r]
        <4>1. i \in DOMAIN accepted[r] /\ accepted'[r][i] = accepted[r][i] /\ accepted'[r][j] = accepted[r][j]
          BY <3>2, <2>1, <2>2
        <4>2. QED
          BY <4>1, <3>2 DEF AcceptedOnce
      <3>3. CASE q = r /\ j \notin DOMAIN accepted[r]
        <4>1. i \in DOMAIN accepted[r] /\ accepted'[r][i] = accepted[r][i] /\ accepted'[r][j] = <<n, clock>>
          <5>1. /\ <<n, clock>> \in Nat \X Nat
                /\ i \in DOMAIN Append(accepted[r], <<n, clock>>)
                /\ j \in DOMAIN Append(accepted[r], <<n, clock>>) /\ i < j
            BY <3>3, <1>1, <2>1, <2>2
          <5>2. accepted[r] \in Seq(Nat \X Nat) /\ j \notin DOMAIN accepted[r]
            BY <2>2, <3>3
          <5>3. /\ i \in DOMAIN accepted[r]
                /\ Append(accepted[r], <<n, clock>>)[i] = accepted[r][i]
                /\ Append(accepted[r], <<n, clock>>)[j] = <<n, clock>>
            BY <5>1, <5>2, BeforeTheLast
          <5>4. QED
            BY <2>1, <5>3
        <4>2. QED
          BY <4>1, <3>3, <1>10
      <3>4. QED
        BY <3>1, <3>2, <3>3
    <2>6. QED
      BY <1>7, <2>4, <2>5
  <1>13. QED
    BY <1>6, <1>11, <1>12

(* No other action touches a registry but the end of the server, which      *)
(* empties all of them together with what was accepted.                     *)
LEMMA MessageStep ==
    ASSUME MessageInv, [KeyringNext]_keyringVars
    PROVE  MessageInv'
  <1> USE KeyringAssumption
  <1>1. CASE UNCHANGED <<messages, clock>>
    BY <1>1 DEF MessageInv, RingTypes, Remembered, AcceptedOnce, messages
  <1>2. ASSUME NEW r \in Rings, Sign(r)
        PROVE  MessageInv'
    BY <1>2 DEF MessageInv, RingTypes, Remembered, AcceptedOnce, Sign
  <1>3. ASSUME NEW r \in Rings, NEW n \in NoNonce..signed, Replayed(r, n)
        PROVE  MessageInv'
    <2>1. /\ nonces' = [nonces EXCEPT ![r] = Kept(nonces[r])]
          /\ UNCHANGED <<accepted, clock, signed>>
      BY <1>3 DEF Replayed
    <2>2. Kept(nonces[r]) \subseteq nonces[r]
      BY DEF Kept
    <2>3. RingTypes'
      BY <2>1, <2>2 DEF MessageInv, RingTypes
    <2>4. \A k \in nonces[r] : k \in Kept(nonces[r]) \/ clock - k[2] >= Ttl
      BY DEF Kept, MessageInv, RingTypes
    <2>5. \A q \in Rings : \A k \in nonces[q] : k \in nonces'[q] \/ clock - k[2] >= Ttl
      BY <2>1, <2>4 DEF MessageInv, RingTypes
    <2>6. Remembered'
      BY <2>1, <2>5 DEF MessageInv, Remembered
    <2>7. QED
      BY <2>1, <2>3, <2>6 DEF MessageInv, AcceptedOnce
  <1>4. CASE Ends
    BY <1>4 DEF Ends, MessageInv, RingTypes, Remembered, AcceptedOnce
  <1>5. CASE Tick
    <2>1. clock' = clock + 1 /\ UNCHANGED messages
      BY <1>5 DEF Tick
    <2>2. RingTypes' /\ AcceptedOnce'
      BY <2>1 DEF MessageInv, RingTypes, AcceptedOnce, messages
    <2>3. \A q \in Rings : \A i \in DOMAIN accepted[q] : accepted[q][i][2] \in Nat
      BY DEF MessageInv, RingTypes
    <2>4. Remembered'
      BY <2>1, <2>3 DEF MessageInv, RingTypes, Remembered, messages
    <2>5. QED
      BY <2>2, <2>4 DEF MessageInv
  <1>6. QED
    BY <1>1, <1>2, <1>3, <1>4, <1>5, VerifyStep
       DEF KeyringNext, keyringVars, Write, WriteFails, Restart, Rename, LoadKey, MigrateKey, GenerateKey

(* However full its registry is, no ring accepts a message under a nonce     *)
(* under which it accepted one within the nonce's lifetime (NonceRegistry of *)
(* agents/swarm/crypto.py). It says nothing of a message without a nonce.    *)
THEOREM AcceptedOnceHolds == KeyringSpec => []AcceptedOnce
  <1>1. KeyringSpec => []MessageInv
    BY MessageInit, MessageStep, PTL DEF KeyringSpec
  <1>2. MessageInv => AcceptedOnce
    BY DEF MessageInv
  <1>3. QED
    BY <1>1, <1>2, PTL
-----------------------------------------------------------------------------
(* The keys. *)
LEMMA KeyInit == KeyringInit => KeyInv
  <1> SUFFICES ASSUME KeyringInit PROVE KeyInv
    OBVIOUS
  <1> USE KeyringAssumption
  <1>1. PICK old \in {Missing, 1} :
            /\ disk = [f \in Files |-> IF f \in {"private.pem", "public.pem"} THEN old ELSE Missing]
            /\ trusted = {old} \ {Missing}
    BY DEF KeyringInit
  <1>2. 1 \in Keys /\ Missing \notin Keys
    BY DEF Keys, Missing
  <1>3. /\ made = 1 /\ held = [r \in Rings |-> NoPair] /\ writes = <<>> /\ ring \in Rings
        /\ pair = NoPair
    BY DEF KeyringInit
  <1>4. KeyTypes
    BY <1>1, <1>2, <1>3 DEF KeyTypes, Contents, Files
  <1>5. /\ disk["ed25519.pub"] = Missing /\ disk["ed25519.enc"] = Missing
        /\ disk["private.pem"] = old /\ disk["public.pem"] = old
    BY <1>1 DEF Files
  <1>6. Stages /\ Matched
    <2>1. \A r \in Rings : held[r].private = held[r].public
      BY <1>3 DEF NoPair
    <2>2. QED
      BY <1>2, <1>3, <1>5, <2>1 DEF Stages, Matched, Good
  <1>7. \A k \in Known : k = old
    BY <1>1, <1>3 DEF Known
  <1>8. OneKnown
    BY <1>2, <1>5, <1>7 DEF OneKnown, Found, Good
  <1>9. QED
    BY <1>4, <1>6, <1>8 DEF KeyInv

(* Actions on messages and the clock leave the keys alone.                  *)
LEMMA SameKeys ==
    ASSUME KeyInv, UNCHANGED <<disk, made, held, writes, ring, pair, trusted, excused>>
    PROVE  KeyInv'
  <1>1. Known' = Known
    BY DEF Known
  <1>2. KeyTypes'
    BY DEF KeyInv, KeyTypes
  <1>3. Stages => Stages'
    BY <1>1 DEF Stages, Generating, Copying, Unlinking, BothPlain, Has, Good
  <1>4. Matched => Matched'
    BY DEF Matched, Good
  <1>5. OneKnown => OneKnown'
    BY <1>1 DEF OneKnown, Found, BothPlain, Has, Good
  <1>6. QED
    BY <1>2, <1>3, <1>4, <1>5 DEF KeyInv

(* A pair in memory is known. *)
LEMMA HeldIsKnown ==
    ASSUME NEW r \in Rings, held[r] # NoPair
    PROVE  held[r].private \in Known
  BY DEF Known

(* A ring signs with the private key it holds, which is known already.      *)
LEMMA SignStep ==
    ASSUME KeyInv, NEW r \in Rings, Sign(r)
    PROVE  KeyInv'
  <1>1. /\ UNCHANGED <<disk, made, held, writes, ring, pair, excused>>
        /\ trusted' = trusted \cup {held[r].private} /\ held[r] # NoPair
    BY DEF Sign, Ready
  <1>2. Known' = Known
    BY <1>1, HeldIsKnown DEF Known
  <1>3. held[r].private \in Keys
    BY <1>1 DEF KeyInv, KeyTypes, Pair
  <1>4. KeyTypes'
    BY <1>1, <1>3 DEF KeyInv, KeyTypes
  <1>5. Stages => Stages'
    BY <1>1, <1>2 DEF Stages, Generating, Copying, Unlinking, BothPlain, Has, Good
  <1>6. Matched => Matched'
    BY <1>1 DEF Matched, Good
  <1>7. OneKnown => OneKnown'
    BY <1>1, <1>2 DEF OneKnown, Found, BothPlain, Has, Good
  <1>8. QED
    BY <1>1, <1>4, <1>5, <1>6, <1>7 DEF KeyInv

(* The rings are gone; what is on disk is found by the next start. *)
LEMMA EndsStep ==
    ASSUME KeyInv, Restart \/ Rename
    PROVE  KeyInv'
  <1>1. /\ writes' = <<>> /\ held' = [r \in Rings |-> NoPair]
        /\ UNCHANGED <<made, ring, pair, trusted>>
    BY DEF Restart, Rename, Ends
  <1>2. \A r \in Rings : held'[r] = NoPair /\ held'[r].private = held'[r].public
    BY <1>1 DEF NoPair
  <1>3. Known' \subseteq Known
    BY <1>1 DEF Known
  <1>4. CASE Restart
    <2>1. UNCHANGED <<disk, excused>>
      BY <1>4 DEF Restart
    <2>2. KeyTypes'
      BY <1>1, <2>1 DEF KeyInv, KeyTypes
    <2>3. Stages'
      BY <1>1 DEF Stages
    <2>4. Matched => Matched'
      BY <1>2, <2>1 DEF Matched, Good
    <2>5. OneKnown => OneKnown'
      BY <1>3, <2>1 DEF OneKnown, Found, BothPlain, Has, Good
    <2>6. QED
      BY <2>1, <2>2, <2>3, <2>4, <2>5 DEF KeyInv
  <1>5. CASE Rename
    <2>1. disk' = [disk EXCEPT !["ed25519.enc"] = Damaged] /\ "renamed" \in excused'
      BY <1>5 DEF Rename
    <2>2. KeyTypes'
      BY <1>1, <2>1 DEF KeyInv, KeyTypes, Contents, Files
    <2>3. QED
      BY <2>1, <2>2 DEF KeyInv
  <1>6. QED
    BY <1>4, <1>5

(* What a ring takes into memory is known from then on, and nothing else is.*)
LEMMA KnownKeys ==
    ASSUME KeyTypes
    PROVE  Known \subseteq Keys
  BY DEF Known, KeyTypes, Pair

(* _load_or_generate_ed25519 finds both sealed files whole: the pair it     *)
(* takes is the one known.                                                  *)
LEMMA LoadStep ==
    ASSUME KeyInv, NEW r \in Rings, LoadKey(r)
    PROVE  KeyInv'
  <1> DEFINE loaded == [private |-> disk["ed25519.enc"], public |-> disk["ed25519.pub"]]
  <1>1. /\ writes = <<>> /\ Good("ed25519.enc") /\ Good("ed25519.pub")
        /\ held' = [held EXCEPT ![r] = loaded]
        /\ UNCHANGED <<disk, made, writes, ring, pair, trusted, excused>>
    BY DEF LoadKey, Starts
  <1>2. loaded \in Pair
    BY <1>1 DEF Good, Pair
  <1>3. KeyTypes'
    BY <1>1, <1>2 DEF KeyInv, KeyTypes
  <1>4. Stages'
    BY <1>1 DEF Stages
  <1>5. Matched => Matched'
    <2>1. \A q \in Rings : held'[q] = IF q = r THEN loaded ELSE held[q]
      BY <1>1 DEF KeyInv, KeyTypes
    <2>2. loaded.private = disk["ed25519.enc"] /\ loaded.public = disk["ed25519.pub"]
      OBVIOUS
    <2> HIDE DEF loaded
    <2>3. QED
      BY <1>1, <2>1, <2>2 DEF Matched, Good
  <1>6. Known' \subseteq Known \cup {disk["ed25519.enc"]}
    BY <1>1 DEF Known, KeyInv, KeyTypes
  <1>7. ASSUME OneKnown PROVE OneKnown'
    <2>1. disk["ed25519.enc"] \in Keys /\ 0 \notin Keys /\ disk["ed25519.pub"] \in Keys
      BY <1>1 DEF Good, Keys
    <2>2. \A k \in Known : k = disk["ed25519.enc"]
      <3>1. SUFFICES ASSUME NEW k \in Known, disk["private.pem"] = k, disk["public.pem"] = k
                     PROVE  k = disk["ed25519.enc"]
        BY <1>7 DEF OneKnown, Found
      <3>2. k \in Keys
        BY <1>7 DEF Known, KeyInv, KeyTypes, Pair
      <3>3. QED
        BY <1>1, <1>7, <3>1, <3>2, <2>1 DEF OneKnown, BothPlain, Has, Missing, KeyInv, KeyTypes
    <2>3. QED
      BY <1>1, <1>6, <1>7, <2>1, <2>2 DEF OneKnown, Found, BothPlain, Has, Good
  <1>8. QED
    BY <1>1, <1>3, <1>4, <1>5, <1>7 DEF KeyInv
(* It finds the plain files instead: they hold the only key, as they are    *)
(* unlinked after both sealed files are written.                            *)
LEMMA MigrateStep ==
    ASSUME KeyInv, NEW r \in Rings, MigrateKey(r)
    PROVE  KeyInv'
  <1> DEFINE old == [private |-> disk["private.pem"], public |-> disk["public.pem"]]
  <1>1. /\ writes = <<>> /\ Unloadable /\ BothPlain
        /\ held' = [held EXCEPT ![r] = old]
        /\ ring' = r /\ pair' = old /\ writes' = Migration(old)
        /\ UNCHANGED <<disk, made, trusted, excused>>
    BY DEF MigrateKey, Starts, Works, BothPlain
  <1>2. disk["private.pem"] = 1 /\ disk["public.pem"] = 1
    BY <1>1 DEF BothPlain, Has, KeyInv, KeyTypes
  <1>3. old \in Pair /\ old.private = 1 /\ old.public = 1
    BY <1>2, KeyringAssumption DEF Pair, Keys
  <1> HIDE DEF old
  <1>4. \A q \in Rings : held'[q] = IF q = r THEN old ELSE held[q]
    BY <1>1 DEF KeyInv, KeyTypes
  <1>5. KeyTypes'
    BY <1>1, <1>3, PlansInSteps DEF KeyInv, KeyTypes
  <1>6. writes' = Move6(pair')
    BY <1>1, <1>3, PlansInSteps
  <1>7. BothPlain'
    BY <1>1 DEF BothPlain, Has
  <1>8. Matched => Stages' /\ Matched'
    <2> SUFFICES ASSUME Matched PROVE Stages' /\ Matched'
      OBVIOUS
    <2>1. ~Good("ed25519.pub")
      BY <1>1 DEF Unloadable, Good, Matched
    <2>2. Copying'
      BY <1>1, <1>3, <1>4, <1>6, <1>7, <2>1 DEF Copying, Good
    <2>3. QED
      BY <1>1, <1>3, <1>4, <2>2 DEF Stages, Matched, Good
  <1>9. Known' \subseteq Known \cup {1}
    BY <1>1, <1>3, <1>4 DEF Known
  <1>10. OneKnown /\ Matched => OneKnown'
    <2> SUFFICES ASSUME OneKnown, Matched PROVE OneKnown'
      OBVIOUS
    <2>1. ~Good("ed25519.pub")
      BY <1>1 DEF Unloadable, Good, Matched
    <2>2. \A k \in Known : k = 1
      BY <1>2, <2>1 DEF OneKnown, Found
    <2>3. QED
      BY <1>1, <1>2, <1>9, <2>2 DEF OneKnown, Found, BothPlain, Has, Good
  <1>11. QED
    BY <1>1, <1>5, <1>8, <1>10 DEF KeyInv

(* A new pair; nothing is known by then unless a migration failed. *)
LEMMA NewStep ==
    ASSUME KeyInv, NEW r \in Rings, New(r), UNCHANGED <<disk, trusted>>,
           held' \in [Rings -> Pair \cup {NoPair}], held'[r] = NoPair,
           \A q \in Rings : held'[q] \in {held[q], NoPair},
           excused \subseteq excused',
           "renamed" \notin excused' => Matched /\ ~Good("ed25519.pub"),
           excused' = {} => ~BothPlain /\ ~Good("ed25519.pub") /\ held' = held
    PROVE  KeyInv'
  <1> DEFINE new == [private |-> made', public |-> made']
  <1>1. /\ made < MaxKeys /\ made' = made + 1
        /\ ring' = r /\ pair' = new /\ writes' = Saved(new)
    BY DEF New, Works
  <1>2. made' \in Keys
    BY <1>1, KeyringAssumption DEF KeyInv, KeyTypes, Keys
  <1>3. new \in Pair /\ new.private = new.public
    BY <1>2 DEF Pair
  <1> HIDE DEF new
  <1>4. KeyTypes'
    BY <1>1, <1>3, PlansInSteps DEF KeyInv, KeyTypes
  <1>5. writes' = Save4(pair')
    BY <1>1, <1>3, PlansInSteps
  <1>6. ASSUME excused' = {}
        PROVE  Known' = {} /\ ~BothPlain' /\ OneKnown'
    <2>1. Known' = Known
      BY <1>6 DEF Known
    <2>2. OneKnown
      BY <1>6 DEF KeyInv
    <2>3. \A k \in Known : k # Missing
      BY KnownKeys DEF Keys, Missing, KeyInv
    <2>4. ~BothPlain /\ ~Good("ed25519.pub")
      BY <1>6
    <2>5. Known = {}
      BY <2>2, <2>3, <2>4 DEF OneKnown, Found, BothPlain, Has
    <2>6. ~BothPlain'
      BY <2>4 DEF BothPlain, Has
    <2>7. QED
      BY <2>1, <2>5, <2>6 DEF OneKnown
  <1>7. ASSUME "renamed" \notin excused'
        PROVE  Stages' /\ Matched'
    <2>1. ~Good("ed25519.pub") /\ Matched
      BY <1>7
    <2>2. ~Good("ed25519.pub")'
      BY <2>1 DEF Good
    <2>3. held'[ring'] = NoPair
      BY <1>1
    <2>4. Generating'
      BY <1>5, <1>6, <2>2, <2>3 DEF Generating
    <2>5. \A q \in Rings : held'[q].private = held'[q].public
      BY <2>1 DEF Matched, NoPair
    <2>6. QED
      BY <1>1, <1>3, <2>1, <2>2, <2>4, <2>5 DEF Stages, Matched
  <1>8. QED
    BY <1>4, <1>6, <1>7 DEF KeyInv

(* It finds neither: no key was ever used, unless the machine was renamed.  *)
LEMMA GenerateStep ==
    ASSUME KeyInv, NEW r \in Rings, GenerateKey(r)
    PROVE  KeyInv'
  <1>1. /\ held[r] = NoPair /\ Unloadable /\ ~BothPlain /\ New(r) /\ held' = held
        /\ UNCHANGED <<disk, trusted, excused>>
    BY DEF GenerateKey, Starts, BothPlain
  <1>2. "renamed" \notin excused => Matched /\ ~Good("ed25519.pub")
    BY <1>1 DEF KeyInv, Matched, Unloadable, Good
  <1>3. held' \in [Rings -> Pair \cup {NoPair}]
    BY <1>1 DEF KeyInv, KeyTypes
  <1>4. "renamed" \notin {}
    OBVIOUS
  <1>5. QED
    BY <1>1, <1>2, <1>3, <1>4, NewStep

(* A failing write is raised, or, in a migration, followed by a new pair,   *)
(* which is noted in excused.                                               *)
LEMMA WriteFailsStep ==
    ASSUME KeyInv, WriteFails
    PROVE  KeyInv'
  <1>1. /\ writes # <<>> /\ Head(writes).key # Missing
        /\ held' = [held EXCEPT ![ring] = NoPair] /\ UNCHANGED <<disk, trusted>>
    BY DEF WriteFails
  <1>2. /\ held' \in [Rings -> Pair \cup {NoPair}] /\ held'[ring] = NoPair /\ ring \in Rings
        /\ \A q \in Rings : held'[q] \in {held[q], NoPair}
    BY <1>1 DEF KeyInv, KeyTypes
  <1>3. CASE held[ring] = NoPair
    <2>1. writes' = <<>> /\ UNCHANGED <<made, ring, pair, excused>>
      BY <1>3 DEF WriteFails
    <2>2. held' = held
      BY <1>1, <1>3 DEF KeyInv, KeyTypes
    <2>3. KeyTypes'
      BY <1>1, <2>1, <2>2 DEF KeyInv, KeyTypes
    <2>4. Stages'
      BY <2>1 DEF Stages
    <2>5. Matched => Matched'
      BY <1>1, <2>2 DEF Matched, Good
    <2>6. OneKnown => OneKnown'
      <3>1. Known' = Known
        BY <1>1, <2>2 DEF Known
      <3>2. QED
        BY <1>1, <3>1 DEF OneKnown, Found, BothPlain, Has, Good
    <2>7. QED
      BY <2>1, <2>3, <2>4, <2>5, <2>6 DEF KeyInv
  <1>4. CASE held[ring] # NoPair
    <2>1. New(ring) /\ excused' = excused \cup {"migration failed"}
      BY <1>4 DEF WriteFails
    <2>2. ASSUME "renamed" \notin excused'
          PROVE  Matched /\ ~Good("ed25519.pub")
      <3>1. "renamed" \notin excused
        BY <2>1, <2>2
      <3>2. Stages /\ Matched
        BY <3>1 DEF KeyInv
      <3>3. ~Unlinking
        <4>1. Head(Unlink2).key = Missing /\ Head(Unlink1).key = Missing
          BY UnlinkLeft DEF Put
        <4>2. QED
          BY <1>1, <4>1 DEF Unlinking
      <3>4. QED
        BY <1>1, <1>4, <3>2, <3>3 DEF Stages, Generating, Copying
    <2>3. QED
      BY <1>1, <1>2, <2>1, <2>2, NewStep
  <1>5. QED
    BY <1>3, <1>4
(* One write: the file, and what is left. *)
LEMMA WriteTypes ==
    ASSUME KeyTypes, Write
    PROVE  KeyTypes'
  <1>1. /\ writes # <<>> /\ writes' = Tail(writes)
        /\ disk' = [disk EXCEPT ![Head(writes).file] = Head(writes).key]
        /\ held' = held \/ held' = [held EXCEPT ![ring] = pair]
        /\ UNCHANGED <<made, ring, pair, trusted>>
    BY DEF Write
  <1>2. Head(writes) \in Steps /\ Tail(writes) \in Seq(Steps)
    BY <1>1 DEF KeyTypes
  <1>3. Head(writes).key \in Contents
    BY <1>2 DEF Steps, Contents, Missing
  <1>4. Head(writes).file \in {"private.pem", "public.pem"} => Head(writes).key = Missing
    BY <1>2 DEF Steps
  <1>5. /\ disk' \in [Files -> Contents]
        /\ \A f \in Files : disk'[f] = IF f = Head(writes).file THEN Head(writes).key ELSE disk[f]
    BY <1>1, <1>3 DEF KeyTypes
  <1>6. disk'["private.pem"] \in {Missing, 1} /\ disk'["public.pem"] \in {Missing, 1}
    BY <1>4, <1>5 DEF KeyTypes, Files
  <1>7. held' \in [Rings -> Pair \cup {NoPair}]
    BY <1>1 DEF KeyTypes
  <1>8. QED
    BY <1>1, <1>2, <1>5, <1>6, <1>7 DEF KeyTypes

(* One write of a generation.                                               *)
LEMMA WriteGenerating ==
    ASSUME KeyInv, Write, Matched, pair \in Pair, pair.private = pair.public, Generating,
           excused = {} => OneKnown
    PROVE  Stages' /\ Matched' /\ (excused = {} => OneKnown')
  <1>1. /\ writes # <<>> /\ writes' = Tail(writes)
        /\ disk' = [disk EXCEPT ![Head(writes).file] = Head(writes).key]
        /\ held' = IF Len(writes) = 1 THEN [held EXCEPT ![ring] = pair] ELSE held
        /\ UNCHANGED <<made, ring, pair, trusted, excused>>
    BY DEF Write
  <1>2. disk \in [Files -> Contents] /\ held \in [Rings -> Pair \cup {NoPair}] /\ ring \in Rings
    BY DEF KeyInv, KeyTypes
  <1>3. /\ Damaged \notin Keys /\ pair.private \in Keys /\ pair # NoPair
    BY DEF Damaged, Keys, Pair, NoPair, Missing
  <1>4. ASSUME NEW f \in Files, NEW k, Head(writes) = Put(f, k)
        PROVE  \A g \in Files : disk'[g] = IF g = f THEN k ELSE disk[g]
    BY <1>1, <1>2, <1>4 DEF Put
  <1>5. ~Good("ed25519.pub") /\ held[ring] = NoPair /\ (excused = {} => Known = {} /\ ~BothPlain)
    BY DEF Generating
  <1>6. ASSUME Len(writes) # 1, disk'["ed25519.pub"] \notin Keys,
               disk'["private.pem"] = disk["private.pem"], disk'["public.pem"] = disk["public.pem"],
               \/ writes' = Save3(pair)
               \/ writes' = Save2(pair) /\ disk'["ed25519.enc"] = pair.private
               \/ writes' = Save1(pair) /\ disk'["ed25519.enc"] = pair.private
        PROVE  Stages' /\ Matched' /\ (excused = {} => OneKnown')
    <2>1. held' = held /\ Known' = Known /\ BothPlain' = BothPlain
      BY <1>1, <1>6 DEF Known, BothPlain, Has
    <2>2. Generating'
      BY <1>1, <1>5, <1>6, <2>1 DEF Generating, Good
    <2>3. Stages' /\ Matched'
      BY <1>1, <1>6, <2>1, <2>2 DEF Stages, Matched, Good
    <2>4. QED
      BY <1>5, <2>1, <2>3 DEF OneKnown
  <1>7. CASE writes = Save4(pair)
    <2>1. Head(writes) = Put("ed25519.enc", Damaged) /\ writes' = Save3(pair) /\ Len(writes) = 4
      BY <1>1, <1>7, SaveLeft
    <2>2. QED
      BY <1>4, <1>5, <1>6, <2>1 DEF Files, Good
  <1>8. CASE writes = Save3(pair)
    <2>1. Head(writes) = Put("ed25519.enc", pair.private) /\ writes' = Save2(pair) /\ Len(writes) = 3
      BY <1>1, <1>8, SaveLeft
    <2>2. QED
      BY <1>4, <1>5, <1>6, <2>1 DEF Files, Good
  <1>9. CASE writes = Save2(pair) /\ disk["ed25519.enc"] = pair.private
    <2>1. Head(writes) = Put("ed25519.pub", Damaged) /\ writes' = Save1(pair) /\ Len(writes) = 2
      BY <1>1, <1>9, SaveLeft
    <2>2. QED
      BY <1>3, <1>4, <1>6, <1>9, <2>1 DEF Files
  <1>10. CASE writes = Save1(pair) /\ disk["ed25519.enc"] = pair.private
    <2>1. Head(writes) = Put("ed25519.pub", pair.public) /\ writes' = <<>> /\ Len(writes) = 1
      BY <1>1, <1>10, SaveLeft
    <2>2. /\ disk'["ed25519.pub"] = pair.private /\ disk'["ed25519.enc"] = pair.private
          /\ disk'["private.pem"] = disk["private.pem"] /\ disk'["public.pem"] = disk["public.pem"]
      BY <1>4, <1>10, <2>1 DEF Files
    <2>3. \A q \in Rings : held'[q] = IF q = ring THEN pair ELSE held[q]
      BY <1>1, <1>2, <2>1
    <2>4. Stages' /\ Matched'
      BY <2>1, <2>2, <2>3 DEF Stages, Matched
    <2>5. ASSUME excused = {} PROVE OneKnown'
      <3>1. \A k \in Known' : k = pair.private
        BY <1>1, <1>5, <2>3, <2>5 DEF Known
      <3>2. ~BothPlain'
        BY <1>5, <2>2, <2>5 DEF BothPlain, Has
      <3>3. QED
        BY <1>3, <2>2, <3>1, <3>2 DEF OneKnown, Found, Good
    <2>6. QED
      BY <2>4, <2>5
  <1>11. QED
    BY <1>7, <1>8, <1>9, <1>10 DEF Generating

(* One write of a migration.                                                *)
LEMMA WriteCopying ==
    ASSUME KeyInv, Write, Matched, pair \in Pair, pair.private = pair.public, Copying,
           excused = {} => OneKnown
    PROVE  Stages' /\ Matched' /\ (excused = {} => OneKnown')
  <1>1. /\ writes # <<>> /\ writes' = Tail(writes)
        /\ disk' = [disk EXCEPT ![Head(writes).file] = Head(writes).key]
        /\ held' = IF Len(writes) = 1 THEN [held EXCEPT ![ring] = pair] ELSE held
        /\ UNCHANGED <<made, ring, pair, trusted, excused>>
    BY DEF Write
  <1>2. /\ disk \in [Files -> Contents] /\ held \in [Rings -> Pair \cup {NoPair}] /\ ring \in Rings
        /\ disk["private.pem"] \in {Missing, 1} /\ disk["public.pem"] \in {Missing, 1}
    BY DEF KeyInv, KeyTypes
  <1>3. Damaged \notin Keys /\ pair.private \in Keys /\ pair # NoPair
    BY DEF Damaged, Keys, Pair, NoPair, Missing
  <1>4. ASSUME NEW f \in Files, NEW k, Head(writes) = Put(f, k)
        PROVE  \A g \in Files : disk'[g] = IF g = f THEN k ELSE disk[g]
    BY <1>1, <1>2, <1>4 DEF Put
  <1>5. /\ ~Good("ed25519.pub") /\ held[ring] = pair /\ BothPlain /\ pair.private = 1
        /\ disk["private.pem"] = 1 /\ disk["public.pem"] = 1
    BY <1>2 DEF Copying, BothPlain, Has
  <1>6. ASSUME Len(writes) # 1,
               disk'["private.pem"] = disk["private.pem"], disk'["public.pem"] = disk["public.pem"],
               \/ /\ disk'["ed25519.pub"] \notin Keys
                  /\ \/ writes' = Move5(pair) /\ disk'["ed25519.enc"] = Damaged
                     \/ writes' = Move4(pair) /\ disk'["ed25519.enc"] = pair.private
                     \/ writes' = Move3(pair) /\ disk'["ed25519.enc"] = pair.private
               \/ /\ disk'["ed25519.pub"] = pair.public /\ disk'["ed25519.enc"] = pair.private
                  /\ writes' = Unlink2
        PROVE  Stages' /\ Matched' /\ (excused = {} => OneKnown')
    <2>1. held' = held /\ Known' = Known /\ BothPlain'
      BY <1>1, <1>5, <1>6 DEF Known, BothPlain, Has
    <2>2. Copying' \/ Unlinking'
      BY <1>1, <1>5, <1>6, <2>1 DEF Copying, Unlinking, Good
    <2>3. Matched'
      BY <1>6, <2>1 DEF Matched, Good
    <2>4. Stages'
      BY <1>1, <2>2 DEF Stages
    <2>5. ASSUME excused = {} PROVE OneKnown'
      <3>1. pair.private \in Known
        BY <1>2, <1>3, <1>5, HeldIsKnown
      <3>2. \A k \in Known' : k = 1
        BY <1>5, <2>1, <2>5, <3>1 DEF OneKnown
      <3>3. Good("ed25519.enc")' => disk'["ed25519.enc"] = 1
        BY <1>3, <1>5, <1>6 DEF Good
      <3>4. QED
        BY <1>5, <1>6, <3>2, <3>3 DEF OneKnown, Found
    <2>6. QED
      BY <2>3, <2>4, <2>5
  <1>7. CASE writes = Move6(pair)
    <2>1. Head(writes) = Put("ed25519.enc", Damaged) /\ writes' = Move5(pair) /\ Len(writes) = 6
      BY <1>1, <1>7, MoveLeft
    <2>2. QED
      BY <1>4, <1>5, <1>6, <2>1 DEF Files, Good
  <1>8. CASE writes = Move5(pair)
    <2>1. Head(writes) = Put("ed25519.enc", pair.private) /\ writes' = Move4(pair) /\ Len(writes) = 5
      BY <1>1, <1>8, MoveLeft
    <2>2. QED
      BY <1>4, <1>5, <1>6, <2>1 DEF Files, Good
  <1>9. CASE writes = Move4(pair) /\ disk["ed25519.enc"] = pair.private
    <2>1. Head(writes) = Put("ed25519.pub", Damaged) /\ writes' = Move3(pair) /\ Len(writes) = 4
      BY <1>1, <1>9, MoveLeft
    <2>2. QED
      BY <1>3, <1>4, <1>6, <1>9, <2>1 DEF Files
  <1>10. CASE writes = Move3(pair) /\ disk["ed25519.enc"] = pair.private
    <2>1. Head(writes) = Put("ed25519.pub", pair.public) /\ writes' = Unlink2 /\ Len(writes) = 3
      BY <1>1, <1>10, MoveLeft
    <2>2. QED
      BY <1>4, <1>6, <1>10, <2>1 DEF Files
  <1>11. QED
    BY <1>7, <1>8, <1>9, <1>10 DEF Copying

(* One unlink at the end of a migration.                                    *)
LEMMA WriteUnlinking ==
    ASSUME KeyInv, Write, Matched, pair \in Pair, pair.private = pair.public, Unlinking,
           excused = {} => OneKnown
    PROVE  Stages' /\ Matched' /\ (excused = {} => OneKnown')
  <1>1. /\ writes # <<>> /\ writes' = Tail(writes)
        /\ disk' = [disk EXCEPT ![Head(writes).file] = Head(writes).key]
        /\ held' = held \/ held' = [held EXCEPT ![ring] = pair]
        /\ UNCHANGED <<made, ring, pair, trusted, excused>>
    BY DEF Write
  <1>2. disk \in [Files -> Contents] /\ held \in [Rings -> Pair \cup {NoPair}] /\ ring \in Rings
    BY DEF KeyInv, KeyTypes
  <1>3. pair.private \in Keys /\ pair # NoPair /\ Missing \notin Keys
    BY DEF Keys, Pair, NoPair, Missing
  <1>4. /\ held[ring] = pair
        /\ disk["ed25519.enc"] = pair.private /\ disk["ed25519.pub"] = pair.public
    BY DEF Unlinking
  <1>5. held' = held /\ Known' = Known
    BY <1>1, <1>2, <1>4 DEF Known
  <1>6. \/ /\ writes' = Unlink1 /\ Head(writes) = Put("private.pem", Missing)
        \/ /\ writes' = <<>> /\ Head(writes) = Put("public.pem", Missing)
    BY <1>1, UnlinkLeft DEF Unlinking
  <1>7. /\ disk'["ed25519.enc"] = pair.private /\ disk'["ed25519.pub"] = pair.public
        /\ disk'["private.pem"] = Missing \/ disk'["public.pem"] = Missing
    BY <1>1, <1>2, <1>4, <1>6 DEF Put, Files
  <1>8. Stages'
    BY <1>1, <1>4, <1>5, <1>6, <1>7 DEF Stages, Unlinking
  <1>9. Matched'
    BY <1>5, <1>7 DEF Matched
  <1>10. ASSUME excused = {} PROVE OneKnown'
    <2>1. pair.private \in Known
      BY <1>2, <1>3, <1>4, HeldIsKnown
    <2>2. \A k \in Known' : k = pair.private
      BY <1>5, <1>10, <2>1 DEF OneKnown
    <2>3. ~BothPlain'
      BY <1>7 DEF BothPlain, Has
    <2>4. QED
      BY <1>3, <1>7, <2>2, <2>3 DEF OneKnown, Found, Good
  <1>11. QED
    BY <1>8, <1>9, <1>10

(* Any write of _ensure_key.                                                *)
LEMMA WriteStep ==
    ASSUME KeyInv, Write
    PROVE  KeyInv'
  <1>1. KeyTypes' /\ UNCHANGED excused
    BY WriteTypes DEF KeyInv, Write
  <1>2. CASE "renamed" \in excused
    BY <1>1, <1>2 DEF KeyInv
  <1>3. CASE "renamed" \notin excused
    <2>1. Stages /\ Matched /\ (excused = {} => OneKnown) /\ writes # <<>>
      BY <1>3 DEF KeyInv, Write
    <2>2. Stages' /\ Matched' /\ (excused = {} => OneKnown')
      BY <2>1, WriteGenerating, WriteCopying, WriteUnlinking DEF Stages
    <2>3. QED
      BY <1>1, <2>2 DEF KeyInv
  <1>4. QED
    BY <1>2, <1>3

(* Every step keeps the keys.                                               *)
LEMMA KeyStep ==
    ASSUME KeyInv, [KeyringNext]_keyringVars
    PROVE  KeyInv'
  <1>1. CASE UNCHANGED <<disk, made, held, writes, ring, pair, trusted, excused>>
    BY <1>1, SameKeys
  <1>2. QED
    BY <1>1, WriteStep, WriteFailsStep, EndsStep, LoadStep, MigrateStep, GenerateStep, SignStep
       DEF KeyringNext, keyringVars, Tick, Verify, Replayed

(* Through deaths of the server at any write, an agent signs with one key   *)
(* for ever, and the halves a ring holds belong together, unless the machine*)
(* is renamed or a migration cannot write (agents/swarm/crypto.py).         *)
THEOREM OneKeyPairHolds == KeyringSpec => []OneKeyPair
  <1>1. KeyringSpec => []KeyInv
    BY KeyInit, KeyStep, PTL DEF KeyringSpec
  <1>2. KeyInv => OneKeyPair
    <2> SUFFICES ASSUME KeyInv PROVE OneKeyPair
      OBVIOUS
    <2>1. ASSUME excused = {} PROVE Cardinality(trusted) <= 1
      <3>1. \A k, l \in trusted : k = l
        BY <2>1 DEF KeyInv, OneKnown, Known
      <3>2. CASE trusted = {}
        BY <3>2, FS_EmptySet
      <3>3. ASSUME NEW k \in trusted PROVE Cardinality(trusted) <= 1
        <4>1. trusted = {k}
          BY <3>1, <3>3
        <4>2. QED
          BY <4>1, FS_Singleton
      <3>4. QED
        BY <3>2, <3>3
    <2>2. QED
      BY <2>1 DEF OneKeyPair, KeyInv, Matched
  <1>3. QED
    BY <1>1, <1>2, PTL
=============================================================================
