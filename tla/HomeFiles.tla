----------------------------- MODULE HomeFiles -----------------------------
(***************************************************************************)
(* The files of ~/.closedclaw a server keeps its rules, its settings, its  *)
(* token and its constitution in, and what the process holds of them:      *)
(*                                                                         *)
(*   default.json, custom.json   routes/policies.py, core/policies.py      *)
(*   config.json, token          core/config.py, routes/config_routes.py   *)
(*   constitution.json           agents/swarm/constitution.py              *)
(*   _policy_engine, lru_cache   deps.py, core/config.py                   *)
(*   two coordinators            routes/swarm.py, agents/swarm/__init__.py *)
(*                                                                         *)
(* Every file is written in place: it is emptied first, and what is read   *)
(* then, or what a crash or a full disk leaves, is no JSON.  The handlers  *)
(* that write run on the event loop one at a time; the requests that need  *)
(* the rules or the settings load them in threads, because the two         *)
(* dependencies are plain functions, and store what they loaded.           *)
(*                                                                         *)
(* The command line is used while the server is stopped.                   *)
(***************************************************************************)
EXTENDS Integers, FiniteSets

CONSTANTS
    Absent, Torn,   \* what a file may be instead of whole
    None,           \* nothing loaded
    Ids,            \* ids of custom rules
    Versions,       \* the forms a rule is given
    Levels,         \* consent levels Settings accepts
    BadLevels,      \* and the ones PUT accepts beyond them
    DefaultLevel,   \* of a Settings without a file
    Amendments,     \* the policy agent may propose
    Threads,        \* threads of the pool
    MaxChanges,     \* bound on changes asked for
    MaxFaults,      \* bound on writes that fail
    MaxCrashes      \* bound on crashes

Shipped == [id |-> None, form |-> None]   \* those of DEFAULT_POLICIES, as one

\* The contents of custom.json: the rules by their ids.
NoRules == [i \in Ids |-> None]

\* The coordinator of the swarm's own routes, and that of the chats.
Coordinators == {"tasks", "chat"}

\* ConstitutionSchema: what became of each amendment, and whose principle is
\* in force beside the user's own.
DefaultLaw == [status |-> [a \in Amendments |-> "none"], force |-> {}]
Laws == [status : [Amendments -> {"none", "pending", "approved", "rejected"}],
         force : SUBSET Amendments]

\* What marks a file that is not whole, or nothing loaded, is no content.
ASSUME HomeAssumption ==
    /\ Absent # Torn
    /\ {Absent, Torn} \cap Nat = {}
    /\ {Absent, Torn, None} \cap (Levels \cup BadLevels \cup {DefaultLevel}) = {}
    /\ {Absent, Torn, None} \cap Laws = {}

VARIABLES
    defaults, custom, config, token, constitution,  \* the files
    server,     \* "down", the part of init_closedclaw it is in, or "up"
    loop,       \* what the event loop is in: "idle" or a step of a handler
    content,    \* what that handler is writing
    engine,     \* _policy_engine: its rules, or None
    cache,      \* the Settings in the lru_cache: its level, or None
    loading,    \* what a thread has loaded and not yet stored
    stale,      \* who was overtaken: "engine", "settings"
    shown,      \* the tokens shown to the user
    wanted,     \* the level the handler was asked to set
    asked,      \* the level last asked for in a change that was saved
    law,        \* the constitution each coordinator holds, or None
    answered,   \* the one the last answered change made, or the defaults
    lawLost,    \* whether a save of it was cut off or failed since
    changes, faults, crashes

files == <<defaults, custom, config, token>>
laws == <<constitution, law, answered, lawLost>>
counters == <<changes, faults, crashes>>
put == <<wanted, asked>>
vars == <<files, laws, server, loop, content, engine, cache, loading, stale,
          shown, put, counters>>

Nothing == [what |-> "nothing", value |-> None, late |-> FALSE]

Init ==
    /\ defaults = Absent /\ custom = Absent /\ config = Absent /\ token = Absent
    /\ constitution = Absent /\ law = [c \in Coordinators |-> None]
    /\ answered = DefaultLaw /\ lawLost = FALSE
    /\ server = "down" /\ loop = "idle" /\ content = None
    /\ engine = None /\ cache = None
    /\ loading = [t \in Threads |-> Nothing]
    /\ stale = {}
    /\ shown = {}
    /\ wanted = None /\ asked = DefaultLevel
    /\ changes = 0 /\ faults = 0 /\ crashes = 0

-----------------------------------------------------------------------------
(* What reading the files gives *)

Readable == defaults # Torn /\ custom # Torn

CustomRules(c) ==
    {[id |-> i, form |-> c[i]] : i \in {j \in Ids : c[j] # None}}

\* load_policies: the rules of all files, the shipped ones if there are none.
Loaded ==
    LET own == IF custom = Absent THEN {} ELSE CustomRules(custom)
        all == own \cup (IF defaults = "whole" THEN {Shipped} ELSE {})
    IN  IF all = {} THEN {Shipped} ELSE all

\* _load_custom_policy_set: a file that cannot be read counts as empty.
CustomSet == IF custom \in {Absent, Torn} THEN NoRules ELSE custom

Loadable == config # Torn /\ config \notin BadLevels
LoadedLevel == IF config = Absent THEN DefaultLevel ELSE config

-----------------------------------------------------------------------------
(* init_closedclaw, at the start of the server *)

\* get_settings; a start with settings that do not load fails.
Start ==
    /\ server = "down" /\ Loadable
    /\ cache' = LoadedLevel
    /\ server' = IF defaults = Absent THEN "default.json" ELSE "token"
    /\ defaults' = IF defaults = Absent THEN Torn ELSE defaults
    /\ UNCHANGED <<custom, config, token, loop, content, engine, loading, stale,
                   shown, counters, put, laws>>

WriteDefaults ==
    /\ server = "default.json"
    /\ defaults' = "whole"
    /\ server' = "token"
    /\ UNCHANGED <<custom, config, token, loop, content, engine, cache, loading,
                   stale, shown, counters, put, laws>>

(* A bug: every start makes a token. *)
TokenForgotten == FALSE

TokenThere == token # Absent

\* get_or_create_token; a token is told from another by the number of tokens
\* made before it.
MakeToken ==
    /\ server = "token" /\ ~TokenThere
    /\ token' = Torn
    /\ server' = "new token"
    /\ UNCHANGED <<defaults, custom, config, loop, content, engine, cache,
                   loading, stale, shown, counters, put, laws>>

WriteToken ==
    /\ server = "new token"
    /\ token' = Cardinality(shown) + 1
    /\ shown' = shown \cup {token'}
    /\ server' = "constitution"
    /\ UNCHANGED <<defaults, custom, config, loop, content, engine, cache,
                   loading, stale, counters, put, laws>>

\* A token file that is there is never written again.
KeepToken ==
    /\ server = "token" /\ TokenThere
    /\ server' = "constitution"
    /\ shown' = IF token = Torn THEN shown ELSE shown \cup {token}
    /\ UNCHANGED <<files, loop, content, engine, cache, loading, stale,
                   counters, put, laws>>

\* Constitution(path) saves its defaults, and is dropped again.
MakeConstitution ==
    /\ server = "constitution" /\ constitution = Absent
    /\ constitution' = Torn
    /\ server' = "new constitution"
    /\ UNCHANGED <<files, loop, content, engine, cache, loading, stale, shown,
                   law, answered, lawLost, counters, put>>

WriteConstitution ==
    /\ server = "new constitution"
    /\ constitution' = DefaultLaw
    /\ server' = "up"
    /\ UNCHANGED <<files, loop, content, engine, cache, loading, stale, shown,
                   law, answered, lawLost, counters, put>>

KeepConstitution ==
    /\ server = "constitution" /\ constitution # Absent
    /\ server' = "up"
    /\ UNCHANGED <<files, loop, content, engine, cache, loading, stale, shown,
                   laws, counters, put>>

-----------------------------------------------------------------------------
(* The policy routes *)

MayChange == server = "up" /\ loop = "idle" /\ changes < MaxChanges

\* open(custom_path, "w") empties the file.
SaveRules(rules) ==
    /\ MayChange
    /\ changes' = changes + 1
    /\ content' = rules
    /\ custom' = Torn
    /\ loop' = "saving rules"
    /\ UNCHANGED <<defaults, config, token, server, engine, cache, loading,
                   stale, shown, faults, crashes, put, laws>>

CreatePolicy(i, v) == SaveRules([CustomSet EXCEPT ![i] = v])

UpdatePolicy(i, v) == CustomSet[i] # None /\ SaveRules([CustomSet EXCEPT ![i] = v])

DeletePolicy(i) == CustomSet[i] # None /\ SaveRules([CustomSet EXCEPT ![i] = None])

RulesSaved ==
    /\ loop = "saving rules"
    /\ custom' = content
    /\ content' = None
    /\ loop' = "reload"
    /\ UNCHANGED <<defaults, config, token, server, engine, cache, loading,
                   stale, shown, counters, put, laws>>

\* A thread that has loaded but not stored its rules will store old ones.
NowLate(what) ==
    [t \in Threads |->
        IF loading[t].what = what THEN [loading[t] EXCEPT !.late = TRUE]
        ELSE loading[t]]

(* A bug: an engine in use is kept until the next start. *)
ReloadedOnce == IF engine = None THEN Loaded ELSE engine

Reloaded == Loaded

\* reload_policy_engine, also at the head of POST /v1/policies/test.
Reload ==
    /\ Readable
    /\ engine' = Reloaded
    /\ loading' = NowLate("engine")
    /\ stale' = stale \ {"engine"}

RulesInForce ==
    /\ loop = "reload"
    /\ Reload
    /\ loop' = "idle"
    /\ UNCHANGED <<files, server, content, cache, shown, counters, put, laws>>

TestPolicy ==
    /\ server = "up" /\ loop = "idle"
    /\ Reload
    /\ UNCHANGED <<files, server, loop, content, cache, shown, counters, put, laws>>

\* load_policies raises: the request fails, the engine stays what it was.
ReloadFails ==
    /\ loop = "reload" /\ ~Readable
    /\ loop' = "idle"
    /\ UNCHANGED <<files, server, content, engine, cache, loading, stale, shown,
                   counters, put, laws>>

-----------------------------------------------------------------------------
(* PUT /v1/config *)

Current == IF cache = None THEN LoadedLevel ELSE cache

(* A bug: a level Settings would refuse is passed over without a word. *)
SetIfValid(level) == IF level \in Levels THEN level ELSE Current

\* setattr on the object in the cache; nothing checks the value.
SetAttr(level) == level

PutConfig(level) ==
    /\ MayChange
    /\ cache # None \/ Loadable
    /\ changes' = changes + 1
    /\ cache' = SetAttr(level)
    /\ content' = SetAttr(level)
    /\ wanted' = level
    /\ config' = Torn
    /\ loop' = "saving settings"
    /\ UNCHANGED <<defaults, custom, token, server, engine, loading, stale,
                   shown, asked, faults, crashes, laws>>

ConfigSaved ==
    /\ loop = "saving settings"
    /\ config' = content
    /\ content' = None
    /\ wanted' = None /\ asked' = wanted
    /\ loop' = "clear"
    /\ UNCHANGED <<defaults, custom, token, server, engine, cache, loading,
                   stale, shown, counters, laws>>

\* clear_settings_cache
ClearCache ==
    /\ loop = "clear"
    /\ cache' = None
    /\ loading' = NowLate("settings")
    /\ stale' = stale \ {"settings"}
    /\ loop' = "idle"
    /\ UNCHANGED <<files, server, content, engine, shown, counters, put, laws>>

\* The disk is full: the file stays empty, the request fails, and what was
\* set in the cached object, or in the coordinator's, stays set.
SaveFails ==
    /\ loop \in {"saving rules", "saving settings", "saving law", "new law"}
    /\ faults < MaxFaults
    /\ faults' = faults + 1
    /\ content' = None /\ wanted' = None
    /\ lawLost' = (lawLost \/ constitution = Torn)
    /\ loop' = "idle"
    /\ UNCHANGED <<files, server, engine, cache, loading, stale, shown, asked,
                   changes, crashes, constitution, law, answered>>

-----------------------------------------------------------------------------
(* The constitution.  Each coordinator loads the file when it is first needed
   and keeps what it loaded; only that of the swarm's routes changes it. *)

others == <<files, server, engine, cache, loading, stale, shown, faults, crashes, put>>

LoadLaw(c) ==
    /\ server = "up" /\ loop = "idle" /\ law[c] = None
    /\ constitution \notin {Absent, Torn}
    /\ law' = [law EXCEPT ![c] = constitution]
    /\ UNCHANGED <<others, loop, content, changes, constitution, answered, lawLost>>

\* A file that cannot be read is written over with the defaults.
LoadTornLaw(c) ==
    /\ server = "up" /\ loop = "idle" /\ law[c] = None
    /\ constitution = Torn
    /\ loop' = "new law" /\ content' = c
    /\ UNCHANGED <<others, changes, laws>>

NewLawSaved ==
    /\ loop = "new law"
    /\ constitution' = DefaultLaw
    /\ law' = [law EXCEPT ![content] = DefaultLaw]
    /\ answered' = IF law["tasks"] = None THEN DefaultLaw ELSE answered
    /\ lawLost' = (law["tasks"] # None)
    /\ loop' = "idle" /\ content' = None
    /\ UNCHANGED <<others, changes>>

(* A bug: what is changed is not saved. *)
ChangeUnsaved(schema) ==
    /\ MayChange
    /\ changes' = changes + 1
    /\ law' = [law EXCEPT !["tasks"] = schema]
    /\ answered' = schema
    /\ UNCHANGED <<others, loop, content, constitution, lawLost>>

\* The schema in memory is changed first and saved whole.
ChangeLaw(schema) ==
    /\ MayChange
    /\ changes' = changes + 1
    /\ law' = [law EXCEPT !["tasks"] = schema]
    /\ constitution' = Torn
    /\ content' = schema
    /\ loop' = "saving law"
    /\ UNCHANGED <<others, answered, lawLost>>

Tasks == law["tasks"]
StatusIs(a, status) == Tasks # None /\ Tasks.status[a] = status

ProposeAmendment(a) ==
    /\ StatusIs(a, "none")
    /\ ChangeLaw([Tasks EXCEPT !.status[a] = "pending"])

ApproveAmendment(a) ==
    /\ StatusIs(a, "pending")
    /\ ChangeLaw([Tasks EXCEPT !.status[a] = "approved", !.force = @ \cup {a}])

RejectAmendment(a) ==
    /\ StatusIs(a, "pending")
    /\ ChangeLaw([Tasks EXCEPT !.status[a] = "rejected"])

\* PUT: the user's list of principles replaces all there are.
PutConstitution == Tasks # None /\ ChangeLaw([Tasks EXCEPT !.force = {}])

LawSaved ==
    /\ loop = "saving law"
    /\ constitution' = content /\ answered' = content
    /\ lawLost' = FALSE
    /\ loop' = "idle" /\ content' = None
    /\ UNCHANGED <<others, changes, law>>

-----------------------------------------------------------------------------
(* The dependencies of a request, in a thread *)

Loads(t, what, value) ==
    /\ server = "up" /\ loading[t] = Nothing
    /\ loading' = [loading EXCEPT
                     ![t] = [what |-> what, value |-> value, late |-> FALSE]]
    /\ UNCHANGED <<files, server, loop, content, engine, cache, stale, shown,
                   counters, put, laws>>

\* get_policy_engine: the file is read only if there is no engine.
LoadEngine(t) == engine = None /\ Readable /\ Loads(t, "engine", Loaded)

LoadSettings(t) == cache = None /\ Loadable /\ Loads(t, "settings", LoadedLevel)

StoreEngine(t) ==
    /\ loading[t].what = "engine"
    /\ engine' = loading[t].value
    /\ stale' = IF loading[t].late THEN stale \cup {"engine"}
                ELSE stale
    /\ loading' = [loading EXCEPT ![t] = Nothing]
    /\ UNCHANGED <<files, server, loop, content, cache, shown, counters, put, laws>>

\* lru_cache: what another stored in the meantime stays.
StoreSettings(t) ==
    /\ loading[t].what = "settings"
    /\ cache' = IF cache = None THEN loading[t].value ELSE cache
    /\ stale' = IF cache = None /\ loading[t].late THEN stale \cup {"settings"}
                ELSE stale
    /\ loading' = [loading EXCEPT ![t] = Nothing]
    /\ UNCHANGED <<files, server, loop, content, engine, shown, counters, put, laws>>

-----------------------------------------------------------------------------
(* The process ends, and what is done while it is down *)

Crash ==
    /\ server # "down" /\ crashes < MaxCrashes
    /\ crashes' = crashes + 1
    /\ server' = "down" /\ loop' = "idle" /\ content' = None /\ wanted' = None
    /\ engine' = None /\ cache' = None
    /\ loading' = [t \in Threads |-> Nothing]
    /\ stale' = {}
    /\ law' = [c \in Coordinators |-> None]
    /\ lawLost' = (lawLost \/ constitution = Torn)
    /\ UNCHANGED <<files, shown, asked, changes, faults, constitution, answered>>

\* closedclaw config set
ConfigSet(level) ==
    /\ server = "down" /\ Loadable /\ changes < MaxChanges
    /\ changes' = changes + 1
    /\ config' = level
    /\ asked' = level
    /\ UNCHANGED <<defaults, custom, token, server, loop, content, engine,
                   cache, loading, stale, shown, wanted, faults, crashes, laws>>

-----------------------------------------------------------------------------
Next ==
    \/ Start \/ WriteDefaults \/ MakeToken \/ WriteToken \/ KeepToken
    \/ MakeConstitution \/ WriteConstitution \/ KeepConstitution
    \/ \E i \in Ids, v \in Versions : CreatePolicy(i, v) \/ UpdatePolicy(i, v)
    \/ \E i \in Ids : DeletePolicy(i)
    \/ RulesSaved \/ RulesInForce \/ ReloadFails \/ TestPolicy
    \/ \E l \in Levels \cup BadLevels : PutConfig(l) \/ ConfigSet(l)
    \/ ConfigSaved \/ ClearCache \/ SaveFails
    \/ \E c \in Coordinators : LoadLaw(c) \/ LoadTornLaw(c)
    \/ \E a \in Amendments :
           ProposeAmendment(a) \/ ApproveAmendment(a) \/ RejectAmendment(a)
    \/ PutConstitution \/ LawSaved \/ NewLawSaved
    \/ \E t \in Threads :
           LoadEngine(t) \/ LoadSettings(t) \/ StoreEngine(t) \/ StoreSettings(t)
    \/ Crash

Spec == Init /\ [][Next]_vars

-----------------------------------------------------------------------------
(* Between two changes the rules in force are the rules on disk, through
   crashes and failed requests, unless a first request that was still loading
   stored its rules over those of a change, or the file was left unreadable
   (routes/policies.py:157, deps.py:251). *)
RulesFollowFile ==
    engine # None /\ loop = "idle" /\ "engine" \notin stale /\ Readable =>
        engine = Loaded

(* Between two changes the consent level in force is the one last asked for
   and saved, in range or not, through crashes and failed requests, unless a
   request that was loading the settings overtook the change, or the file was
   left unreadable (config_routes.py:81, config.py:399). *)
LevelAskedFor ==
    cache # None /\ loop = "idle" /\ "settings" \notin stale /\ config # Torn =>
        cache = asked

(* A user is only ever shown one token, over all restarts and crashes, and
   while it can be read the file holds that one (config.py:318). *)
OneToken ==
    /\ Cardinality(shown) <= 1
    /\ token \notin {Absent, Torn} => token \in shown

(* The constitution the swarm's routes show is the one the user's last
   answered decision made, through restarts, failed requests and what the
   other coordinator does to the file, until a save was cut off or failed
   (agents/swarm/constitution.py:85, 209, routes/swarm.py:94). *)
DecisionsKept ==
    law["tasks"] # None /\ loop = "idle" /\ ~lawLost => law["tasks"] = answered
=============================================================================
