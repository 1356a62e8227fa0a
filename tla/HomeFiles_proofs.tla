--------------------------- MODULE HomeFiles_proofs ---------------------------
(***************************************************************************)
(* What holds of the files of ~/.closedclaw for any rules, levels,         *)
(* amendments and threads, and any number of changes, failing writes and   *)
(* crashes.                                                                *)
(*                                                                         *)
(* Each property has an invariant of its own, about one file and the       *)
(* copies the process has of it. None of the four properties is inductive: *)
(* what a thread has read but not stored must be what the file holds,      *)
(* unless it was overtaken (RulesInv, SettingsInv); what a handler is      *)
(* writing must be what it was asked for (SettingsInv, LawInv); and all of *)
(* it rests on when a server holds anything at all (Quiet). A token is     *)
(* shown only once it is in the file, which is never written then          *)
(* (TokenInv).                                                             *)
(***************************************************************************)
EXTENDS HomeFiles, FiniteSetTheorems, TLAPS

Whole(f) == f \notin {Absent, Torn}

(* A token is shown once it is in the file, and the file never written then. *)
TokenInv ==
    /\ Whole(token) => shown = {token}
    /\ ~Whole(token) => shown = {}
    /\ server = "new token" => ~Whole(token)

(* Outside a running server nothing is held of the files or being loaded; *)
Quiet ==
    /\ server # "up" => loop = "idle" /\ engine = None
                        /\ \A t \in Threads : loading[t] = Nothing
    /\ server = "down" => cache = None

IsLoading(l) == l = [what |-> l.what, value |-> l.value, late |-> l.late]

LoadingTypes ==
    /\ DOMAIN loading = Threads
    /\ \A t \in Threads : IsLoading(loading[t])

RulesInv ==
    /\ loop = "saving rules" => ~Readable
    /\ Readable /\ loop # "reload" =>
         /\ engine # None /\ "engine" \notin stale => engine = Loaded
         /\ \A t \in Threads : loading[t].what = "engine" /\ ~loading[t].late =>
                loading[t].value = Loaded

SettingsInv ==
    /\ loop = "saving settings" => config = Torn /\ content = wanted
                                   /\ wanted \in Levels \cup BadLevels
    /\ config # Torn => LoadedLevel = asked
    /\ loop # "clear" =>
         /\ config # Torn /\ cache # None /\ "settings" \notin stale => cache = asked
         /\ \A t \in Threads : loading[t].what = "settings" /\ ~loading[t].late =>
                loading[t].value = asked

LawTypes ==
    /\ law \in [Coordinators -> Laws \cup {None}]
    /\ constitution \in Laws \cup {Absent, Torn}
    /\ loop = "saving law" => content \in Laws

LawInv ==
    /\ LawTypes
    /\ constitution = Absent => answered = DefaultLaw
    /\ server = "new constitution" => answered = DefaultLaw
    /\ loop = "saving law" => content = law["tasks"] /\ constitution = Torn
    /\ ~lawLost =>
         /\ law["tasks"] # None /\ loop # "saving law" => law["tasks"] = answered
         /\ constitution \in Laws => constitution = answered

-----------------------------------------------------------------------------
USE DEF files, laws, counters, put, others

(* The token. *)
LEMMA TokenInit == Init => TokenInv
  BY DEF Init, TokenInv, Whole

(* A token once in the file stays there; none is shown before it is.        *)
LEMMA TokenStep ==
    ASSUME TokenInv, [Next]_vars
    PROVE  TokenInv'
  <1>1. CASE UNCHANGED <<token, shown>> /\ server' # "new token"
    BY <1>1 DEF TokenInv, Whole
  <1>2. CASE UNCHANGED <<token, shown, server>>
    BY <1>2 DEF TokenInv, Whole
  <1>3. CASE MakeToken
    BY <1>3 DEF MakeToken, TokenThere, TokenInv, Whole
  <1>4. CASE WriteToken
    <2>1. shown = {}
      BY <1>4 DEF WriteToken, TokenInv
    <2>2. Cardinality(shown) = 0
      BY <2>1, FS_EmptySet
    <2>3. token' = 1 /\ shown' = {1} /\ server' # "new token"
      <3>1. token' = Cardinality(shown) + 1 /\ shown' = shown \cup {token'}
        BY <1>4 DEF WriteToken
      <3>2. server' = "constitution"
        BY <1>4 DEF WriteToken
      <3>3. token' = 1
        BY <2>2, <3>1
      <3>4. QED
        BY <2>1, <3>1, <3>2, <3>3
    <2>4. Whole(1)
      BY HomeAssumption DEF Whole
    <2>5. QED
      BY <2>3, <2>4 DEF TokenInv, Whole
  <1>5. CASE KeepToken
    BY <1>5 DEF KeepToken, TokenThere, TokenInv, Whole
  <1>6. QED
    BY <1>1, <1>2, <1>3, <1>4, <1>5
       DEF Next, vars, Start, WriteDefaults, MakeToken, WriteToken, KeepToken,
           MakeConstitution, WriteConstitution, KeepConstitution,
           CreatePolicy, UpdatePolicy, DeletePolicy, SaveRules, RulesSaved, RulesInForce,
           ReloadFails, TestPolicy, PutConfig, ConfigSet, ConfigSaved, ClearCache, SaveFails,
           LoadLaw, LoadTornLaw, NewLawSaved, ProposeAmendment, ApproveAmendment,
           RejectAmendment, PutConstitution, ChangeLaw, LawSaved,
           LoadEngine, LoadSettings, Loads, StoreEngine, StoreSettings, Crash

(* A user is only ever shown one token, over all restarts and crashes, and *)
THEOREM OneTokenHolds == Spec => []OneToken
  <1>1. Spec => []TokenInv
    BY TokenInit, TokenStep, PTL DEF Spec
  <1>2. TokenInv => OneToken
    <2> SUFFICES ASSUME TokenInv PROVE OneToken
      OBVIOUS
    <2>1. CASE shown = {}
      <3>1. Cardinality(shown) = 0
        BY <2>1, FS_EmptySet
      <3>2. ~Whole(token)
        BY <2>1 DEF TokenInv
      <3>3. QED
        BY <3>1, <3>2 DEF OneToken, Whole
    <2>2. CASE shown = {token}
      <3>1. Cardinality(shown) = 1
        BY <2>2, FS_Singleton
      <3>2. QED
        BY <2>2, <3>1 DEF OneToken
    <2>3. QED
      BY <2>1, <2>2 DEF TokenInv
  <1>3. QED
    BY <1>1, <1>2, PTL

-----------------------------------------------------------------------------
(* The threads. *)
LEMMA LateIsLoading ==
    ASSUME LoadingTypes, NEW what, loading' = NowLate(what)
    PROVE  /\ LoadingTypes'
           /\ \A t \in Threads :
               /\ loading'[t].what = loading[t].what
               /\ loading'[t].value = loading[t].value
               /\ loading[t].what # what => loading'[t] = loading[t]
               /\ loading[t].what = what => loading'[t].late
  <1>1. DOMAIN loading' = Threads
    BY DEF NowLate
  <1>2. ASSUME NEW t \in Threads
        PROVE  /\ IsLoading(loading'[t])
               /\ loading'[t].what = loading[t].what
               /\ loading'[t].value = loading[t].value
               /\ loading[t].what # what => loading'[t] = loading[t]
               /\ loading[t].what = what => loading'[t].late
    <2>1. loading[t] = [what |-> loading[t].what, value |-> loading[t].value, late |-> loading[t].late]
      BY DEF LoadingTypes, IsLoading
    <2>2. CASE loading[t].what # what
      <3>1. loading'[t] = loading[t]
        BY <2>2 DEF NowLate
      <3>2. QED
        BY <2>1, <2>2, <3>1 DEF IsLoading
    <2>3. CASE loading[t].what = what
      <3>1. loading'[t] = [loading[t] EXCEPT !.late = TRUE]
        BY <2>3 DEF NowLate
      <3>2. loading'[t] = [what |-> loading[t].what, value |-> loading[t].value, late |-> TRUE]
        BY <2>1, <3>1
      <3>3. QED
        BY <2>3, <3>2 DEF IsLoading
    <2>4. QED
      BY <2>2, <2>3
  <1>3. QED
    BY <1>1, <1>2 DEF LoadingTypes

(* No thread loads at the start.                                            *)
LEMMA ThreadsInit == Init => Quiet /\ LoadingTypes
  <1> SUFFICES ASSUME Init PROVE Quiet /\ LoadingTypes
    OBVIOUS
  <1>1. /\ loading = [t \in Threads |-> Nothing] /\ server = "down" /\ loop = "idle"
        /\ engine = None /\ cache = None
    BY DEF Init
  <1>2. IsLoading(Nothing)
    BY DEF IsLoading, Nothing
  <1>3. QED
    BY <1>1, <1>2 DEF Quiet, LoadingTypes

(* A thread holds what it has read of the policies only while it loads.     *)
LEMMA ThreadsStep ==
    ASSUME Quiet, LoadingTypes, [Next]_vars
    PROVE  Quiet' /\ LoadingTypes'
  <1>1. LoadingTypes'
    <2>1. CASE UNCHANGED loading
      BY <2>1 DEF LoadingTypes
    <2>2. ASSUME NEW what, loading' = NowLate(what)
          PROVE  LoadingTypes'
      BY <2>2, LateIsLoading
    <2>3. ASSUME NEW t \in Threads, NEW what, NEW value, Loads(t, what, value)
          PROVE  LoadingTypes'
      BY <2>3 DEF Loads, LoadingTypes, IsLoading
    <2>4. ASSUME NEW t \in Threads, loading' = [loading EXCEPT ![t] = Nothing]
          PROVE  LoadingTypes'
      BY <2>4 DEF LoadingTypes, IsLoading, Nothing
    <2>5. CASE Crash
      <3>1. IsLoading(Nothing)
        BY DEF IsLoading, Nothing
      <3>2. QED
        BY <2>5, <3>1 DEF Crash, LoadingTypes
    <2>6. QED
      BY <2>1, <2>2, <2>3, <2>4, <2>5
       DEF Next, vars, Start, WriteDefaults, MakeToken, WriteToken, KeepToken,
           MakeConstitution, WriteConstitution, KeepConstitution,
           CreatePolicy, UpdatePolicy, DeletePolicy, SaveRules, RulesSaved, RulesInForce,
           ReloadFails, TestPolicy, PutConfig, ConfigSet, ConfigSaved, ClearCache, SaveFails,
           LoadLaw, LoadTornLaw, NewLawSaved, ProposeAmendment, ApproveAmendment,
           RejectAmendment, PutConstitution, ChangeLaw, LawSaved,
           LoadEngine, LoadSettings, Loads, StoreEngine, StoreSettings, Crash, Reload
  <1>2. Quiet'
    <2>1. CASE server = "up" /\ server' = "up"
      BY <2>1 DEF Quiet
    <2>2. CASE server # "up" /\ UNCHANGED <<loop, engine, loading>> /\ server' # "down"
      BY <2>2 DEF Quiet
    <2>3. CASE UNCHANGED <<server, loop, engine, loading, cache>>
      BY <2>3 DEF Quiet
    <2>4. CASE Crash
      BY <2>4 DEF Crash, Quiet
    <2>5. server # "up" => loop = "idle" /\ \A t \in Threads : loading[t].what = "nothing"
      BY DEF Quiet, Nothing
    <2>6. CASE server = "up"
      <3>1. server' = "up" \/ Crash
        BY <2>6
         DEF Next, vars, Start, WriteDefaults, MakeToken, WriteToken, KeepToken,
           MakeConstitution, WriteConstitution, KeepConstitution,
           CreatePolicy, UpdatePolicy, DeletePolicy, SaveRules, RulesSaved, RulesInForce,
           ReloadFails, TestPolicy, PutConfig, ConfigSet, ConfigSaved, ClearCache, SaveFails,
           LoadLaw, LoadTornLaw, NewLawSaved, ProposeAmendment, ApproveAmendment,
           RejectAmendment, PutConstitution, ChangeLaw, LawSaved,
           LoadEngine, LoadSettings, Loads, StoreEngine, StoreSettings, Crash
      <3>2. QED
        BY <2>1, <2>4, <2>6, <3>1
    <2>7. CASE server # "up"
      <3>1. \/ UNCHANGED <<loop, engine, loading>> /\ server' # "down"
            \/ UNCHANGED <<server, loop, engine, loading, cache>>
            \/ Crash
        <4>1. ASSUME NEW t \in Threads
              PROVE  ~LoadEngine(t) /\ ~LoadSettings(t) /\ ~StoreEngine(t) /\ ~StoreSettings(t)
          BY <2>5, <2>7 DEF LoadEngine, LoadSettings, Loads, StoreEngine, StoreSettings
        <4>2. /\ ~RulesSaved /\ ~RulesInForce /\ ~ReloadFails /\ ~TestPolicy /\ ~ConfigSaved
              /\ ~ClearCache /\ ~SaveFails /\ ~LawSaved /\ ~NewLawSaved
          BY <2>5, <2>7 DEF RulesSaved, RulesInForce, ReloadFails, TestPolicy, ConfigSaved,
             ClearCache, SaveFails, LawSaved, NewLawSaved
        <4>3. ASSUME NEW c \in Coordinators
              PROVE  ~LoadLaw(c) /\ ~LoadTornLaw(c)
          BY <2>7 DEF LoadLaw, LoadTornLaw
        <4>4. ~MayChange
          BY <2>7 DEF MayChange
        <4>5. /\ \A i \in Ids, v \in Versions : ~CreatePolicy(i, v) /\ ~UpdatePolicy(i, v)
              /\ \A i \in Ids : ~DeletePolicy(i)
              /\ \A a \in Amendments : ~ProposeAmendment(a) /\ ~ApproveAmendment(a) /\ ~RejectAmendment(a)
              /\ ~PutConstitution /\ \A l : ~PutConfig(l)
          BY <4>4 DEF CreatePolicy, UpdatePolicy, DeletePolicy, SaveRules, PutConfig, ProposeAmendment,
             ApproveAmendment, RejectAmendment, PutConstitution, ChangeLaw
        <4>6. QED
          BY <2>7, <4>1, <4>2, <4>3, <4>5
             DEF Next, vars, Start, WriteDefaults, MakeToken, WriteToken, KeepToken,
                 MakeConstitution, WriteConstitution, KeepConstitution, ConfigSet
      <3>2. QED
        BY <2>2, <2>3, <2>4, <2>7, <3>1
    <2>8. QED
      BY <2>6, <2>7
  <1>3. QED
    BY <1>1, <1>2
-----------------------------------------------------------------------------
(* The rules. *)
LEMMA SameRules == UNCHANGED <<defaults, custom>> => Loaded' = Loaded /\ (Readable' <=> Readable)
  BY DEF Loaded, Readable

(* What the first start loads is what the file has.                         *)
LEMMA RulesInit == Init => RulesInv
  BY DEF Init, RulesInv, Nothing

(* reload installs what the same call has read from the file.               *)
LEMMA ReloadStep ==
    ASSUME LoadingTypes, RulesInv, Reload, UNCHANGED <<defaults, custom>>, loop' = "idle"
    PROVE  RulesInv'
  <1>1. engine' = Loaded /\ loading' = NowLate("engine")
    BY DEF Reload, Reloaded
  <1>2. \A t \in Threads : loading'[t].what = "engine" => loading'[t].late
    BY <1>1, LateIsLoading
  <1>3. QED
    BY <1>1, <1>2, SameRules DEF RulesInv

(* Every step keeps the rules in force the ones last saved.                 *)
LEMMA RulesStep ==
    ASSUME Quiet, LoadingTypes, RulesInv, [Next]_vars
    PROVE  RulesInv'
  <1>1. CASE /\ UNCHANGED <<defaults, custom, engine, loading, stale>>
             /\ loop # "reload" \/ ~Readable \/ loop' = loop
             /\ loop' # "saving rules" \/ loop' = loop
    <2>1. Loaded' = Loaded /\ (Readable' <=> Readable)
      BY <1>1, SameRules
    <2>2. QED
      BY <1>1, <2>1 DEF RulesInv
  <1>2. CASE Start \/ WriteDefaults
    <2>1. engine' = None /\ loop' = "idle" /\ \A t \in Threads : loading'[t].what = "nothing"
      BY <1>2 DEF Start, WriteDefaults, Quiet, Nothing
    <2>2. QED
      BY <2>1 DEF RulesInv
  <1>3. ASSUME NEW rules, SaveRules(rules) PROVE RulesInv'
    BY <1>3 DEF SaveRules, RulesInv, Readable
  <1>4. CASE RulesSaved
    BY <1>4 DEF RulesSaved, RulesInv
  <1>5. CASE RulesInForce \/ TestPolicy
    BY <1>5, ReloadStep DEF RulesInForce, TestPolicy
  <1>6. CASE ClearCache
    <2>1. /\ loading' = NowLate("settings") /\ stale' = stale \ {"settings"} /\ loop' = "idle"
          /\ loop = "clear" /\ UNCHANGED <<defaults, custom, engine>>
      BY <1>6 DEF ClearCache
    <2>2. \A t \in Threads : loading'[t].what = "engine" => loading'[t] = loading[t]
      BY <2>1, LateIsLoading
    <2>3. QED
      BY <2>1, <2>2, SameRules DEF RulesInv
  <1>7. ASSUME NEW t \in Threads, LoadEngine(t) \/ LoadSettings(t)
        PROVE  RulesInv'
    <2>1. PICK what, value :
             /\ loading' = [loading EXCEPT ![t] = [what |-> what, value |-> value, late |-> FALSE]]
             /\ what = "engine" => value = Loaded
             /\ UNCHANGED <<defaults, custom, loop, engine, stale>>
      BY <1>7 DEF LoadEngine, LoadSettings, Loads
    <2>2. \A q \in Threads : q # t => loading'[q] = loading[q]
      BY <2>1
    <2>3. loading'[t] = [what |-> what, value |-> value, late |-> FALSE]
      BY <2>1 DEF LoadingTypes
    <2>4. loading'[t].what = "engine" => loading'[t].value = Loaded
      BY <2>1, <2>3
    <2>5. Loaded' = Loaded /\ (Readable' <=> Readable)
      BY <2>1, SameRules
    <2>6. QED
      BY <2>1, <2>2, <2>4, <2>5 DEF RulesInv
  <1>8. ASSUME NEW t \in Threads, StoreEngine(t) \/ StoreSettings(t)
        PROVE  RulesInv'
    <2>1. loading' = [loading EXCEPT ![t] = Nothing] /\ UNCHANGED <<defaults, custom, loop>>
      BY <1>8 DEF StoreEngine, StoreSettings
    <2>2. \A q \in Threads : loading'[q] = Nothing \/ loading'[q] = loading[q]
      BY <2>1 DEF LoadingTypes
    <2>3. \A q \in Threads : loading'[q].what = "engine" => loading'[q] = loading[q]
      BY <2>2 DEF Nothing
    <2>4. CASE StoreEngine(t)
      <3>1. /\ loading[t].what = "engine" /\ engine' = loading[t].value
            /\ stale' = IF loading[t].late THEN stale \cup {"engine"} ELSE stale
        BY <2>4 DEF StoreEngine
      <3>2. Loaded' = Loaded /\ (Readable' <=> Readable)
        BY <2>1, SameRules
      <3>3. QED
        BY <2>1, <2>3, <3>1, <3>2 DEF RulesInv
    <2>5. CASE StoreSettings(t)
      <3>1. engine' = engine /\ ("engine" \notin stale' => "engine" \notin stale)
        BY <2>5 DEF StoreSettings
      <3>2. Loaded' = Loaded /\ (Readable' <=> Readable)
        BY <2>1, SameRules
      <3>3. QED
        BY <2>1, <2>3, <3>1, <3>2 DEF RulesInv
    <2>6. QED
      BY <1>8, <2>4, <2>5
  <1>9. CASE Crash
    BY <1>9 DEF Crash, RulesInv, Nothing
  <1>10. CASE ReloadFails
    BY <1>1, <1>10 DEF ReloadFails
  <1>11. QED
    BY <1>1, <1>2, <1>3, <1>4, <1>5, <1>6, <1>7, <1>8, <1>9, <1>10
       DEF Next, vars, MakeToken, WriteToken, KeepToken,
           MakeConstitution, WriteConstitution, KeepConstitution,
           CreatePolicy, UpdatePolicy, DeletePolicy,
           PutConfig, ConfigSet, ConfigSaved, SaveFails, MayChange,
           LoadLaw, LoadTornLaw, NewLawSaved, ProposeAmendment, ApproveAmendment,
           RejectAmendment, PutConstitution, ChangeLaw, LawSaved

(* At rest the rules in force are those of the policy files, through writes *)
(* that fail and crashes, unless a thread that loads them was overtaken     *)
(* (core/policies.py, deps.py).                                             *)
THEOREM RulesFollowFileHolds == Spec => []RulesFollowFile
  <1>1. Init => Quiet /\ LoadingTypes /\ RulesInv
    BY ThreadsInit, RulesInit
  <1>2. Quiet /\ LoadingTypes /\ RulesInv /\ [Next]_vars => (Quiet /\ LoadingTypes /\ RulesInv)'
    BY ThreadsStep, RulesStep
  <1>3. RulesInv => RulesFollowFile
    BY DEF RulesInv, RulesFollowFile
  <1>4. QED
    BY <1>1, <1>2, <1>3, PTL DEF Spec

-----------------------------------------------------------------------------
(* The settings. *)
LEMMA SettingsInit == Init => SettingsInv
  BY DEF Init, SettingsInv, Nothing, LoadedLevel

(* Every step keeps the level of the settings the one last asked for.       *)
LEMMA SettingsStep ==
    ASSUME Quiet, LoadingTypes, SettingsInv, [Next]_vars
    PROVE  SettingsInv'
  <1>1. CASE /\ UNCHANGED <<config, cache, loading, asked>>
             /\ "settings" \notin stale' => "settings" \notin stale
             /\ \/ UNCHANGED <<loop, content, wanted>>
                \/ loop # "clear" /\ loop' # "saving settings"
    BY <1>1 DEF SettingsInv, LoadedLevel
  <1>2. CASE Start
    <2>1. cache' = LoadedLevel /\ UNCHANGED <<config, asked, loading, loop, stale>>
      BY <1>2 DEF Start
    <2>2. loop = "idle" /\ \A t \in Threads : loading[t].what = "nothing"
      BY <1>2 DEF Start, Quiet, Nothing
    <2>3. QED
      BY <2>1, <2>2 DEF SettingsInv, LoadedLevel
  <1>3. ASSUME NEW level \in Levels \cup BadLevels, PutConfig(level)
        PROVE  SettingsInv'
    BY <1>3 DEF PutConfig, SetAttr, MayChange, SettingsInv
  <1>4. CASE ConfigSaved
    <2>1. /\ loop = "saving settings" /\ config' = content /\ asked' = wanted /\ loop' = "clear"
          /\ content = wanted /\ wanted \in Levels \cup BadLevels
      BY <1>4 DEF ConfigSaved, SettingsInv
    <2>2. config' # Absent
      BY <2>1, HomeAssumption
    <2>3. QED
      BY <2>1, <2>2 DEF SettingsInv, LoadedLevel
  <1>5. CASE ClearCache
    <2>1. /\ loading' = NowLate("settings") /\ loop' = "idle" /\ cache' = None
          /\ UNCHANGED <<config, asked>>
      BY <1>5 DEF ClearCache
    <2>2. \A t \in Threads : loading'[t].what = "settings" => loading'[t].late
      BY <2>1, LateIsLoading
    <2>3. QED
      BY <2>1, <2>2 DEF SettingsInv, LoadedLevel
  <1>6. ASSUME Reload, UNCHANGED <<config, asked, cache, content, wanted>>,
               loop' = loop \/ (loop # "clear" /\ loop' = "idle")
        PROVE  SettingsInv'
    <2>1. loading' = NowLate("engine") /\ ("settings" \notin stale' => "settings" \notin stale)
      BY <1>6 DEF Reload
    <2>2. \A t \in Threads : loading'[t].what = "settings" => loading'[t] = loading[t]
      BY <2>1, LateIsLoading
    <2>3. QED
      BY <1>6, <2>1, <2>2 DEF SettingsInv, LoadedLevel
  <1>7. ASSUME NEW t \in Threads, LoadEngine(t) \/ LoadSettings(t)
        PROVE  SettingsInv'
    <2>1. PICK what, value :
             /\ loading' = [loading EXCEPT ![t] = [what |-> what, value |-> value, late |-> FALSE]]
             /\ what = "settings" => config # Torn /\ value = LoadedLevel
             /\ UNCHANGED <<config, cache, asked, loop, content, wanted, stale>>
      BY <1>7 DEF LoadEngine, LoadSettings, Loads, Loadable
    <2>2. \A q \in Threads : q # t => loading'[q] = loading[q]
      BY <2>1
    <2>3. loading'[t] = [what |-> what, value |-> value, late |-> FALSE]
      BY <2>1 DEF LoadingTypes
    <2>4. loading'[t].what = "settings" => loading'[t].value = asked
      <3>1. what = "settings" => value = asked
        BY <2>1 DEF SettingsInv
      <3>2. QED
        BY <2>3, <3>1
    <2>5. QED
      BY <2>1, <2>2, <2>4 DEF SettingsInv, LoadedLevel
  <1>8. ASSUME NEW t \in Threads, StoreEngine(t) \/ StoreSettings(t)
        PROVE  SettingsInv'
    <2>1. loading' = [loading EXCEPT ![t] = Nothing]
          /\ UNCHANGED <<config, asked, loop, content, wanted>>
      BY <1>8 DEF StoreEngine, StoreSettings
    <2>2. \A q \in Threads : loading'[q] = Nothing \/ loading'[q] = loading[q]
      BY <2>1 DEF LoadingTypes
    <2>3. \A q \in Threads : loading'[q].what = "settings" => loading'[q] = loading[q]
      BY <2>2 DEF Nothing
    <2>4. CASE StoreSettings(t)
      <3>1. /\ loading[t].what = "settings"
            /\ cache' = IF cache = None THEN loading[t].value ELSE cache
            /\ "settings" \notin stale' =>
                   "settings" \notin stale /\ (cache = None => ~loading[t].late)
        BY <2>4 DEF StoreSettings
      <3>2. QED
        BY <2>1, <2>3, <3>1 DEF SettingsInv, LoadedLevel
    <2>5. CASE StoreEngine(t)
      <3>1. cache' = cache /\ ("settings" \notin stale' => "settings" \notin stale)
        BY <2>5 DEF StoreEngine
      <3>2. QED
        BY <2>1, <2>3, <3>1 DEF SettingsInv, LoadedLevel
    <2>6. QED
      BY <1>8, <2>4, <2>5
  <1>9. CASE Crash
    BY <1>9 DEF Crash, SettingsInv, Nothing, LoadedLevel
  <1>10. ASSUME NEW level \in Levels \cup BadLevels, ConfigSet(level)
         PROVE  SettingsInv'
    <2>1. /\ config' = level /\ asked' = level /\ level # Absent
          /\ UNCHANGED <<loop, cache, loading>>
      BY <1>10, HomeAssumption DEF ConfigSet
    <2>2. loop = "idle" /\ cache = None /\ \A t \in Threads : loading[t].what = "nothing"
      BY <1>10 DEF ConfigSet, Quiet, Nothing
    <2>3. QED
      BY <2>1, <2>2 DEF SettingsInv, LoadedLevel
  <1>11. CASE RulesInForce \/ TestPolicy
    BY <1>6, <1>11 DEF RulesInForce, TestPolicy
  <1>12. QED
    BY <1>1, <1>2, <1>3, <1>4, <1>5, <1>7, <1>8, <1>9, <1>10, <1>11
       DEF Next, vars, WriteDefaults, MakeToken, WriteToken, KeepToken,
           MakeConstitution, WriteConstitution, KeepConstitution,
           CreatePolicy, UpdatePolicy, DeletePolicy, SaveRules, RulesSaved, ReloadFails,
           SaveFails, MayChange, LoadLaw, LoadTornLaw, NewLawSaved, ProposeAmendment,
           ApproveAmendment, RejectAmendment, PutConstitution, ChangeLaw, LawSaved

(* At rest the consent level in force is the one last asked for in a change *)
(* that was saved, unless a thread that loads the settings was overtaken    *)
(* (core/config.py, routes/config_routes.py).                               *)
THEOREM LevelAskedForHolds == Spec => []LevelAskedFor
  <1>1. Init => Quiet /\ LoadingTypes /\ SettingsInv
    BY ThreadsInit, SettingsInit
  <1>2. Quiet /\ LoadingTypes /\ SettingsInv /\ [Next]_vars
            => (Quiet /\ LoadingTypes /\ SettingsInv)'
    BY ThreadsStep, SettingsStep
  <1>3. SettingsInv => LevelAskedFor
    BY DEF SettingsInv, LevelAskedFor
  <1>4. QED
    BY <1>1, <1>2, <1>3, PTL DEF Spec

-----------------------------------------------------------------------------
(* The constitution. *)
LEMMA DefaultIsLaw == DefaultLaw \in Laws
  BY DEF DefaultLaw, Laws

(* A file cut short is no constitution.                                     *)
LEMMA NoLaw == Absent \notin Laws /\ Torn \notin Laws /\ None \notin Laws
  BY HomeAssumption

(* The constitution of the first start has no decision to lose.             *)
LEMMA LawInit == Init => LawInv
  <1> SUFFICES ASSUME Init PROVE LawInv
    OBVIOUS
  <1>1. /\ law = [c \in Coordinators |-> None] /\ constitution = Absent /\ answered = DefaultLaw
        /\ lawLost = FALSE /\ server = "down" /\ loop = "idle"
    BY DEF Init
  <1>2. law["tasks"] = None
    BY <1>1 DEF Coordinators
  <1>3. QED
    BY <1>1, <1>2, NoLaw DEF LawInv, LawTypes

(* A change of the constitution in memory is saved before it is answered, or*)
(* given up.                                                                *)
LEMMA ChangeLawStep ==
    ASSUME LawInv, NEW schema \in Laws, ChangeLaw(schema)
    PROVE  LawInv'
  <1>1. /\ law' = [law EXCEPT !["tasks"] = schema] /\ constitution' = Torn /\ content' = schema
        /\ loop' = "saving law" /\ UNCHANGED <<answered, lawLost, server>>
        /\ server = "up"
    BY DEF ChangeLaw, MayChange
  <1>2. law' \in [Coordinators -> Laws \cup {None}] /\ law'["tasks"] = schema
    BY <1>1 DEF LawInv, LawTypes, Coordinators
  <1>3. QED
    BY <1>1, <1>2, NoLaw, HomeAssumption DEF LawInv, LawTypes

(* A proposal, an approval or a rejection of an amendment.                  *)
LEMMA AmendmentStep ==
    ASSUME LawInv, NEW a \in Amendments,
           ProposeAmendment(a) \/ ApproveAmendment(a) \/ RejectAmendment(a)
    PROVE  LawInv'
  <1>1. Tasks \in Laws
    BY DEF LawInv, LawTypes, ProposeAmendment, ApproveAmendment, RejectAmendment,
           StatusIs, Tasks, Coordinators
  <1>2. /\ [Tasks EXCEPT !.status[a] = "pending"] \in Laws
        /\ [Tasks EXCEPT !.status[a] = "approved", !.force = @ \cup {a}] \in Laws
        /\ [Tasks EXCEPT !.status[a] = "rejected"] \in Laws
    BY <1>1 DEF Laws
  <1>3. QED
    BY <1>2, ChangeLawStep DEF ProposeAmendment, ApproveAmendment, RejectAmendment

(* PUT of the whole constitution.                                           *)
LEMMA PutConstitutionStep ==
    ASSUME LawInv, PutConstitution
    PROVE  LawInv'
  <1>1. Tasks \in Laws
    BY DEF LawInv, LawTypes, PutConstitution, Tasks, Coordinators
  <1>2. [Tasks EXCEPT !.force = {}] \in Laws
    BY <1>1 DEF Laws
  <1>3. QED
    BY <1>2, ChangeLawStep DEF PutConstitution

(* Every step keeps the decisions.                                          *)
LEMMA LawStep ==
    ASSUME Quiet, LawInv, [Next]_vars
    PROVE  LawInv'
  <1> USE NoLaw, DefaultIsLaw, HomeAssumption
  <1>1. CASE /\ UNCHANGED <<constitution, law, answered, lawLost>>
             /\ \/ loop # "saving law" /\ loop' # "saving law"
                \/ UNCHANGED <<loop, content>>
             /\ server' = server \/ server' # "new constitution"
    <2>1. LawTypes'
      BY <1>1 DEF LawInv, LawTypes
    <2>2. QED
      BY <1>1, <2>1 DEF LawInv
  <1>2. CASE MakeConstitution
    BY <1>2 DEF MakeConstitution, LawInv, LawTypes
  <1>3. CASE WriteConstitution
    <2>1. loop = "idle"
      BY <1>3 DEF WriteConstitution, Quiet
    <2>2. QED
      BY <1>3, <2>1 DEF WriteConstitution, LawInv, LawTypes
  <1>4. CASE SaveFails
    BY <1>4 DEF SaveFails, LawInv, LawTypes
  <1>5. ASSUME NEW c \in Coordinators, LoadLaw(c) PROVE LawInv'
    <2>1. /\ law' = [law EXCEPT ![c] = constitution] /\ constitution \in Laws
          /\ UNCHANGED <<constitution, answered, lawLost, loop, content, server>>
          /\ loop = "idle"
      BY <1>5 DEF LoadLaw, LawInv, LawTypes
    <2>2. law' \in [Coordinators -> Laws \cup {None}]
      BY <2>1 DEF LawInv, LawTypes
    <2>3. law'["tasks"] \in {law["tasks"], constitution}
      BY <2>1 DEF LawInv, LawTypes, Coordinators
    <2>4. QED
      BY <2>1, <2>2, <2>3 DEF LawInv, LawTypes
  <1>6. ASSUME NEW c \in Coordinators, LoadTornLaw(c) PROVE LawInv'
    BY <1>6 DEF LoadTornLaw, LawInv, LawTypes
  <1>7. CASE NewLawSaved
    <2>1. /\ constitution' = DefaultLaw /\ law' = [law EXCEPT ![content] = DefaultLaw]
          /\ answered' = IF law["tasks"] = None THEN DefaultLaw ELSE answered
          /\ (~lawLost' => law["tasks"] = None)
          /\ loop = "new law" /\ loop' = "idle" /\ UNCHANGED server
      BY <1>7 DEF NewLawSaved
    <2>2. law' \in [Coordinators -> Laws \cup {None}]
      BY <2>1 DEF LawInv, LawTypes
    <2>3. law'["tasks"] \in {law["tasks"], DefaultLaw}
      BY <2>1 DEF LawInv, LawTypes, Coordinators
    <2>4. QED
      BY <2>1, <2>2, <2>3 DEF LawInv, LawTypes
  <1>8. CASE LawSaved
    <2>1. server # "new constitution"
      BY <1>8 DEF LawSaved, Quiet
    <2>2. QED
      BY <1>8, <2>1 DEF LawSaved, LawInv, LawTypes
  <1>9. CASE Crash
    <2>1. law' = [c \in Coordinators |-> None] /\ law'["tasks"] = None
      BY <1>9 DEF Crash, Coordinators
    <2>2. QED
      BY <1>9, <2>1 DEF Crash, LawInv, LawTypes
  <1>10. CASE Start
    BY <1>1, <1>10 DEF Start
  <1>11. QED
    BY <1>1, <1>2, <1>3, <1>4, <1>5, <1>6, <1>7, <1>8, <1>9, <1>10,
       AmendmentStep, PutConstitutionStep
       DEF Next, vars, WriteDefaults, MakeToken, WriteToken, KeepToken, KeepConstitution,
           CreatePolicy, UpdatePolicy, DeletePolicy, SaveRules, RulesSaved, RulesInForce,
           ReloadFails, TestPolicy, PutConfig, ConfigSet, ConfigSaved, ClearCache, MayChange,
           LoadEngine, LoadSettings, Loads, StoreEngine, StoreSettings

(* The constitution the routes of the swarm hold is the one the last        *)
(* answered change made, through crashes and restarts, unless a save of it  *)
(* was cut off or failed (agents/swarm/constitution.py).                    *)
THEOREM DecisionsKeptHolds == Spec => []DecisionsKept
  <1>1. Init => Quiet /\ LoadingTypes /\ LawInv
    BY ThreadsInit, LawInit
  <1>2. Quiet /\ LoadingTypes /\ LawInv /\ [Next]_vars => (Quiet /\ LoadingTypes /\ LawInv)'
    BY ThreadsStep, LawStep
  <1>3. LawInv => DecisionsKept
    BY DEF LawInv, DecisionsKept
  <1>4. QED
    BY <1>1, <1>2, <1>3, PTL DEF Spec
=============================================================================
