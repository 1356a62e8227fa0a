---------------------------- MODULE MemoryVault ----------------------------
(***************************************************************************)
(* The memory vault: ClosedclawMemory of core/memory.py behind the routes    *)
(* of routes/memory.py.  A memory is kept three times: a row of the table   *)
(* memory_metadata, with its level and its sealed text; mem0's own copy,     *)
(* when mem0 is installed; and _mock_memories, the dictionary that is filled *)
(* from the rows at start and serves when it is not.  Nothing ties the three *)
(* together but the order of the calls.                                     *)
(*                                                                         *)
(* Adding runs in worker threads (routes/memory.py, ClawdBot) and on the     *)
(* event loop (write-back, add-on capture); updating and deleting run on     *)
(* the loop.  A step is one SQLite transaction, one call of mem0 or one      *)
(* access to the dictionary; any may be the last before a crash.            *)
(*                                                                         *)
(* A text is a value, with the level its signs give it; its sealed form is   *)
(* the text, readable while its key is there.  mem0 is external: it makes    *)
(* none, one or several memories of a text, in words of its own, each new or *)
(* merged with one it has, or it fails.  One user, and no memory that        *)
(* expires.                                                                *)
(*                                                                         *)
(* Bounds: Ids, MaxFaults failing calls, MaxRestarts.                       *)
(***************************************************************************)
EXTENDS Naturals

CONSTANTS
    Loop, Workers,      \* the event loop, and the threads that add
    Ids, Texts,
    Signs,              \* the level the signs in each text give it, or NoLevel
    DefaultLevel,       \* default_sensitivity, for a text without signs
    ConsentLevel,       \* require_consent_level
    UserLevels,         \* levels a caller may ask for
    None, NoLevel,      \* no memory, text, job or key; no level
    Erased,             \* the text "[DELETED]"
    MaxFaults, MaxRestarts

Threads == Workers \cup {Loop}

(* content and sealed, with its key, are columns; mine says that the user    *)
(* set the level by hand.                                                   *)
Row == [content : Texts \cup {None, Erased}, sealed : Texts \cup {None}, key : BOOLEAN,
        level : 0..3, mine : BOOLEAN]

ASSUME VaultAssumption ==
    /\ Loop \notin Workers
    /\ None \notin Texts \cup Row /\ Erased \notin Texts /\ None # Erased
    /\ DefaultLevel \in 0..3 /\ ConsentLevel \in 0..4
    /\ UserLevels \subseteq 0..3 /\ NoLevel \notin 0..3
    /\ Signs \in [Texts -> 0..3 \cup {NoLevel}]
    /\ MaxFaults \in Nat /\ MaxRestarts \in Nat

VARIABLES
    rows,       \* memory_metadata
    mem0,       \* mem0's copies
    mock,       \* _mock_memories
    up,         \* whether mem0 is there since the last start
    pc, job,    \* where each thread is in its handler, and what it works on
    used,       \* ids given out so far
    deleted,    \* memories whose deletion was answered, and that were not stored anew
    faults,     \* calls that failed, and starts at which mem0 came or went
    restarts

vars == <<rows, mem0, mock, up, pc, job, used, deleted, faults, restarts>>

Stages == {"idle", "persist", "reseal", "drop", "forget", "forgetAll"}

(* older says that mem0 kept, from the memory it merged a new text with, what *)
(* the signs of the new text do not cover; no code reads it.                *)
Copy == [text : Texts, level : 0..3, older : BOOLEAN]

(* more holds the results of mem0 whose rows are still to be written; seals   *)
(* says that the new text was encrypted, once for all of them.              *)
Job == [id : Ids, more : SUBSET Ids, text : Texts \cup {None},
        level : 0..3 \cup {NoLevel}, seals : BOOLEAN, mine : BOOLEAN]

(* The text _load_mock_from_store reads from a row. *)
Readable(r) == IF r.sealed # None /\ r.key THEN r.sealed ELSE r.content

-----------------------------------------------------------------------------
Fails == faults < MaxFaults /\ faults' = faults + 1
Works == UNCHANGED faults

Done(t) == pc' = [pc EXCEPT ![t] = "idle"] /\ job' = [job EXCEPT ![t] = None]
GoTo(t, stage, j) == pc' = [pc EXCEPT ![t] = stage] /\ job' = [job EXCEPT ![t] = j]

Init ==
    /\ rows = [i \in Ids |-> None] /\ mem0 = rows /\ mock = rows
    /\ up \in BOOLEAN
    /\ pc = [t \in Threads |-> "idle"] /\ job = [t \in Threads |-> None]
    /\ used = {} /\ deleted = {}
    /\ faults = 0 /\ restarts = 0

(* A bug: the level asked for replaces the signs in the text. *)
AddLevelAsked(text, asked) ==
    IF asked # NoLevel THEN asked
    ELSE IF Signs[text] # NoLevel THEN Signs[text] ELSE DefaultLevel

(* SensitivityClassifier.classify: the highest of the level asked for and    *)
(* the signs, or the default.                                               *)
AddLevel(text, asked) ==
    LET found == {asked, Signs[text]} \ {NoLevel}
    IN  IF found = {} THEN DefaultLevel
        ELSE CHOOSE l \in found : \A m \in found : m <= l

Gated(text, asked, consent) == AddLevel(text, asked) >= ConsentLevel /\ ~consent

(* What mem0 may make of a text: its words are others, its signs no more.    *)
Reworded(text) ==
    {t \in Texts : \/ Signs[t] = NoLevel
                   \/ Signs[text] # NoLevel /\ Signs[t] <= Signs[text]}

(* mem0's add, with its results: new memories and merged ones.               *)
Mem0Adds(text, level, results) ==
    /\ \A i \in results : i \notin used \/ mem0[i] # None
    /\ \E kept \in [results -> Texts] :
        /\ \A i \in results :
              \/ kept[i] \in Reworded(text)
              \/ mem0[i] # None /\ kept[i] \in Reworded(mem0[i].text)
        /\ mem0' = [i \in Ids |->
              IF i \in results
              THEN [text |-> kept[i], level |-> level, older |-> kept[i] \notin Reworded(text)]
              ELSE mem0[i]]

(* add, up to its copies; behind the consent gate nothing is stored.  The    *)
(* dictionary gives one new id.                                             *)
Add(t, text, asked, consent) ==
    LET level == AddLevel(text, asked)
    IN  /\ pc[t] = "idle" /\ ~Gated(text, asked, consent)
        /\ \E results \in SUBSET Ids, i \in Ids, encrypts \in BOOLEAN :
            /\ i \in results
            /\ IF encrypts THEN Works ELSE Fails
            /\ \/ up /\ Mem0Adds(text, level, results) /\ UNCHANGED mock
               \/ /\ ~up /\ results = {i} /\ i \notin used
                  /\ mock' = [mock EXCEPT ![i] = text] /\ UNCHANGED mem0
            /\ used' = used \cup results /\ deleted' = deleted \ results
            /\ GoTo(t, "persist", [id |-> i, more |-> results \ {i}, text |-> text,
                                   level |-> level, seals |-> encrypts, mine |-> FALSE])
        /\ UNCHANGED <<rows, up, restarts>>

(* A call of mem0 fails before it has any effect, and is raised. *)
CopyFails == up /\ Fails /\ UNCHANGED <<rows, mem0, mock, up, pc, job, used, deleted, restarts>>

(* The row of a new memory, sealed or, when encryption failed, in the clear. *)
NewRow(j) ==
    [content |-> IF j.seals THEN None ELSE j.text,
     sealed  |-> IF j.seals THEN j.text ELSE None,
     key     |-> j.seals, level |-> j.level, mine |-> FALSE]

(* The next of mem0's results, if there is one.                             *)
Onward(t) ==
    IF job[t].more = {} THEN Done(t)
    ELSE \E i \in job[t].more :
             GoTo(t, "persist", [id |-> i, more |-> job[t].more \ {i}, text |-> job[t].text,
                                 level |-> job[t].level, seals |-> job[t].seals,
                                 mine |-> FALSE])

(* add, its INSERT OR REPLACE for one result, whose row seals the text that  *)
(* was given: a failing one is raised, and the copies stay.                 *)
Persist(t) ==
    /\ pc[t] = "persist"
    /\ \/ Works /\ rows' = [rows EXCEPT ![job[t].id] = NewRow(job[t])] /\ Onward(t)
       \/ Fails /\ UNCHANGED rows /\ Done(t)
    /\ UNCHANGED <<mem0, mock, up, used, deleted, restarts>>

Found(i) == IF up THEN mem0[i] # None ELSE mock[i] # None
Text(i) == IF up THEN mem0[i].text ELSE mock[i]

(* search with sensitivity_max: a memory without a row counts with the level *)
(* mem0 was given, or with 0 where the dictionary serves.                   *)
SearchLevel(i) ==
    IF rows[i] # None THEN rows[i].level ELSE IF up THEN mem0[i].level ELSE 0

Searched(cap) == {i \in Ids : Found(i) /\ SearchLevel(i) <= cap}

(* get_all counts it with 0 in either case. *)
Listed(cap) == {i \in Ids : Found(i) /\ (rows[i] # None => rows[i].level <= cap)}

Renewed(copy, text) == [text |-> text, level |-> copy.level, older |-> FALSE]

(* update_memory, for a memory that get finds: the copy gets the new text    *)
(* and keeps the level it was added with.                                   *)
Update(i, text, asked) ==
    /\ pc[Loop] = "idle" /\ Found(i)
    /\ text # None \/ asked # NoLevel
    /\ IF text = None THEN UNCHANGED <<mem0, mock>>
       ELSE IF up THEN mem0' = [mem0 EXCEPT ![i] = Renewed(@, text)] /\ UNCHANGED mock
       ELSE mock' = [mock EXCEPT ![i] = text] /\ UNCHANGED mem0
    /\ GoTo(Loop, "reseal", [id |-> i, more |-> {}, text |-> text, seals |-> FALSE,
           mine |-> asked # NoLevel,
           level |-> IF asked # NoLevel THEN asked ELSE AddLevel(text, NoLevel)])
    /\ UNCHANGED <<rows, up, used, deleted, faults, restarts>>

(* A bug: a change of text leaves the sealed text alone. *)
AmendedUnsealed(r, j, encrypts) ==
    [r EXCEPT !.level = j.level, !.mine = j.mine,
              !.content = IF j.text # None THEN j.text ELSE r.content]

(* update's UPDATE: the plaintext is written in any case, and the sealed     *)
(* text beside it when encryption works.                                    *)
Amended(r, j, encrypts) ==
    LET seals == j.text # None /\ encrypts
    IN  [content |-> IF j.text # None THEN j.text ELSE r.content,
         sealed  |-> IF seals THEN j.text ELSE r.sealed,
         key     |-> r.key \/ seals, level |-> j.level, mine |-> j.mine]

(* No row, no change. *)
Reseal ==
    LET j == job[Loop]
        With(encrypts) == [rows EXCEPT ![j.id] =
                              IF @ = None THEN None ELSE Amended(@, j, encrypts)]
    IN  /\ pc[Loop] = "reseal"
        /\ \/ Works /\ rows' = With(TRUE)
           \/ j.text # None /\ Fails /\ rows' = With(FALSE)
           \/ Fails /\ UNCHANGED rows
        /\ Done(Loop)
        /\ UNCHANGED <<mem0, mock, up, used, deleted, restarts>>

(* delete, for any id: the key of a sealed row is overwritten, *)
Wiped(r) ==
    IF r # None /\ r.sealed # None /\ r.key
    THEN [r EXCEPT !.key = FALSE, !.content = Erased] ELSE r

Delete(i) ==
    /\ pc[Loop] = "idle"
    /\ \/ /\ Works
          /\ rows' = [rows EXCEPT ![i] = Wiped(@)]
          /\ GoTo(Loop, "drop", [id |-> i, more |-> {}, text |-> None, level |-> NoLevel,
                              seals |-> FALSE, mine |-> FALSE])
       \/ Fails /\ UNCHANGED <<rows, pc, job>>
    /\ UNCHANGED <<mem0, mock, up, used, deleted, restarts>>

(* then the row goes, *)
DropRow ==
    /\ pc[Loop] = "drop"
    /\ \/ /\ Works /\ rows' = [rows EXCEPT ![job[Loop].id] = None]
          /\ GoTo(Loop, "forget", job[Loop])
       \/ Fails /\ UNCHANGED rows /\ Done(Loop)
    /\ UNCHANGED <<mem0, mock, up, used, deleted, restarts>>

(* A bug: mem0's copy goes only when the dictionary has the memory too.      *)
ForgetInMockOnly ==
    LET i == job[Loop].id
    IN  /\ pc[Loop] = "forget" /\ Works
        /\ mem0' = IF mock[i] # None THEN [mem0 EXCEPT ![i] = None] ELSE mem0
        /\ mock' = [mock EXCEPT ![i] = None]
        /\ deleted' = deleted \cup ({i} \cap used)
        /\ Done(Loop)
        /\ UNCHANGED <<rows, up, used, restarts>>

(* and then the copies.  That mem0 fails is only logged: the answer is that  *)
(* the memory is deleted.                                                   *)
Forget ==
    LET i == job[Loop].id
    IN  /\ pc[Loop] = "forget"
        /\ \/ Works /\ mem0' = IF up THEN [mem0 EXCEPT ![i] = None] ELSE mem0
           \/ up /\ Fails /\ UNCHANGED mem0
        /\ mock' = [mock EXCEPT ![i] = None]
        /\ deleted' = deleted \cup ({i} \cap used)
        /\ Done(Loop)
        /\ UNCHANGED <<rows, up, used, restarts>>

(* delete_all: the rows, without overwriting their keys, *)
DropAllRows ==
    /\ pc[Loop] = "idle"
    /\ \/ /\ Works /\ rows' = [i \in Ids |-> None]
          /\ pc' = [pc EXCEPT ![Loop] = "forgetAll"] /\ UNCHANGED job
       \/ Fails /\ UNCHANGED <<rows, pc, job>>
    /\ UNCHANGED <<mem0, mock, up, used, deleted, restarts>>

(* and the copies; here mem0's failure is raised, and the dictionary kept.   *)
ForgetAll ==
    /\ pc[Loop] = "forgetAll"
    /\ \/ /\ Works
          /\ mem0' = IF up THEN [i \in Ids |-> None] ELSE mem0
          /\ mock' = [i \in Ids |-> None]
          /\ deleted' = used
       \/ up /\ Fails /\ UNCHANGED <<mem0, mock, deleted>>
    /\ Done(Loop)
    /\ UNCHANGED <<rows, up, used, restarts>>

(* A crash or a stop at any step, and the start after it: __init__ fills the *)
(* dictionary from the rows and starts mem0, which may fail to, or be there  *)
(* again.                                                                   *)
Restart ==
    /\ restarts < MaxRestarts /\ restarts' = restarts + 1
    /\ mock' = [i \in Ids |-> IF rows[i] = None THEN None ELSE Readable(rows[i])]
    /\ \/ Works /\ UNCHANGED up
       \/ Fails /\ up' = ~up
    /\ pc' = [t \in Threads |-> "idle"] /\ job' = [t \in Threads |-> None]
    /\ UNCHANGED <<rows, mem0, used, deleted>>

Next ==
    \/ \E t \in Threads, text \in Texts, asked \in UserLevels \cup {NoLevel}, consent \in BOOLEAN :
           Add(t, text, asked, consent)
    \/ \E t \in Threads : Persist(t)
    \/ \E i \in Ids, text \in Texts \cup {None}, asked \in UserLevels \cup {NoLevel} :
           Update(i, text, asked)
    \/ \E i \in Ids : Delete(i)
    \/ Reseal \/ DropRow \/ Forget
    \/ DropAllRows \/ ForgetAll
    \/ CopyFails
    \/ Restart

Spec == Init /\ [][Next]_vars

-----------------------------------------------------------------------------
(* Every variable has its type, and a row always has a text to read. *)
TypeOK ==
    /\ rows \in [Ids -> Row \cup {None}]
    /\ \A i \in Ids : rows[i] # None => Readable(rows[i]) # None
    /\ mem0 \in [Ids -> Copy \cup {None}]
    /\ mock \in [Ids -> Texts \cup {None, Erased}]
    /\ up \in BOOLEAN
    /\ pc \in [Threads -> Stages] /\ job \in [Threads -> Job \cup {None}]
    /\ deleted \subseteq used /\ used \subseteq Ids
    /\ faults \in 0..MaxFaults /\ restarts \in 0..MaxRestarts

Quiet == \A t \in Threads : pc[t] = "idle"

(* core/memory.py:624, routes/memory.py:310, plan.md:234: once its deletion  *)
(* was answered, no row, no key and no copy of a memory is left, and none    *)
(* comes back; only mem0's may be, when a call or a start of it failed.      *)
DeletedForGood ==
    \A i \in deleted : /\ rows[i] = None /\ mock[i] = None
                       /\ mem0[i] = None \/ faults > 0

(* No search and no listing under a cap gives out a text whose signs exceed  *)
(* the cap, unless the user set its level: the text is in one store and its  *)
(* level in another (core/memory.py:360, 425, 528, 551).  A memory in which   *)
(* mem0 kept older words is left out: its row is classified by the new text   *)
(* alone (core/memory.py:303).                                              *)
LevelFitsText ==
    (Quiet /\ faults = 0 /\ (up => restarts = 0)) =>
        \A cap \in 0..3 : \A i \in Searched(cap) \cup Listed(cap) :
            \/ rows[i] # None /\ rows[i].mine
            \/ up /\ mem0[i].older
            \/ Text(i) = Erased \/ Signs[Text(i)] = NoLevel
            \/ Signs[Text(i)] <= cap

(* What the dictionary serves is what it will serve after a restart: the     *)
(* sealed texts keep up with it.                                            *)
RestartKeepsText ==
    (Quiet /\ faults = 0 /\ ~up) =>
        \A i \in Ids : mock[i] = IF rows[i] = None THEN None ELSE Readable(rows[i])
=============================================================================
