--------------------------- MODULE ConsentLedger ---------------------------
(***************************************************************************)
(* The consent gate's ledger: the pending requests, the signed receipts and *)
(* the remembered preferences of routes/consent.py, kept in SQLite          *)
(* (core/storage.py) and cached in module dictionaries.                     *)
(*                                                                         *)
(* The handlers contain no await, so on the event loop (thread Loop) they   *)
(* run one at a time.  ClawdBot runs its tools in an executor               *)
(* (routes/clawdbot.py:196): the threads of Workers reach the same          *)
(* dictionaries between any two steps of Loop.  A step is one SQLite        *)
(* transaction or one access to a dictionary; any SQLite write may fail,    *)
(* and the process may be killed between any two steps.                     *)
(*                                                                         *)
(* Bounds: MaxFaults failing SQLite calls, MaxRestarts crashes, and the     *)
(* finite set Requests of identifiers a behaviour may create.               *)
(***************************************************************************)
EXTENDS Naturals, Sequences, FiniteSets

CONSTANTS
    Loop,           \* the event loop thread
    Workers,        \* executor threads running ClawdBot tools
    Requests,       \* request identifiers (uuid4, never reused)
    Providers,      \* keys of the provider preferences
    Tags,           \* keys of the tag preferences
    Decisions,      \* what a user may answer: approve, approve_redacted, deny
    Unset,          \* no preference row, no tag to remember, no request yet
    ProviderOf,     \* the provider each request was raised for
    ReceiptPage,    \* load_consent_receipts' default LIMIT (100 in the code)
    MaxFaults, MaxRestarts

Threads == {Loop} \cup Workers

ASSUME LedgerAssumption ==
    /\ Loop \notin Workers
    /\ Unset \notin Requests \cup Decisions \cup Tags
    /\ ProviderOf \in [Requests -> Providers]
    /\ Providers \cap Tags = {}
    /\ ReceiptPage \in Nat \ {0}
    /\ MaxFaults \in Nat
    /\ MaxRestarts \in Nat

VARIABLES
    diskPending,    \* table consent_pending
    diskReceipts,   \* table consent_receipts, in timestamp order
    prefs,          \* table consent_preferences
    auditLog,       \* the receipts that a persisted audit entry names
    cachePending,   \* dict _pending_requests
    cacheReceipts,  \* dict _consent_receipts, as positions in diskReceipts
    loaded,         \* _loaded_from_disk
    pc,             \* where each thread stands
    arg,            \* the handler it runs, with the handler's arguments
    rows,           \* rows a loading thread has fetched and not yet cached
    created,        \* identifiers handed out so far
    faults, restarts

store  == <<diskPending, diskReceipts, prefs, auditLog>>
cache  == <<cachePending, cacheReceipts, loaded>>
bounds == <<faults, restarts>>
vars   == <<store, cache, pc, arg, rows, created, bounds>>

(* The handlers: listing or reading the ledger, create_consent_request,     *)
(* ClawdBot's request_consent tool, and respond_to_consent.                 *)
Ops == {"list", "create", "hold", "respond"}
Labels == Ops \cup {"idle", "fetch", "install", "cache",
                    "clear", "audit", "provider", "tag"}
Receipt == [req : Requests, decision : Decisions]
Work == [op : Ops, req : Requests \cup {Unset}, decision : Decisions \cup {Unset},
         forProvider : BOOLEAN, forTag : Tags \cup {Unset}]
Job(op, r) == [op |-> op, req |-> r, decision |-> Unset,
               forProvider |-> FALSE, forTag |-> Unset]

Answered(r) == \E i \in 1..Len(diskReceipts) : diskReceipts[i].req = r
LatestReceipts == {i \in 1..Len(diskReceipts) : i + ReceiptPage > Len(diskReceipts)}

Goto(t, label) == pc' = [pc EXCEPT ![t] = label]
Works    == UNCHANGED bounds
Fails    == faults < MaxFaults /\ faults' = faults + 1 /\ UNCHANGED restarts

-----------------------------------------------------------------------------
Init ==
    /\ diskPending = {} /\ diskReceipts = <<>> /\ auditLog = {}
    /\ prefs = [k \in Providers \cup Tags |-> Unset]
    /\ cachePending = {} /\ cacheReceipts = {} /\ loaded = FALSE
    /\ pc = [t \in Threads |-> "idle"]
    /\ arg = [t \in Threads |-> Job("list", Unset)]
    /\ rows = [t \in Threads |-> {}]
    /\ created = {} /\ faults = 0 /\ restarts = 0

(* Every handler calls _ensure_loaded first.  The flag is raised before the *)
(* rows are read, so only the first caller loads, and a second thread goes  *)
(* straight on with whatever the dictionaries hold by then.                 *)
Enter(t, work) ==
    /\ pc[t] = "idle"
    /\ arg' = [arg EXCEPT ![t] = work]
    /\ loaded' = TRUE
    /\ Goto(t, IF loaded THEN work.op ELSE "fetch")
    /\ UNCHANGED <<store, cachePending, cacheReceipts, rows, bounds>>

BeginList == Enter(Loop, Job("list", Unset)) /\ UNCHANGED created

BeginCreate(t, op, r) ==
    /\ r \notin created
    /\ op = "hold" => t \in Workers
    /\ created' = created \cup {r}
    /\ Enter(t, Job(op, r))

BeginRespond(r, d, forProvider, forTag) ==
    /\ r \in created
    /\ Enter(Loop, [op |-> "respond", req |-> r, decision |-> d,
                    forProvider |-> forProvider, forTag |-> forTag])
    /\ UNCHANGED created

(* The two SELECTs of _ensure_loaded; an exception abandons the load for    *)
(* good, since the flag is already up.                                      *)
Fetch(t) ==
    /\ pc[t] = "fetch"
    /\ \/ rows' = [rows EXCEPT ![t] = diskPending] /\ Goto(t, "install") /\ Works
       \/ UNCHANGED rows /\ Goto(t, arg[t].op) /\ Fails
    /\ UNCHANGED <<store, cache, arg, created>>

Install(t, r) ==
    /\ pc[t] = "install" /\ r \in rows[t]
    /\ cachePending' = cachePending \cup {r}
    /\ rows' = [rows EXCEPT ![t] = @ \ {r}]
    /\ UNCHANGED <<store, cacheReceipts, loaded, pc, arg, created, bounds>>

LoadReceipts(t) ==
    /\ pc[t] = "install" /\ rows[t] = {}
    /\ \/ cacheReceipts' = cacheReceipts \cup LatestReceipts /\ Works
       \/ UNCHANGED cacheReceipts /\ Fails
    /\ Goto(t, arg[t].op)
    /\ UNCHANGED <<store, cachePending, loaded, arg, rows, created>>

ReturnList ==
    /\ pc[Loop] = "list"
    /\ Goto(Loop, "idle")
    /\ UNCHANGED <<store, cache, arg, rows, created, bounds>>

(* A bug: a failing INSERT is logged, and the request offered all the same. *)
SavePendingLenient(t) ==
    /\ pc[t] = "create"
    /\ \/ diskPending' = diskPending \cup {arg[t].req} /\ Works
       \/ UNCHANGED diskPending /\ Fails
    /\ Goto(t, "cache")
    /\ UNCHANGED <<diskReceipts, prefs, auditLog, cache, arg, rows, created>>

(* create_consent_request: the row first, then the dictionary; a failing    *)
(* INSERT is raised to the caller.                                          *)
SavePending(t) ==
    /\ pc[t] = "create"
    /\ \/ diskPending' = diskPending \cup {arg[t].req} /\ Goto(t, "cache") /\ Works
       \/ UNCHANGED diskPending /\ Goto(t, "idle") /\ Fails
    /\ UNCHANGED <<diskReceipts, prefs, auditLog, cache, arg, rows, created>>

(* A bug: create_consent_request leaves the dictionary to the next load.    *)
CachePendingLater(t) ==
    /\ pc[t] \in {"cache", "hold"}
    /\ Goto(t, "idle")
    /\ UNCHANGED <<store, cache, arg, rows, created, bounds>>

(* The end of create_consent_request, and the whole of ClawdBot's           *)
(* request_consent, which writes the dictionary and never the table.        *)
CachePending(t) ==
    /\ pc[t] \in {"cache", "hold"}
    /\ cachePending' = cachePending \cup {arg[t].req}
    /\ Goto(t, "idle")
    /\ UNCHANGED <<store, cacheReceipts, loaded, arg, rows, created, bounds>>

(* respond_to_consent, step by step.                                        *)
RespondNotFound ==
    /\ pc[Loop] = "respond" /\ arg[Loop].req \notin cachePending
    /\ Goto(Loop, "idle")
    /\ UNCHANGED <<store, cache, arg, rows, created, bounds>>

(* Bugs: a failing INSERT of the receipt is logged and the handler goes on; *)
(* the receipt is put in the dictionary, its row left for later.            *)
SaveReceiptLenient ==
    /\ pc[Loop] = "respond" /\ arg[Loop].req \in cachePending
    /\ \/ /\ diskReceipts' = Append(diskReceipts, [req |-> arg[Loop].req,
                                                   decision |-> arg[Loop].decision])
          /\ cacheReceipts' = cacheReceipts \cup {Len(diskReceipts) + 1}
          /\ Works
       \/ UNCHANGED <<diskReceipts, cacheReceipts>> /\ Fails
    /\ Goto(Loop, "clear")
    /\ UNCHANGED <<diskPending, prefs, auditLog, cachePending, loaded, arg, rows, created>>

SaveReceiptCacheOnly ==
    /\ pc[Loop] = "respond" /\ arg[Loop].req \in cachePending
    /\ cacheReceipts' = cacheReceipts \cup {Len(diskReceipts) + 1}
    /\ Works /\ Goto(Loop, "clear")
    /\ UNCHANGED <<store, cachePending, loaded, arg, rows, created>>

SaveReceipt ==
    /\ pc[Loop] = "respond" /\ arg[Loop].req \in cachePending
    /\ \/ /\ diskReceipts' = Append(diskReceipts, [req |-> arg[Loop].req,
                                                   decision |-> arg[Loop].decision])
          /\ cacheReceipts' = cacheReceipts \cup {Len(diskReceipts) + 1}
          /\ Goto(Loop, "clear") /\ Works
       \/ UNCHANGED <<diskReceipts, cacheReceipts>> /\ Goto(Loop, "idle") /\ Fails
    /\ UNCHANGED <<diskPending, prefs, auditLog, cachePending, loaded, arg, rows, created>>

(* A bug: only the row is removed. *)
ClearPendingRowOnly ==
    /\ pc[Loop] = "clear"
    /\ diskPending' = diskPending \ {arg[Loop].req}
    /\ Works /\ Goto(Loop, "audit")
    /\ UNCHANGED <<diskReceipts, prefs, auditLog, cache, arg, rows, created>>

(* A failing DELETE is logged and the dictionary entry removed all the same. *)
ClearPending ==
    /\ pc[Loop] = "clear"
    /\ \/ diskPending' = diskPending \ {arg[Loop].req} /\ Works
       \/ UNCHANGED diskPending /\ Fails
    /\ cachePending' = cachePending \ {arg[Loop].req}
    /\ Goto(Loop, "audit")
    /\ UNCHANGED <<diskReceipts, prefs, auditLog, cacheReceipts, loaded, arg, rows, created>>

AuditDecision ==
    /\ pc[Loop] = "audit"
    /\ \/ auditLog' = auditLog \cup {Len(diskReceipts)} /\ Works
       \/ UNCHANGED auditLog /\ Fails
    /\ Goto(Loop, "provider")
    /\ UNCHANGED <<diskPending, diskReceipts, prefs, cache, arg, rows, created>>

(* INSERT OR REPLACE into consent_preferences; a failure is only logged.    *)
SavePreference(key) ==
    \/ prefs' = [prefs EXCEPT ![key] = arg[Loop].decision] /\ Works
    \/ UNCHANGED prefs /\ Fails

RememberProvider ==
    /\ pc[Loop] = "provider"
    /\ IF arg[Loop].forProvider
       THEN SavePreference(ProviderOf[arg[Loop].req])
       ELSE UNCHANGED prefs /\ Works
    /\ Goto(Loop, "tag")
    /\ UNCHANGED <<diskPending, diskReceipts, auditLog, cache, arg, rows, created>>

RememberTag ==
    /\ pc[Loop] = "tag"
    /\ IF arg[Loop].forTag # Unset
       THEN SavePreference(arg[Loop].forTag)
       ELSE UNCHANGED prefs /\ Works
    /\ Goto(Loop, "idle")
    /\ UNCHANGED <<diskPending, diskReceipts, auditLog, cache, arg, rows, created>>

(* The process dies and is started again: the tables stay, the rest goes.   *)
Crash ==
    /\ restarts < MaxRestarts
    /\ restarts' = restarts + 1
    /\ cachePending' = {} /\ cacheReceipts' = {} /\ loaded' = FALSE
    /\ pc' = [t \in Threads |-> "idle"]
    /\ rows' = [t \in Threads |-> {}]
    /\ UNCHANGED <<store, arg, created, faults>>

-----------------------------------------------------------------------------
Begin ==
    \/ BeginList
    \/ \E t \in Threads, op \in {"create", "hold"}, r \in Requests : BeginCreate(t, op, r)
    \/ \E r \in Requests, d \in Decisions, p \in BOOLEAN, g \in Tags \cup {Unset} :
          BeginRespond(r, d, p, g)

ThreadStep(t) ==
    \/ Fetch(t)
    \/ \E r \in Requests : Install(t, r)
    \/ LoadReceipts(t)
    \/ SavePending(t)
    \/ CachePending(t)

Respond ==
    \/ RespondNotFound \/ SaveReceipt \/ ClearPending
    \/ AuditDecision \/ RememberProvider \/ RememberTag

Next ==
    \/ Begin
    \/ \E t \in Threads : ThreadStep(t)
    \/ ReturnList
    \/ Respond
    \/ Crash

Spec == Init /\ [][Next]_vars

-----------------------------------------------------------------------------
(* Every variable has its type. *)
TypeOK ==
    /\ diskPending \subseteq Requests
    /\ diskReceipts \in Seq(Receipt)
    /\ prefs \in [Providers \cup Tags -> Decisions \cup {Unset}]
    /\ auditLog \subseteq 1..Len(diskReceipts)
    /\ cachePending \subseteq Requests
    /\ cacheReceipts \subseteq 1..Len(diskReceipts)
    /\ loaded \in BOOLEAN
    /\ pc \in [Threads -> Labels]
    /\ arg \in [Threads -> Work]
    /\ rows \in [Threads -> SUBSET Requests]
    /\ created \subseteq Requests
    /\ faults \in 0..MaxFaults
    /\ restarts \in 0..MaxRestarts

Quiet == \A t \in Threads : pc[t] = "idle"

(* No thread of the bot has come to the ledger yet. *)
LoopAlone == \A w \in Workers : arg[w] = Job("list", Unset)

(* A pending row leaves the database only when a receipt for that request   *)
(* is already there: a crash between the two loses no decision.             *)
DeletedOnlyOnceAnswered ==
    [][\A r \in diskPending \ diskPending' : Answered(r)]_vars

(* Every remembered preference is the decision of some receipt, a provider's *)
(* preference of a receipt issued for that very provider: an automatic      *)
(* approval always goes back to a signed answer of the user, whatever fails. *)
PreferenceHasReceipt ==
    \A k \in Providers \cup Tags : prefs[k] # Unset =>
        \E i \in 1..Len(diskReceipts) :
            /\ diskReceipts[i].decision = prefs[k]
            /\ k \in Providers => ProviderOf[diskReceipts[i].req] = k

(* consent.py:126 calls SQLite the source of truth and consent.py:30 the    *)
(* dictionaries a cache backed by it: at rest, whatever is offered to the   *)
(* user for decision is a row of the table and so survives a restart, until  *)
(* a thread of the bot comes in.                                            *)
CacheBacked == (LoopAlone /\ Quiet) => cachePending \subseteq diskPending

(* Conversely, a row of the table is offered for decision once the ledger   *)
(* is loaded, whichever thread loaded it and whatever ran meanwhile.        *)
PendingServed == (faults = 0 /\ loaded /\ Quiet) => diskPending \subseteq cachePending

(* models/consent.py:71: a pending request is one that awaits the user's    *)
(* decision; once answered it is not put before the user again, as long as  *)
(* no write failed, the process never died and the loop is alone.           *)
AnsweredOnce ==
    (LoopAlone /\ faults = 0 /\ restarts = 0) =>
        \A i, j \in 1..Len(diskReceipts) :
            diskReceipts[i].req = diskReceipts[j].req => i = j

=============================================================================
