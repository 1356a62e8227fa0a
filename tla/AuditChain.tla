----------------------------- MODULE AuditChain -----------------------------
(***************************************************************************)
(* The hash-chained audit log: routes/audit.py over core/storage.py, and    *)
(* what the swarm's auditor makes of its table (agents/swarm/auditor.py).   *)
(*                                                                         *)
(* A server process keeps the newest entries in a list, and in _last_hash   *)
(* the hash its next entry will name as its predecessor; the table          *)
(* audit_entries is shared by every process started on the same home        *)
(* directory (cli.py:151-159 suggests a second server on another port).     *)
(* add_audit_entry has no await: a process runs one call at a time, and two *)
(* processes interleave between their SQLite calls.                         *)
(*                                                                         *)
(* A hash is the number of its entry: SHA-256 is taken to be free of        *)
(* collisions, and numbers follow the timestamps.                           *)
(* A process has one connection, which all its writers share (storage.py).  *)
(* When INSERT works and COMMIT fails, the row stays in the transaction the *)
(* connection has open: the process reads it, the next commit of any writer *)
(* stores it, and a crash or a rollback by SQLite takes it back.            *)
(* Bounds: MaxEntries entries, MaxFaults failing SQLite calls, MaxRestarts. *)
(***************************************************************************)
EXTENDS Naturals, Sequences

CONSTANTS
    Processes,      \* server processes on the same database
    MaxCache,       \* _MAX_AUDIT_CACHE, 10000 in the code
    LoadLimit,      \* the limit _ensure_loaded passes, 100000 in the code
    AuditorLimit,   \* the limit the auditor passes, 1000 in the code
    MaxEntries, MaxFaults, MaxRestarts

ASSUME AuditAssumption ==
    /\ MaxCache \in Nat \ {0}
    /\ LoadLimit \in Nat \ {0}
    /\ AuditorLimit \in Nat \ {0}
    /\ MaxEntries \in Nat /\ MaxFaults \in Nat /\ MaxRestarts \in Nat

VARIABLES
    disk,       \* table audit_entries as committed, in rowid order
    open,       \* the rows of each process's open transaction
    cache,      \* _audit_entries of each process
    index,      \* the keys of its _audit_by_id
    last,       \* its _last_hash, 0 for None
    loaded,     \* its _loaded_from_disk
    pc,         \* where it stands in its current call
    adding,     \* whether that call is add_audit_entry or a reading endpoint
    next,       \* the number of the next entry
    faults, restarts

vars == <<disk, open, cache, index, last, loaded, pc, adding, next, faults, restarts>>

(* The table as the connection of a process reads it.                       *)
Table(p) == disk \o open[p]

Entry == [id : Nat \ {0}, prev : Nat]
Hash(s) == IF s = <<>> THEN 0 ELSE s[Len(s)].id

(* The last n elements of a list: Python's s[-n:].                          *)
Newest(s, n) == IF Len(s) <= n THEN s ELSE SubSeq(s, Len(s) - n + 1, Len(s))
Ids(s) == {s[i].id : i \in 1..Len(s)}

(* A bug: the rows come newest first and are not turned round.              *)
ByTimeDescending(s) ==
    CHOOSE t \in [1..Len(s) -> {s[i] : i \in 1..Len(s)}] :
        \A i, j \in 1..Len(s) : i < j => t[i].id > t[j].id

(* SELECT ... ORDER BY timestamp: the rows by number, whatever their rowid. *)
ByTime(s) ==
    CHOOSE t \in [1..Len(s) -> {s[i] : i \in 1..Len(s)}] :
        \A i, j \in 1..Len(s) : i < j => t[i].id < t[j].id

(* verify_audit_chain: each entry must name the one before it in the list,  *)
(* the first of the list none at all.                                       *)
Verifies(s) == \A i \in 1..Len(s) : s[i].prev = IF i = 1 THEN 0 ELSE s[i-1].id

(* What the auditor reads: the newest rows of the table, not the list.       *)
Audited(p) == Newest(ByTime(Table(p)), AuditorLimit)

(* A bug: the oldest row read is taken for the first of the log.            *)
LinkedFromFirst(s) == Verifies(s)

(* _verify_chain: the predecessor of the oldest row is not asked for.       *)
Linked(s) == \A i \in 2..Len(s) : s[i].prev = s[i-1].id

(* A vote on an access: permit as long as the chain is valid. *)
Vote(p) == IF Linked(Audited(p)) THEN "permit" ELSE "deny"

Goto(p, label) == pc' = [pc EXCEPT ![p] = label]
Works == UNCHANGED <<faults, restarts>>
Fails == faults < MaxFaults /\ faults' = faults + 1 /\ UNCHANGED restarts

-----------------------------------------------------------------------------
Init ==
    /\ disk = <<>> /\ next = 1 /\ faults = 0 /\ restarts = 0
    /\ open = [p \in Processes |-> <<>>]
    /\ cache = [p \in Processes |-> <<>>]
    /\ index = [p \in Processes |-> {}]
    /\ last = [p \in Processes |-> 0]
    /\ loaded = [p \in Processes |-> FALSE]
    /\ pc = [p \in Processes |-> "idle"]
    /\ adding = [p \in Processes |-> FALSE]

(* The endpoints that read and add_audit_entry all start with               *)
(* _ensure_loaded, which raises its flag before it reads.                   *)
Begin(p, add) ==
    /\ pc[p] = "idle"
    /\ add => next <= MaxEntries
    /\ loaded' = [loaded EXCEPT ![p] = TRUE]
    /\ adding' = [adding EXCEPT ![p] = add]
    /\ Goto(p, IF ~loaded[p] THEN "fetch" ELSE IF add THEN "append" ELSE "idle")
    /\ UNCHANGED <<disk, open, cache, index, last, next, faults, restarts>>

Resume(p) == Goto(p, IF adding[p] THEN "append" ELSE "idle")

Fetch(p) ==
    /\ pc[p] = "fetch"
    /\ \/ /\ cache' = [cache EXCEPT ![p] = Newest(ByTime(Table(p)), LoadLimit)]
          /\ index' = [index EXCEPT ![p] = Ids(cache'[p])]
          /\ Goto(p, "last") /\ Works
       \/ UNCHANGED <<cache, index>> /\ Resume(p) /\ Fails
    /\ UNCHANGED <<disk, open, last, loaded, adding, next>>

(* A bug: the hash of the last row is not looked up.                        *)
FetchLastSkipped(p) ==
    /\ pc[p] = "last"
    /\ Resume(p) /\ Works
    /\ UNCHANGED <<disk, open, cache, index, last, loaded, adding, next>>

(* get_last_audit_hash: the row inserted last, not the latest by timestamp. *)
FetchLast(p) ==
    /\ pc[p] = "last"
    /\ \/ last' = [last EXCEPT ![p] = Hash(Table(p))] /\ Works
       \/ UNCHANGED last /\ Fails
    /\ Resume(p)
    /\ UNCHANGED <<disk, open, cache, index, loaded, adding, next>>

(* A bug: _last_hash is left as it was. *)
AppendEntryStaleLast(p) ==
    /\ pc[p] = "append"
    /\ next' = next + 1
    /\ cache' = [cache EXCEPT ![p] =
           Newest(Append(@, [id |-> next, prev |-> last[p]]), MaxCache)]
    /\ index' = [index EXCEPT ![p] = Ids(cache'[p])]
    /\ Goto(p, "persist")
    /\ UNCHANGED <<disk, open, last, loaded, adding, faults, restarts>>

(* add_audit_entry up to the INSERT: the new entry names _last_hash, becomes *)
(* it, and pushes the oldest entries out of the list and of the index.      *)
AppendEntry(p) ==
    LET entry == [id |-> next, prev |-> last[p]]
        all   == Append(cache[p], entry)
    IN  /\ pc[p] = "append"
        /\ next' = next + 1
        /\ last' = [last EXCEPT ![p] = next]
        /\ cache' = [cache EXCEPT ![p] = Newest(all, MaxCache)]
        /\ index' = [index EXCEPT ![p] =
               (@ \cup {next}) \ (Ids(all) \ Ids(Newest(all, MaxCache)))]
        /\ Goto(p, "persist")
        /\ UNCHANGED <<disk, open, loaded, adding, faults, restarts>>

(* An INSERT needs that no other process has a transaction open.  A failing *)
(* INSERT or COMMIT is logged and the entry stays in memory; the row a      *)
(* COMMIT failed on stays in the transaction, or SQLite gives up all of it. *)
Persist(p) ==
    LET rows == Append(open[p], cache[p][Len(cache[p])])
    IN  /\ pc[p] = "persist"
        /\ \/ /\ \A q \in Processes \ {p} : open[q] = <<>>
              /\ \/ disk' = disk \o rows /\ open' = [open EXCEPT ![p] = <<>>] /\ Works
                 \/ UNCHANGED disk /\ open' = [open EXCEPT ![p] = rows] /\ Fails
           \/ UNCHANGED <<disk, open>> /\ Fails
           \/ UNCHANGED disk /\ open' = [open EXCEPT ![p] = <<>>] /\ Fails
        /\ Goto(p, "idle")
        /\ UNCHANGED <<cache, index, last, loaded, adding, next>>

(* Another writer of the process, a receipt or a memory, commits what is    *)
(* open, or fails so that SQLite gives it up.                               *)
OtherWrite(p) ==
    /\ open[p] # <<>>
    /\ \/ disk' = Table(p) /\ Works
       \/ UNCHANGED disk /\ Fails
    /\ open' = [open EXCEPT ![p] = <<>>]
    /\ UNCHANGED <<cache, index, last, loaded, pc, adding, next>>

(* Processes end: what they had in memory and in open transactions is gone. *)
Forget(ended) ==
    /\ restarts < MaxRestarts
    /\ restarts' = restarts + 1
    /\ open' = [p \in Processes |-> IF p \in ended THEN <<>> ELSE open[p]]
    /\ cache' = [p \in Processes |-> IF p \in ended THEN <<>> ELSE cache[p]]
    /\ index' = [p \in Processes |-> IF p \in ended THEN {} ELSE index[p]]
    /\ last' = [p \in Processes |-> IF p \in ended THEN 0 ELSE last[p]]
    /\ loaded' = [p \in Processes |-> p \notin ended /\ loaded[p]]
    /\ pc' = [p \in Processes |-> IF p \in ended THEN "idle" ELSE pc[p]]
    /\ UNCHANGED <<adding, next, faults>>

Restart(p) == Forget({p}) /\ UNCHANGED disk

(* A power loss ends every process and may take back the latest commits:    *)
(* with synchronous=NORMAL the write-ahead log is not flushed by each.      *)
PowerLoss ==
    /\ Forget(Processes)
    /\ \E kept \in 0..Len(disk) : disk' = SubSeq(disk, 1, kept)

Next ==
    \/ \E p \in Processes :
        \/ \E add \in BOOLEAN : Begin(p, add)
        \/ Fetch(p) \/ FetchLast(p) \/ AppendEntry(p) \/ Persist(p)
        \/ OtherWrite(p) \/ Restart(p)
    \/ PowerLoss

Spec == Init /\ [][Next]_vars

-----------------------------------------------------------------------------
(* Every variable has its type, and the list never outgrows its caps. *)
TypeOK ==
    /\ disk \in Seq(Entry)
    /\ open \in [Processes -> Seq(Entry)]
    /\ cache \in [Processes -> Seq(Entry)]
    /\ index \in [Processes -> SUBSET Nat]
    /\ last \in [Processes -> Nat]
    /\ loaded \in [Processes -> BOOLEAN]
    /\ pc \in [Processes -> {"idle", "fetch", "last", "append", "persist"}]
    /\ adding \in [Processes -> BOOLEAN]
    /\ next \in Nat \ {0}
    /\ faults \in 0..MaxFaults
    /\ restarts \in 0..MaxRestarts
    /\ \A p \in Processes : Len(cache[p]) <= MaxCache \/ Len(cache[p]) <= LoadLimit

(* An entry can be fetched by its id (audit.py:317) exactly while the list  *)
(* holds it: eviction and loading keep the two in step.                     *)
IndexMatches == \A p \in Processes : index[p] = Ids(cache[p])

(* Whatever fails, one server never forks the log: a row whose predecessor  *)
(* is in the table comes right after it, so a failed write, a failed load   *)
(* or a row stored or taken back behind the caller's back leaves a visible  *)
(* gap and never two rows after the same one.                               *)
RowsFollow ==
    \A p \in Processes : \A i \in 1..Len(Table(p)) :
        Table(p)[i].prev \in Ids(Table(p)) =>
            i > 1 /\ Table(p)[i].prev = Table(p)[i-1].id

(* storage.py:4-6: the table is durable "so that records survive server     *)
(* restarts ... critical for the audit hash chain": as long as every SQLite *)
(* call worked, the rows are one chain from the first, across restarts and  *)
(* whatever a power loss takes back.                                        *)
DiskIsChain == faults = 0 => Verifies(disk)

(* GET /v1/audit/verify accepts a log nobody touched, as long as no call    *)
(* failed and the log still fits the list.                                  *)
VerifiesUnlessEvicted ==
    (faults = 0 /\ next <= MaxCache + 1) =>
        \A p \in Processes : pc[p] \in {"idle", "append"} => Verifies(cache[p])

(* The auditor denies no access over a log nobody touched, at whatever point *)
(* of a call it reads the table and however much longer than its window the  *)
(* log has grown (agents/swarm/auditor.py:59-101, 229-234).                 *)
AuditorPermits == faults = 0 => \A p \in Processes : Vote(p) = "permit"
=============================================================================
