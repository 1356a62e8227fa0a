---------------------------- MODULE VectorStore ----------------------------
(***************************************************************************)
(* The vector store on SQLite (vector_stores/sqlite_vec.py, and its mem0    *)
(* adapter): a collection is a table of vectors, one of metadata and one of *)
(* audit rows.  An operation is one transaction, but for search, which is a *)
(* clean-up of what has expired, a SELECT, and a record of what was found.  *)
(* Each of Stores is a SQLiteVecStore on the one file; its lock makes its   *)
(* calls follow one another, so that a store has one call under way.        *)
(*                                                                         *)
(* SQLite admits one writer; another one waits, and fails after 5 seconds.  *)
(* The code's BEGIN leaves the locking to the statements after it; here it  *)
(* takes the writer's lock, and a transaction that cannot go from reading   *)
(* to writing is one that fails.                                           *)
(*                                                                         *)
(* The extension sqlite-vec never loads, because sqlite_vec.load is called  *)
(* on a connection that was not told to allow extensions: every search is   *)
(* _search_python, and there is no vec0 table.  Which vectors are nearest   *)
(* is left open.  Auditing is on, as it is by default.                      *)
(*                                                                         *)
(* Bounds: MaxCalls calls, MaxTime ticks of the clock.                      *)
(***************************************************************************)
EXTENDS Integers, Sequences, FiniteSets

CONSTANTS Stores, VectorIds, Levels, Limits, MaxCalls, MaxTime, nobody

ASSUME StoreAssumption ==
    /\ Levels \subseteq 0..3 /\ Limits \subseteq Nat \ {0}
    /\ nobody \notin Stores /\ MaxCalls \in Nat /\ MaxTime \in Nat

Never  == MaxTime + 1      \* no expires_at
Metadata == [level : Levels, expires : 0..Never, accesses : Nat]
Events == {"insert", "update", "delete", "ttl_expire", "access"}

VARIABLES
    db,         \* the committed tables; made: whether they were created
    writer,     \* the store whose transaction is open
    work, left, \* the tables as it sees them, and those it has still to write
    jobs,       \* what is left of each store's call
    found,      \* what its search has found
    dead,       \* what its clean-up removed and nobody wrote again
    clock, calls

storeVars == <<db, writer, work, left, jobs, found, dead, clock, calls>>

NoTables == [vectors |-> {}, metadata |-> [id \in {} |-> 0],
             audit |-> [id \in VectorIds |-> <<>>], made |-> FALSE]

Logged(audit, event, ids) ==
    [id \in VectorIds |-> IF id \in ids THEN Append(audit[id], event) ELSE audit[id]]

Without(rows, ids) == [id \in DOMAIN rows \ ids |-> rows[id]]

Expired(rows, now) == {id \in DOMAIN rows : rows[id].expires < now}

-----------------------------------------------------------------------------
(* The tables after a job's transaction.                                    *)

(* INSERT OR REPLACE: the accesses are counted from zero again.             *)
Inserted(job, t) ==
    [t EXCEPT !.vectors = @ \cup DOMAIN job.batch,
              !.metadata = [id \in DOMAIN @ \cup DOMAIN job.batch |->
                               IF id \in DOMAIN job.batch THEN job.batch[id] ELSE @[id]],
              !.audit = Logged(@, "insert", DOMAIN job.batch)]

(* update, extend_ttl, mark_consent_required. *)
Updated(job, t) ==
    [t EXCEPT !.metadata[job.id].level = job.level,
              !.metadata[job.id].expires = job.expires,
              !.audit = Logged(@, "update", {job.id})]

Deleted(job, t) ==
    [t EXCEPT !.audit = Logged(@, "delete", {job.id}),
              !.metadata = Without(@, {job.id}),
              !.vectors = @ \ {job.id}]

(* A bug: one expired memory is removed at a time. *)
CleanedUpOne(job, t) ==
    LET expired == Expired(t.metadata, job.now)
        gone    == IF expired = {} THEN {} ELSE {CHOOSE id \in expired : TRUE}
    IN  [t EXCEPT !.audit = Logged(@, "ttl_expire", gone),
                  !.metadata = Without(@, gone),
                  !.vectors = @ \ gone]

CleanedUp(job, t) ==
    LET gone == Expired(t.metadata, job.now)
    IN  [t EXCEPT !.audit = Logged(@, "ttl_expire", gone),
                  !.metadata = Without(@, gone),
                  !.vectors = @ \ gone]

Accessed(job, t) ==
    [t EXCEPT !.metadata = [id \in DOMAIN @ |->
                               IF id \in job.ids THEN [@[id] EXCEPT !.accesses = @ + 1] ELSE @[id]],
              !.audit = Logged(@, "access", job.ids)]

After(job, t) ==
    CASE job.kind = "insert" -> Inserted(job, t)
      [] job.kind = "update" -> Updated(job, t)
      [] job.kind = "delete" -> Deleted(job, t)
      [] job.kind = "expire" -> CleanedUp(job, t)
      [] job.kind = "access" -> Accessed(job, t)
      [] job.kind = "drop"   -> NoTables
      [] job.kind \in {"open", "init"} -> [t EXCEPT !.made = TRUE]

(* The tables a transaction writes, in the order of its statements. *)
Order(job) ==
    CASE job.kind \in {"insert", "update"} -> <<"vectors", "metadata", "audit">>
      [] job.kind \in {"delete", "expire"} -> <<"audit", "metadata", "vectors">>
      [] job.kind = "access" -> <<"metadata", "audit">>
      [] job.kind = "drop"   -> <<"metadata", "vectors", "audit", "made">>
      [] job.kind \in {"open", "init"} -> <<"made">>

-----------------------------------------------------------------------------
StoreInit ==
    /\ db = NoTables /\ work = NoTables
    /\ writer = nobody /\ left = <<>>
    /\ jobs = [s \in Stores |-> <<[kind |-> "open"]>>]
    /\ found = [s \in Stores |-> {}] /\ dead = [s \in Stores |-> {}]
    /\ clock = 0 /\ calls = 0

JobOf(s) == Head(jobs[s])
Does(s, kind) == jobs[s] # <<>> /\ JobOf(s).kind = kind
Rest(s) == jobs' = [jobs EXCEPT ![s] = Tail(@)]

Call(s, todo) ==
    /\ jobs[s] = <<>> /\ calls < MaxCalls
    /\ jobs' = [jobs EXCEPT ![s] = todo]
    /\ calls' = calls + 1
    /\ found' = [found EXCEPT ![s] = {}] /\ dead' = [dead EXCEPT ![s] = {}]
    /\ UNCHANGED <<db, writer, work, left, clock>>

(* expires_at may be past already; a batch is inserted or refused as one.   *)
InsertVectors(s) ==
    \E ids \in SUBSET VectorIds \ {{}} : \E level \in Levels, expires \in 0..Never :
        Call(s, <<[kind |-> "insert",
                   batch |-> [id \in ids |-> [level |-> level, expires |-> expires, accesses |-> 0]]]>>)

(* With expires_at = None the old one stays: a TTL cannot be taken away.    *)
UpdateVector(s) ==
    \E id \in VectorIds, level \in Levels, expires \in 0..MaxTime :
        Call(s, <<[kind |-> "update", id |-> id, level |-> level, expires |-> expires]>>)

DeleteVector(s) == \E id \in VectorIds : Call(s, <<[kind |-> "delete", id |-> id]>>)

Reads(ids, ceiling, limit, past, notes) ==
    [kind |-> "select", ids |-> ids, ceiling |-> ceiling, limit |-> limit,
     past |-> past, notes |-> notes]

Search(s) ==
    \E ceiling \in Levels, limit \in Limits :
        Call(s, <<[kind |-> "expire", now |-> clock],
                  Reads(VectorIds, ceiling, limit, {}, TRUE)>>)

(* get joins the two tables and looks at no expiry. *)
Get(s) == \E id \in VectorIds : Call(s, <<Reads({id}, 3, 1, {}, TRUE)>>)

(* list leaves out what has expired, and records no access. *)
List(s) ==
    \E ceiling \in Levels, limit \in Limits :
        Call(s, <<Reads(VectorIds, ceiling, limit, {clock}, FALSE)>>)

Reset(s) == Call(s, <<[kind |-> "drop"], [kind |-> "init"]>>)

-----------------------------------------------------------------------------
(* What a search works on: the clean-up leaves it to the next one if it     *)
(* fails, and the SELECT has no condition on the expiry.                    *)
Select(s) ==
    /\ Does(s, "select") /\ db.made
    /\ LET job   == JobOf(s)
           match == {id \in db.vectors \cap DOMAIN db.metadata \cap job.ids :
                        /\ db.metadata[id].level <= job.ceiling
                        /\ \A now \in job.past : db.metadata[id].expires >= now}
       IN  \E near \in SUBSET match :
              /\ \/ near = match /\ Cardinality(match) <= job.limit
                 \/ Cardinality(match) > job.limit /\ Cardinality(near) = job.limit
              /\ found' = [found EXCEPT ![s] = near]
              /\ jobs' = [jobs EXCEPT ![s] =
                    IF near = {} \/ ~job.notes THEN <<>> ELSE <<[kind |-> "access", ids |-> near]>>]
    /\ UNCHANGED <<db, writer, work, left, dead, clock, calls>>

Missing(job) == job.kind \in {"update", "delete"} /\ job.id \notin db.vectors

Transacts(s) == jobs[s] # <<>> /\ JobOf(s).kind # "select" /\ 
                (db.made \/ JobOf(s).kind \in {"open", "init", "drop"})

BeginWork(s) ==
    /\ Transacts(s) /\ writer = nobody /\ ~Missing(JobOf(s))
    /\ writer' = s /\ work' = db /\ left' = Order(JobOf(s))
    /\ UNCHANGED <<db, jobs, found, dead, clock, calls>>

(* update and delete look for the id first, and answer False. *)
NotFound(s) ==
    /\ Transacts(s) /\ writer = nobody /\ Missing(JobOf(s))
    /\ Rest(s)
    /\ UNCHANGED <<db, writer, work, left, found, dead, clock, calls>>

(* A bug: without BEGIN every statement is committed as it runs. *)
StatementCommits(s) ==
    /\ writer = s /\ left # <<>>
    /\ work' = [work EXCEPT ![Head(left)] = After(JobOf(s), work)[Head(left)]]
    /\ db' = work'
    /\ left' = Tail(left)
    /\ UNCHANGED <<writer, jobs, found, dead, clock, calls>>

Statement(s) ==
    /\ writer = s /\ left # <<>>
    /\ work' = [work EXCEPT ![Head(left)] = After(JobOf(s), db)[Head(left)]]
    /\ left' = Tail(left)
    /\ UNCHANGED <<db, writer, jobs, found, dead, clock, calls>>

Written(job) ==
    IF job.kind = "insert" THEN DOMAIN job.batch ELSE IF job.kind = "update" THEN {job.id} ELSE {}

Commit(s) ==
    /\ writer = s /\ left = <<>>
    /\ db' = work /\ writer' = nobody /\ Rest(s)
    /\ dead' = [r \in Stores |->
          IF r = s /\ Does(s, "expire") THEN Expired(db.metadata, JobOf(s).now)
          ELSE dead[r] \ Written(JobOf(s))]
    /\ UNCHANGED <<work, left, found, clock, calls>>

(* A store that does not open is opened again.  A failed clean-up or record *)
(* of accesses is logged and the search goes on; any other failure is       *)
(* raised.  Either way the transaction is undone.                           *)
Failed(s) ==
    jobs' = [jobs EXCEPT ![s] =
        IF Does(s, "expire") THEN Tail(@) ELSE IF Does(s, "open") THEN @ ELSE <<>>]

(* A bug: what fails is run again, inside its transaction. *)
RollbackRetries(s) ==
    /\ writer = s
    /\ work' = db /\ left' = Order(JobOf(s))
    /\ UNCHANGED <<db, writer, jobs, found, dead, clock, calls>>

Rollback(s) ==
    /\ jobs[s] # <<>> /\ Failed(s)
    /\ writer' = IF writer = s THEN nobody ELSE writer
    /\ found' = [found EXCEPT ![s] = IF Does(s, "select") THEN {} ELSE @]
    /\ UNCHANGED <<db, work, left, dead, clock, calls>>

(* The process dies and the store is opened again. *)
Crash(s) ==
    /\ calls < MaxCalls /\ calls' = calls + 1
    /\ jobs' = [jobs EXCEPT ![s] = <<[kind |-> "open"]>>]
    /\ writer' = IF writer = s THEN nobody ELSE writer
    /\ found' = [found EXCEPT ![s] = {}] /\ dead' = [dead EXCEPT ![s] = {}]
    /\ UNCHANGED <<db, work, left, clock>>

Tick ==
    /\ clock < MaxTime /\ clock' = clock + 1
    /\ UNCHANGED <<db, writer, work, left, jobs, found, dead, calls>>

Step(s) ==
    BeginWork(s) \/ NotFound(s) \/ Statement(s) \/ Commit(s) \/ Select(s) \/ Rollback(s)

StoreNext ==
    \/ Tick
    \/ \E s \in Stores :
          \/ InsertVectors(s) \/ UpdateVector(s) \/ DeleteVector(s) \/ Reset(s)
          \/ Search(s) \/ List(s) \/ Get(s) \/ Step(s) \/ Crash(s)

(* A thread inside a call runs on, and a statement that waits for a lock     *)
(* gets it or fails.                                                        *)
StoreSpec == StoreInit /\ [][StoreNext]_storeVars /\ \A s \in Stores : WF_storeVars(Step(s))

-----------------------------------------------------------------------------

(* The last change a memory's trail tells of is one that put it there; an    *)
(* access is no change.                                                     *)
Puts(trail) ==
    \E i \in DOMAIN trail :
        /\ trail[i] \in {"insert", "update"}
        /\ \A j \in DOMAIN trail : j > i => trail[j] = "access"

(* The committed tables tell one story, whatever fails or dies in whatever   *)
(* statement of whichever store: a memory has a vector and a row, or        *)
(* neither, and it has them exactly when the last change its audit trail    *)
(* tells of is one that put it there.                                       *)
TrailTellsAll ==
    /\ DOMAIN db.metadata = db.vectors
    /\ \A id \in VectorIds : id \in db.vectors <=> Puts(db.audit[id])

(* A search whose clean-up worked finds nothing that had expired before it,  *)
(* whatever another store does between its three steps.                     *)
ExpiredNotFound == \A s \in Stores : found[s] \cap dead[s] = {}

(* No store keeps the others from writing for good. *)
WriterLeaves == \A s \in Stores : writer = s ~> writer # s
=============================================================================
