---------------------------- MODULE Consent_proofs ----------------------------
(***************************************************************************)
(* What holds of the consent ledger for every set of requests, threads and *)
(* providers, and for any number of failures and restarts.                 *)
(*                                                                         *)
(* A preference is written several steps after the receipt it rests on,    *)
(* and the pending row is deleted before it: neither property is           *)
(* inductive. The strengthening says which handler a thread stands in      *)
(* (JobsMatch) and that the receipt of the response in progress is already *)
(* in the table (ReceiptFirst). The last part is about the cache and the   *)
(* table.                                                                  *)
(*                                                                         *)
(* The second part is about the chats with the local model, for any chats, *)
(* users, conversations and limits: an AgentState stays with its           *)
(* conversation (Kin), the limit a chat reads of the one ClawdBot is its   *)
(* own, unless a later request is noted to have changed it (Noted), and a  *)
(* chat that nothing overtook has its AgentState to itself and counts its  *)
(* own rounds (Counts). Whose memories a tool finds is told by the user of *)
(* the bot, who is around every conversation under way (Gathered).         *)
(***************************************************************************)
EXTENDS ConsentLedger, LocalChats, SequenceTheorems, TLAPS

AfterReceipt == {"clear", "audit", "provider", "tag"}

JobsMatch ==
    \A t \in Threads :
        /\ arg[t].op # "list" => arg[t].req \in Requests
        /\ arg[t].op = "respond" => arg[t].decision \in Decisions
        /\ pc[t] \in Ops => pc[t] = arg[t].op
        /\ pc[t] = "cache" => arg[t].op = "create"
        /\ pc[t] \in AfterReceipt => arg[t].op = "respond"

ReceiptFirst ==
    pc[Loop] \in AfterReceipt =>
        \E i \in 1..Len(diskReceipts) :
            /\ diskReceipts[i].req = arg[Loop].req
            /\ diskReceipts[i].decision = arg[Loop].decision

IInv == TypeOK /\ JobsMatch /\ ReceiptFirst /\ PreferenceHasReceipt

LEMMA InitInv == Init => IInv
<1> SUFFICES ASSUME Init PROVE IInv
    OBVIOUS
<1> USE LedgerAssumption DEF Init
<1>1. diskReceipts \in Seq(Receipt) /\ Len(diskReceipts) = 0
  OBVIOUS
<1>2. /\ prefs \in [Providers \cup Tags -> Decisions \cup {Unset}]
      /\ pc \in [Threads -> Labels]
      /\ rows \in [Threads -> SUBSET Requests]
  BY DEF Labels
<1>3. arg \in [Threads -> Work]
  BY DEF Job, Work, Ops
<1>4. TypeOK
  <2>1. /\ faults \in 0..MaxFaults /\ restarts \in 0..MaxRestarts
        /\ auditLog \subseteq 1..Len(diskReceipts)
        /\ cacheReceipts \subseteq 1..Len(diskReceipts)
    OBVIOUS
  <2>2. /\ diskPending \subseteq Requests /\ cachePending \subseteq Requests
        /\ created \subseteq Requests /\ loaded \in BOOLEAN
    OBVIOUS
  <2> HIDE DEF Init
  <2> QED BY <1>1, <1>2, <1>3, <2>1, <2>2 DEF TypeOK
<1>5. JobsMatch
  BY DEF JobsMatch, Job, Ops, AfterReceipt
<1>6. ReceiptFirst
  BY DEF ReceiptFirst, AfterReceipt, Threads
<1>7. PreferenceHasReceipt
  BY DEF PreferenceHasReceipt
<1> QED BY <1>4, <1>5, <1>6, <1>7 DEF IInv

(* A receipt appended to the table leaves the earlier ones where they are. *)
LEMMA AppendKeeps ==
    ASSUME NEW r \in Receipt, diskReceipts \in Seq(Receipt),
           diskReceipts' = Append(diskReceipts, r)
    PROVE  /\ diskReceipts' \in Seq(Receipt)
           /\ Len(diskReceipts') = Len(diskReceipts) + 1
           /\ \A i \in 1..Len(diskReceipts) : diskReceipts'[i] = diskReceipts[i]
           /\ diskReceipts'[Len(diskReceipts) + 1] = r
OBVIOUS

LEMMA TypeStep == IInv /\ [Next]_vars => TypeOK'
<1> SUFFICES ASSUME TypeOK, JobsMatch, ReceiptFirst, [Next]_vars PROVE TypeOK'
    BY DEF IInv
<1> USE LedgerAssumption DEF TypeOK, Threads, Labels, Ops
<1>1. ASSUME NEW t \in Threads, NEW work \in Work, Enter(t, work),
             created' \subseteq Requests
      PROVE  TypeOK'
  BY <1>1 DEF Enter, Goto, store, bounds, Work
<1>2. CASE Begin
  <2>1. CASE BeginList
    BY <2>1, <1>1 DEF BeginList, Job, Work
  <2>2. ASSUME NEW t \in Threads, NEW op \in {"create", "hold"}, NEW r \in Requests,
               BeginCreate(t, op, r)
        PROVE  TypeOK'
    BY <2>2, <1>1 DEF BeginCreate, Job, Work
  <2>3. ASSUME NEW r \in Requests, NEW d \in Decisions, NEW p \in BOOLEAN,
               NEW g \in Tags \cup {Unset}, BeginRespond(r, d, p, g)
        PROVE  TypeOK'
    BY <2>3, <1>1 DEF BeginRespond, Work
  <2> QED BY <1>2, <2>1, <2>2, <2>3 DEF Begin
<1>3. ASSUME NEW t \in Threads, ThreadStep(t) PROVE TypeOK'
  <2>1. CASE Fetch(t)
    BY <2>1 DEF Fetch, Goto, Works, Fails, store, cache, bounds, Work
  <2>2. ASSUME NEW r \in Requests, Install(t, r) PROVE TypeOK'
    BY <2>2 DEF Install, store, bounds
  <2>3. CASE LoadReceipts(t)
    <3>1. LatestReceipts \subseteq 1..Len(diskReceipts)
      BY DEF LatestReceipts
    <3>2. cacheReceipts' \subseteq 1..Len(diskReceipts')
      BY <2>3, <3>1 DEF LoadReceipts, store
    <3>3. pc' \in [Threads -> Labels]
      BY <2>3 DEF LoadReceipts, Goto, Work
    <3>4. faults' \in 0..MaxFaults /\ restarts' \in 0..MaxRestarts
      BY <2>3 DEF LoadReceipts, Works, Fails, bounds
    <3> QED BY <2>3, <3>2, <3>3, <3>4 DEF LoadReceipts, store
  <2>4. CASE SavePending(t)
    BY <2>4 DEF SavePending, Goto, Works, Fails, cache, bounds, JobsMatch
  <2>5. CASE CachePending(t)
    BY <2>5 DEF CachePending, Goto, store, bounds, JobsMatch
  <2> QED BY <1>3, <2>1, <2>2, <2>3, <2>4, <2>5 DEF ThreadStep
<1>4. CASE ReturnList
  BY <1>4 DEF ReturnList, Goto, store, cache, bounds
<1>5. CASE Respond
  <2>1. CASE RespondNotFound
    BY <2>1 DEF RespondNotFound, Goto, store, cache, bounds
  <2>2. CASE SaveReceipt
    <3> DEFINE new == [req |-> arg[Loop].req, decision |-> arg[Loop].decision]
    <3>1. new \in Receipt
      BY <2>2 DEF SaveReceipt, JobsMatch, Receipt
    <3>2. CASE diskReceipts' = Append(diskReceipts, new)
      <4>1. /\ diskReceipts' \in Seq(Receipt)
            /\ Len(diskReceipts') = Len(diskReceipts) + 1
        BY <3>1, <3>2, AppendKeeps
      <4>2. 1..Len(diskReceipts) \subseteq 1..Len(diskReceipts')
        BY <4>1
      <4>3. Len(diskReceipts) + 1 \in 1..Len(diskReceipts')
        BY <4>1
      <4>4. cacheReceipts' \subseteq 1..Len(diskReceipts')
        BY <2>2, <4>2, <4>3 DEF SaveReceipt
      <4>5. auditLog' \subseteq 1..Len(diskReceipts')
        BY <2>2, <4>2 DEF SaveReceipt
      <4> HIDE DEF new
      <4> QED BY <2>2, <4>1, <4>4, <4>5 DEF SaveReceipt, Goto, Works, Fails, bounds
    <3>3. CASE UNCHANGED <<diskReceipts, cacheReceipts>>
      BY <2>2, <3>3 DEF SaveReceipt, Goto, Works, Fails, bounds
    <3> QED BY <2>2, <3>2, <3>3 DEF SaveReceipt
  <2>3. CASE ClearPending
    BY <2>3 DEF ClearPending, Goto, Works, Fails, bounds
  <2>4. CASE AuditDecision
    <3>1. Len(diskReceipts) \in 1..Len(diskReceipts)
      BY <2>4 DEF AuditDecision, ReceiptFirst, AfterReceipt
    <3>2. auditLog' \subseteq 1..Len(diskReceipts')
      BY <2>4, <3>1 DEF AuditDecision, Works, Fails
    <3>3. faults' \in 0..MaxFaults /\ restarts' \in 0..MaxRestarts
      BY <2>4 DEF AuditDecision, Works, Fails, bounds
    <3> QED BY <2>4, <3>2, <3>3 DEF AuditDecision, Goto, cache
  <2>5. CASE RememberProvider
    BY <2>5 DEF RememberProvider, SavePreference, JobsMatch, AfterReceipt, Goto, Works,
                Fails, cache, bounds, Work
  <2>6. CASE RememberTag
    BY <2>6 DEF RememberTag, SavePreference, JobsMatch, AfterReceipt, Goto, Works,
                Fails, cache, bounds, Work
  <2> QED BY <1>5, <2>1, <2>2, <2>3, <2>4, <2>5, <2>6 DEF Respond
<1>6. CASE Crash
  <2>1. /\ pc' \in [Threads -> Labels]
        /\ rows' \in [Threads -> SUBSET Requests]
        /\ restarts' \in 0..MaxRestarts
    BY <1>6 DEF Crash
  <2> QED BY <1>6, <2>1 DEF Crash, store
<1>7. CASE UNCHANGED vars
  BY <1>7 DEF vars, store, cache, bounds
<1> QED BY <1>2, <1>3, <1>4, <1>5, <1>6, <1>7 DEF Next

LEMMA JobsStep == TypeOK /\ JobsMatch /\ [Next]_vars => JobsMatch'
<1> SUFFICES ASSUME TypeOK, JobsMatch, [Next]_vars PROVE JobsMatch'
    OBVIOUS
<1> USE LedgerAssumption DEF Threads, Ops, AfterReceipt
<1>0. pc \in [Threads -> Labels] /\ arg \in [Threads -> Work]
  BY DEF TypeOK
<1>1. ASSUME NEW t \in Threads, NEW work \in Work, Enter(t, work),
             work.op # "list" => work.req \in Requests,
             work.op = "respond" => work.decision \in Decisions
      PROVE  JobsMatch'
  BY <1>0, <1>1 DEF Enter, Goto, JobsMatch, Work
<1>2. CASE Begin
  <2>1. CASE BeginList
    BY <2>1, <1>1 DEF BeginList, Job, Work
  <2>2. ASSUME NEW t \in Threads, NEW op \in {"create", "hold"}, NEW r \in Requests,
               BeginCreate(t, op, r)
        PROVE  JobsMatch'
    BY <2>2, <1>1 DEF BeginCreate, Job, Work
  <2>3. ASSUME NEW r \in Requests, NEW d \in Decisions, NEW p \in BOOLEAN,
               NEW g \in Tags \cup {Unset}, BeginRespond(r, d, p, g)
        PROVE  JobsMatch'
    BY <2>3, <1>1 DEF BeginRespond, Work
  <2> QED BY <1>2, <2>1, <2>2, <2>3 DEF Begin
<1>3. ASSUME NEW t \in Threads, ThreadStep(t) PROVE JobsMatch'
  <2>1. CASE Fetch(t)
    BY <1>0, <2>1 DEF Fetch, Goto, JobsMatch, Work
  <2>2. ASSUME NEW r \in Requests, Install(t, r) PROVE JobsMatch'
    BY <2>2 DEF Install, JobsMatch
  <2>3. CASE LoadReceipts(t)
    BY <1>0, <2>3 DEF LoadReceipts, Goto, JobsMatch, Work
  <2>4. CASE SavePending(t)
    BY <1>0, <2>4 DEF SavePending, Goto, JobsMatch
  <2>5. CASE CachePending(t)
    BY <1>0, <2>5 DEF CachePending, Goto, JobsMatch
  <2> QED BY <1>3, <2>1, <2>2, <2>3, <2>4, <2>5 DEF ThreadStep
<1>4. CASE ReturnList
  BY <1>0, <1>4 DEF ReturnList, Goto, JobsMatch
<1>5. CASE Respond
  BY <1>0, <1>5 DEF Respond, RespondNotFound, SaveReceipt, ClearPending, AuditDecision,
     RememberProvider, RememberTag, Goto, JobsMatch
<1>6. CASE Crash
  BY <1>6 DEF Crash, JobsMatch
<1>7. CASE UNCHANGED vars
  BY <1>7 DEF vars, JobsMatch
<1> QED BY <1>2, <1>3, <1>4, <1>5, <1>6, <1>7 DEF Next

(* The table of receipts only grows: what a receipt is cited for stays true. *)
LEMMA ReceiptsStep ==
    ASSUME TypeOK, JobsMatch, [Next]_vars
    PROVE  /\ Len(diskReceipts) \in Nat /\ Len(diskReceipts') \in Nat
           /\ Len(diskReceipts) <= Len(diskReceipts')
           /\ \A i \in 1..Len(diskReceipts) : diskReceipts'[i] = diskReceipts[i]
<1>0. diskReceipts \in Seq(Receipt)
  BY DEF TypeOK
<1>1. CASE UNCHANGED diskReceipts
  BY <1>0, <1>1
<1>2. CASE SaveReceipt
  <2> DEFINE new == [req |-> arg[Loop].req, decision |-> arg[Loop].decision]
  <2>1. CASE diskReceipts' = Append(diskReceipts, new)
    <3>1. new \in Receipt
      BY <1>2 DEF SaveReceipt, JobsMatch, Receipt, Ops, Threads
    <3> HIDE DEF new
    <3> QED BY <1>0, <2>1, <3>1, AppendKeeps
  <2> QED BY <1>1, <1>2, <2>1 DEF SaveReceipt
<1>3. [Next]_vars /\ ~SaveReceipt => UNCHANGED diskReceipts
  BY DEF Next, vars, store, Begin, BeginList, BeginCreate, BeginRespond, Enter, ThreadStep,
     Fetch, Install, LoadReceipts, SavePending, CachePending, ReturnList, Respond,
     RespondNotFound, ClearPending, AuditDecision, RememberProvider, RememberTag, Crash
<1> QED BY <1>1, <1>2, <1>3

LEMMA ReceiptFirstStep ==
    TypeOK /\ JobsMatch /\ ReceiptFirst /\ [Next]_vars => ReceiptFirst'
<1> SUFFICES ASSUME TypeOK, JobsMatch, ReceiptFirst, [Next]_vars,
                    pc'[Loop] \in AfterReceipt
             PROVE  \E i \in 1..Len(diskReceipts') :
                        /\ diskReceipts'[i].req = arg'[Loop].req
                        /\ diskReceipts'[i].decision = arg'[Loop].decision
    BY DEF ReceiptFirst
<1> USE DEF Threads, AfterReceipt
<1>0. /\ pc \in [Threads -> Labels]
      /\ arg \in [Threads -> Work]
      /\ diskReceipts \in Seq(Receipt)
  BY DEF TypeOK
<1>1. CASE SaveReceipt
  <2> DEFINE new == [req |-> arg[Loop].req, decision |-> arg[Loop].decision]
  <2>1. new \in Receipt
    BY <1>1 DEF SaveReceipt, JobsMatch, Receipt, Ops
  <2>2. diskReceipts' = Append(diskReceipts, new) /\ UNCHANGED arg
    BY <1>0, <1>1 DEF SaveReceipt, Goto
  <2>3. new.req = arg[Loop].req /\ new.decision = arg[Loop].decision
    OBVIOUS
  <2> HIDE DEF new
  <2> QED BY <1>0, <2>1, <2>2, <2>3, AppendKeeps
<1>2. CASE ~SaveReceipt
  <2>1. pc[Loop] \in AfterReceipt /\ arg'[Loop] = arg[Loop]
    <3>1. CASE Begin
      BY <1>0, <3>1 DEF Begin, BeginList, BeginCreate, BeginRespond, Enter, Goto, Job, Ops
    <3>2. CASE \E t \in Threads : ThreadStep(t)
      BY <1>0, <3>2 DEF ThreadStep, Fetch, Install, LoadReceipts, SavePending,
         CachePending, Goto, Ops, Work
    <3>3. CASE ReturnList \/ Crash \/ UNCHANGED vars
      BY <1>0, <3>3 DEF ReturnList, Crash, vars, Goto
    <3>4. CASE Respond
      BY <1>0, <1>2, <3>4 DEF Respond, RespondNotFound, ClearPending, AuditDecision,
         RememberProvider, RememberTag, Goto
    <3> QED BY <3>1, <3>2, <3>3, <3>4 DEF Next
  <2>2. PICK i \in 1..Len(diskReceipts) :
            /\ diskReceipts[i].req = arg[Loop].req
            /\ diskReceipts[i].decision = arg[Loop].decision
    BY <2>1 DEF ReceiptFirst
  <2>3. i \in 1..Len(diskReceipts') /\ diskReceipts'[i] = diskReceipts[i]
    BY ReceiptsStep
  <2> QED BY <2>1, <2>2, <2>3
<1> QED BY <1>1, <1>2

LEMMA PreferenceStep ==
    TypeOK /\ JobsMatch /\ ReceiptFirst /\ PreferenceHasReceipt /\ [Next]_vars
        => PreferenceHasReceipt'
<1> SUFFICES ASSUME TypeOK, JobsMatch, ReceiptFirst, PreferenceHasReceipt, [Next]_vars,
                    NEW k \in Providers \cup Tags, prefs'[k] # Unset
             PROVE  \E i \in 1..Len(diskReceipts') :
                        /\ diskReceipts'[i].decision = prefs'[k]
                        /\ k \in Providers => ProviderOf[diskReceipts'[i].req] = k
    BY DEF PreferenceHasReceipt
<1>0. prefs \in [Providers \cup Tags -> Decisions \cup {Unset}]
  BY DEF TypeOK
<1>1. SUFFICES \E i \in 1..Len(diskReceipts) :
                   /\ diskReceipts[i].decision = prefs'[k]
                   /\ k \in Providers => ProviderOf[diskReceipts[i].req] = k
  BY <1>1, ReceiptsStep
<1>2. CASE prefs'[k] = prefs[k]
  BY <1>2 DEF PreferenceHasReceipt
<1>3. CASE prefs'[k] # prefs[k]
  <2>1. RememberProvider \/ RememberTag
    BY <1>3 DEF Next, vars, store, Begin, BeginList, BeginCreate, BeginRespond, Enter,
       ThreadStep, Fetch, Install, LoadReceipts, SavePending, CachePending, ReturnList,
       Respond, RespondNotFound, SaveReceipt, ClearPending, AuditDecision, Crash
  <2>2. PICK i \in 1..Len(diskReceipts) :
            /\ diskReceipts[i].req = arg[Loop].req
            /\ diskReceipts[i].decision = arg[Loop].decision
    BY <2>1 DEF RememberProvider, RememberTag, ReceiptFirst, AfterReceipt
  <2>3. prefs'[k] = arg[Loop].decision
    BY <1>0, <1>3, <2>1 DEF RememberProvider, RememberTag, SavePreference, Works, Fails
  <2>4. CASE RememberProvider
    BY <1>0, <1>3, <2>2, <2>3, <2>4 DEF RememberProvider, SavePreference, Works, Fails
  <2>5. CASE RememberTag
    <3>1. k \notin Providers
      <4>1. arg[Loop].forTag \in Tags
        BY <1>3, <2>5 DEF RememberTag, TypeOK, Work, Threads
      <4> QED BY <1>0, <1>3, <2>5, <4>1, LedgerAssumption
              DEF RememberTag, SavePreference, Works, Fails
    <3> QED BY <2>2, <2>3, <3>1
  <2> QED BY <2>1, <2>4, <2>5
<1> QED BY <1>2, <1>3

(* The strengthened invariant of the receipts and preferences. *)
THEOREM SpecInv == Spec => []IInv
<1>1. IInv /\ [Next]_vars => IInv'
  BY TypeStep, JobsStep, ReceiptFirstStep, PreferenceStep DEF IInv
<1> QED BY InitInv, <1>1, PTL DEF Spec

(* The variables keep their types for every set of threads and requests. *)
THEOREM TypeCorrect == Spec => []TypeOK
<1>1. IInv => TypeOK
  BY DEF IInv
<1> QED BY SpecInv, <1>1, PTL

(* Whatever writes fail and wherever the process is killed, a remembered    *)
(* preference (routes/consent.py:158-181) rests on a stored receipt with    *)
(* that decision, for that provider.                                        *)
THEOREM PreferencesRestOnReceipts == Spec => []PreferenceHasReceipt
<1>1. IInv => PreferenceHasReceipt
  BY DEF IInv
<1> QED BY SpecInv, <1>1, PTL

(* respond_to_consent deletes the pending row only once the receipt is in   *)
(* the table, so a crash in between loses no answer.                        *)
THEOREM AnswerBeforeDeletion == Spec => DeletedOnlyOnceAnswered
<1>1. IInv /\ [Next]_vars => [\A r \in diskPending \ diskPending' : Answered(r)]_vars
  <2> SUFFICES ASSUME IInv, [Next]_vars, NEW r \in diskPending \ diskPending'
               PROVE  Answered(r)
    OBVIOUS
  <2>1. ClearPending
    BY DEF Next, vars, store, Begin, BeginList, BeginCreate, BeginRespond, Enter,
       ThreadStep, Fetch, Install, LoadReceipts, SavePending, CachePending, ReturnList,
       Respond, RespondNotFound, SaveReceipt, AuditDecision, RememberProvider,
       RememberTag, Crash
  <2>2. r = arg[Loop].req
    BY <2>1 DEF ClearPending
  <2> QED BY <2>1, <2>2 DEF ClearPending, IInv, ReceiptFirst, AfterReceipt, Answered
<1> QED BY SpecInv, <1>1, PTL DEF Spec, DeletedOnlyOnceAnswered

-----------------------------------------------------------------------------
(* The cache and the table.  A thread that never came in is idle, only a     *)
(* loading thread holds rows, and the loop runs no tool of the bot.  What is *)
(* in the table and not in the cache is on its way there (Served), and, with *)
(* the loop alone, nothing reaches the cache but from the table (Backed).    *)
Roles ==
    /\ \A w \in Workers : arg[w] = Job("list", Unset) => pc[w] = "idle"
    /\ \A t \in Threads : rows[t] # {} => pc[t] = "install"
    /\ arg[Loop].op # "hold" /\ (arg[Loop].op # "list" => arg[Loop].req \in created)

OnItsWay(r) ==
    \E t \in Threads : \/ pc[t] = "fetch"
                       \/ r \in rows[t]
                       \/ pc[t] = "cache" /\ arg[t].req = r

Served == faults = 0 /\ loaded => \A r \in diskPending \ cachePending : OnItsWay(r)

Backed ==
    LoopAlone => /\ cachePending \subseteq diskPending /\ rows[Loop] \subseteq diskPending
                 /\ pc[Loop] = "cache" => arg[Loop].req \in diskPending

Undisturbed == LoopAlone /\ faults = 0 /\ restarts = 0

NothingTwice ==
    /\ \A i \in 1..Len(diskReceipts) : diskReceipts[i].req \in created
    /\ arg[Loop].op = "create" /\ pc[Loop] # "idle" => ~Answered(arg[Loop].req)
    /\ \A r \in diskPending \cup cachePending :
          Answered(r) => pc[Loop] = "clear" /\ arg[Loop].req = r
    /\ \A i, j \in 1..Len(diskReceipts) :
          diskReceipts[i].req = diskReceipts[j].req => i = j

Once == Undisturbed => NothingTwice

CInv == IInv /\ Roles /\ Served /\ Backed /\ Once

LEMMA InitCache == Init => CInv
<1> SUFFICES ASSUME Init PROVE CInv
  OBVIOUS
<1> USE DEF Init
<1>1. Roles
  BY DEF Roles, Threads, Job
<1>2. Served /\ Backed
  BY DEF Served, Backed, Threads
<1>3. Once
  BY DEF Once, NothingTwice, Answered, Threads
<1> QED BY <1>1, <1>2, <1>3, InitInv DEF CInv

LEMMA RolesStep ==
    ASSUME TypeOK, JobsMatch, Roles, [Next]_vars
    PROVE  Roles'
<1> USE LedgerAssumption DEF Threads
<1>0. /\ pc \in [Threads -> Labels] /\ arg \in [Threads -> Work]
      /\ rows \in [Threads -> SUBSET Requests]
  BY DEF TypeOK
<1>1. ASSUME NEW t \in Threads, NEW work \in Work, Enter(t, work),
             t # Loop => work.op # "list",
             t = Loop => work.op # "hold" /\ (work.op # "list" => work.req \in created'),
             created \subseteq created'
      PROVE  Roles'
  <2>1. /\ pc[t] = "idle" /\ rows' = rows /\ arg' = [arg EXCEPT ![t] = work]
        /\ \A u \in Threads : u # t => pc'[u] = pc[u] /\ arg'[u] = arg[u]
        /\ arg'[t] = work
    BY <1>0, <1>1 DEF Enter, Goto
  <2>2. \A w \in Workers : arg'[w] = Job("list", Unset) => pc'[w] = "idle"
    BY <1>1, <2>1 DEF Roles, Job
  <2>3. \A u \in Threads : rows'[u] # {} => pc'[u] = "install"
    BY <2>1 DEF Roles
  <2>4. arg'[Loop].op # "hold" /\ (arg'[Loop].op # "list" => arg'[Loop].req \in created')
    BY <1>1, <2>1 DEF Roles
  <2> QED BY <2>2, <2>3, <2>4 DEF Roles
<1>2. CASE Begin
  <2>1. CASE BeginList
    BY <2>1, <1>1 DEF BeginList, Job, Work, Ops
  <2>2. ASSUME NEW t \in Threads, NEW op \in {"create", "hold"}, NEW r \in Requests,
               BeginCreate(t, op, r)
        PROVE  Roles'
    BY <2>2, <1>1 DEF BeginCreate, Job, Work, Ops
  <2>3. ASSUME NEW r \in Requests, NEW d \in Decisions, NEW p \in BOOLEAN,
               NEW g \in Tags \cup {Unset}, BeginRespond(r, d, p, g)
        PROVE  Roles'
    BY <2>3, <1>1 DEF BeginRespond, Work, Ops
  <2> QED BY <1>2, <2>1, <2>2, <2>3 DEF Begin
<1>3. ASSUME NEW t \in Threads, ThreadStep(t) PROVE Roles'
  <2>1. pc[t] # "idle" /\ UNCHANGED <<arg, created>>
        /\ \A u \in Threads : u # t => pc'[u] = pc[u] /\ rows'[u] = rows[u]
    BY <1>0, <1>3 DEF ThreadStep, Fetch, Install, LoadReceipts, SavePending, CachePending, Goto
  <2>2. rows'[t] # {} => pc'[t] = "install"
    BY <1>0, <1>3 DEF ThreadStep, Fetch, Install, LoadReceipts, SavePending, CachePending,
                      Goto, Roles
  <2> QED BY <2>1, <2>2 DEF Roles
<1>4. CASE ReturnList \/ Respond
  <2>1. pc[Loop] # "idle" /\ pc[Loop] # "install" /\ UNCHANGED <<arg, created, rows>>
        /\ \A u \in Threads : u # Loop => pc'[u] = pc[u]
    BY <1>0, <1>4 DEF ReturnList, Respond, RespondNotFound, SaveReceipt, ClearPending,
                      AuditDecision, RememberProvider, RememberTag, Goto
  <2> QED BY <2>1 DEF Roles
<1>5. CASE Crash
  BY <1>5 DEF Crash, Roles
<1>6. CASE UNCHANGED vars
  BY <1>6 DEF vars, Roles
<1> QED BY <1>2, <1>3, <1>4, <1>5, <1>6 DEF Next

(* A loop that is alone has been alone.                                     *)
LEMMA AloneBefore ==
    ASSUME TypeOK, Roles, [Next]_vars, LoopAlone'
    PROVE  LoopAlone /\ \A w \in Workers : pc[w] = "idle"
<1> USE LedgerAssumption DEF Threads
<1>0. arg \in [Threads -> Work]
  BY DEF TypeOK
<1>1. ASSUME NEW w \in Workers, arg'[w] # arg[w]
      PROVE  arg'[w].op # "list"
  <2>1. CASE Begin
    BY <1>0, <1>1, <2>1 DEF Begin, BeginList, BeginCreate, BeginRespond, Enter, Job
  <2>2. CASE ~Begin
    BY <1>1, <2>2 DEF Next, vars, ThreadStep, Fetch, Install, LoadReceipts, SavePending,
                      CachePending, ReturnList, Respond, RespondNotFound, SaveReceipt,
                      ClearPending, AuditDecision, RememberProvider, RememberTag, Crash
  <2> QED BY <2>1, <2>2
<1>2. LoopAlone
  <2>1. \A w \in Workers : arg'[w] = Job("list", Unset)
    BY DEF LoopAlone
  <2>2. Job("list", Unset).op = "list"
    BY DEF Job
  <2>3. \A w \in Workers : arg[w] = Job("list", Unset)
    BY <1>1, <2>1, <2>2
  <2> QED BY <2>3 DEF LoopAlone
<1> QED BY <1>2 DEF LoopAlone, Roles

(* With the loop alone nothing is in the cache, or on its way, but a row.    *)
LEMMA BackedStep ==
    ASSUME TypeOK, JobsMatch, Roles, Backed, [Next]_vars
    PROVE  Backed'
<1> SUFFICES ASSUME LoopAlone'
             PROVE  /\ cachePending' \subseteq diskPending' /\ rows'[Loop] \subseteq diskPending'
                    /\ pc'[Loop] = "cache" => arg'[Loop].req \in diskPending'
  BY DEF Backed
<1> USE DEF Threads
<1>0. /\ pc \in [Threads -> Labels] /\ arg \in [Threads -> Work]
      /\ rows \in [Threads -> SUBSET Requests]
  BY DEF TypeOK
<1>1. /\ cachePending \subseteq diskPending /\ rows[Loop] \subseteq diskPending
      /\ pc[Loop] = "cache" => arg[Loop].req \in diskPending
      /\ \A w \in Workers : pc[w] = "idle"
  BY AloneBefore DEF Backed
<1>2. CASE Begin
  BY <1>0, <1>1, <1>2 DEF Begin, BeginList, BeginCreate, BeginRespond, Enter, Goto, store, Job,
                          Roles, JobsMatch
<1>3. ASSUME NEW t \in Threads, ThreadStep(t)
      PROVE  /\ cachePending' \subseteq diskPending' /\ rows'[Loop] \subseteq diskPending'
             /\ pc'[Loop] = "cache" => arg'[Loop].req \in diskPending'
  <2>1. t = Loop
    BY <1>1, <1>3 DEF ThreadStep, Fetch, Install, LoadReceipts, SavePending, CachePending
  <2>2. CASE Fetch(Loop)
    BY <1>0, <1>1, <2>2 DEF Fetch, Goto, store, cache, JobsMatch, Work, Ops
  <2>3. CASE \E r \in Requests : Install(Loop, r)
    BY <1>0, <1>1, <2>3 DEF Install, store
  <2>4. CASE LoadReceipts(Loop)
    BY <1>0, <1>1, <2>4 DEF LoadReceipts, Goto, store, Work, Ops
  <2>5. CASE SavePending(Loop)
    BY <1>0, <1>1, <2>5 DEF SavePending, Goto, cache
  <2>6. CASE CachePending(Loop)
    BY <1>0, <1>1, <2>6 DEF CachePending, Goto, store, JobsMatch, Roles, Ops
  <2> QED BY <1>3, <2>1, <2>2, <2>3, <2>4, <2>5, <2>6 DEF ThreadStep
<1>4. CASE ClearPending
  BY <1>0, <1>1, <1>4 DEF ClearPending, Goto, Roles
<1>5. CASE ReturnList \/ (Respond /\ ~ClearPending)
  BY <1>0, <1>1, <1>5 DEF ReturnList, Respond, RespondNotFound, SaveReceipt, AuditDecision,
                          RememberProvider, RememberTag, Goto, store, cache
<1>6. CASE Crash
  BY <1>6 DEF Crash, store
<1>7. CASE UNCHANGED vars
  BY <1>1, <1>7 DEF vars, store, cache
<1> QED BY <1>2, <1>3, <1>4, <1>5, <1>6, <1>7 DEF Next

(* No failure is ever taken back. *)
LEMMA FaultsStep ==
    ASSUME [Next]_vars
    PROVE  faults' \in {faults, faults + 1}
<1>1. ASSUME NEW t \in Threads, ThreadStep(t)
      PROVE  faults' \in {faults, faults + 1}
  BY <1>1 DEF ThreadStep, Fetch, Install, LoadReceipts, SavePending, CachePending, Works, Fails,
              bounds
<1>2. CASE Respond
  BY <1>2 DEF Respond, RespondNotFound, SaveReceipt, ClearPending, AuditDecision,
     RememberProvider, RememberTag, SavePreference, Works, Fails, bounds
<1>3. CASE Begin \/ ReturnList \/ Crash \/ UNCHANGED vars
  BY <1>3 DEF Begin, BeginList, BeginCreate, BeginRespond, Enter, ReturnList, Crash, vars, bounds
<1> QED BY <1>1, <1>2, <1>3 DEF Next

(* A row that is not in the cache is on its way there, whoever loads.        *)
LEMMA ServedStep ==
    ASSUME TypeOK, JobsMatch, Roles, Served, [Next]_vars
    PROVE  Served'
<1> SUFFICES ASSUME faults' = 0, loaded', NEW r \in diskPending' \ cachePending'
             PROVE  OnItsWay(r)'
  BY DEF Served
<1> USE DEF Threads
<1>0. /\ pc \in [Threads -> Labels] /\ arg \in [Threads -> Work]
      /\ rows \in [Threads -> SUBSET Requests] /\ faults \in Nat
  BY DEF TypeOK
<1>1. faults = 0
  BY <1>0, FaultsStep
<1>2. CASE \E t \in Threads, work \in Work : Enter(t, work)
  <2>1. PICK t \in Threads, work \in Work : Enter(t, work)
    BY <1>2
  <2>2. CASE ~loaded
    BY <1>0, <2>1, <2>2 DEF Enter, Goto, OnItsWay
  <2>3. CASE loaded
    <3>1. PICK u \in Threads :
               pc[u] = "fetch" \/ r \in rows[u] \/ (pc[u] = "cache" /\ arg[u].req = r)
      <4>1. diskPending' = diskPending /\ cachePending' = cachePending
        BY <2>1 DEF Enter, store
      <4>2. OnItsWay(r)
        BY <1>1, <2>3, <4>1 DEF Served
      <4> QED BY <4>2 DEF OnItsWay
    <3>2. u # t
      BY <2>1, <3>1 DEF Enter, Roles
    <3> QED BY <1>0, <2>1, <3>1, <3>2 DEF Enter, Goto, OnItsWay
  <2> QED BY <2>2, <2>3
<1>3. ASSUME NEW t \in Threads, ThreadStep(t) PROVE OnItsWay(r)'
  <2>1. CASE Fetch(t)
    <3>1. faults' # faults + 1 /\ rows' = [rows EXCEPT ![t] = diskPending] /\ diskPending' = diskPending
      BY <1>1, <2>1 DEF Fetch, Fails, store
    <3> QED BY <1>0, <3>1 DEF OnItsWay
  <2>2. CASE ~Fetch(t) /\ r \in diskPending
    <3>1. loaded /\ r \notin cachePending
      BY <1>3, <2>2 DEF ThreadStep, Install, LoadReceipts, SavePending, CachePending, cache
    <3>2. PICK u \in Threads :
               pc[u] = "fetch" \/ r \in rows[u] \/ (pc[u] = "cache" /\ arg[u].req = r)
      <4>1. OnItsWay(r)
        BY <1>1, <2>2, <3>1 DEF Served
      <4> QED BY <4>1 DEF OnItsWay
    <3>3. UNCHANGED arg /\ \A v \in Threads : v # t => pc'[v] = pc[v] /\ rows'[v] = rows[v]
      BY <1>0, <1>3 DEF ThreadStep, Fetch, Install, LoadReceipts, SavePending, CachePending, Goto
    <3>4. CASE u # t
      BY <3>2, <3>3, <3>4 DEF OnItsWay
    <3>5. CASE u = t
      <4>1. CASE \E x \in Requests : Install(t, x)
        BY <1>0, <3>2, <3>5, <4>1 DEF Install, Roles, OnItsWay
      <4>2. CASE LoadReceipts(t) \/ SavePending(t)
        BY <3>2, <3>5, <4>2 DEF LoadReceipts, SavePending, Roles, OnItsWay
      <4>3. CASE CachePending(t)
        BY <3>2, <3>5, <4>3 DEF CachePending, Roles
      <4> QED BY <1>3, <2>2, <4>1, <4>2, <4>3 DEF ThreadStep
    <3> QED BY <3>4, <3>5
  <2>3. CASE r \notin diskPending
    <3>1. SavePending(t) /\ r = arg[t].req
      BY <1>3, <2>3 DEF ThreadStep, Fetch, Install, LoadReceipts, SavePending, CachePending, store
    <3> QED BY <1>0, <1>1, <3>1 DEF SavePending, Fails, Goto, OnItsWay
  <2> QED BY <2>1, <2>2, <2>3
<1>4. CASE ReturnList \/ Respond
  <2>1. /\ pc[Loop] \notin {"fetch", "cache", "install"} /\ UNCHANGED <<arg, rows, loaded>>
        /\ \A u \in Threads : u # Loop => pc'[u] = pc[u]
    BY <1>0, <1>4 DEF ReturnList, Respond, RespondNotFound, SaveReceipt, ClearPending,
       AuditDecision, RememberProvider, RememberTag, Goto, cache
  <2>2. r \in diskPending \ cachePending
    <3>1. CASE ClearPending
      BY <1>1, <3>1 DEF ClearPending, Fails
    <3>2. CASE ReturnList \/ (Respond /\ ~ClearPending)
      BY <3>2 DEF ReturnList, Respond, RespondNotFound, SaveReceipt, AuditDecision,
                  RememberProvider, RememberTag, store, cache
    <3> QED BY <1>4, <3>1, <3>2
  <2>3. PICK u \in Threads :
               pc[u] = "fetch" \/ r \in rows[u] \/ (pc[u] = "cache" /\ arg[u].req = r)
    <3>1. OnItsWay(r)
      BY <1>1, <2>1, <2>2 DEF Served
    <3> QED BY <3>1 DEF OnItsWay
  <2>4. u # Loop
    BY <2>1, <2>3 DEF Roles
  <2> QED BY <2>1, <2>3, <2>4 DEF OnItsWay
<1>5. CASE Crash
  BY <1>5 DEF Crash
<1>6. CASE UNCHANGED vars
  BY <1>1, <1>6 DEF vars, store, cache, bounds, Served, OnItsWay
<1>7. Begin => \E t \in Threads, work \in Work : Enter(t, work)
  BY <1>0, LedgerAssumption DEF Begin, BeginList, BeginCreate, BeginRespond, Job, Work, Ops
<1> QED BY <1>2, <1>3, <1>4, <1>5, <1>6, <1>7 DEF Next

(* Undisturbed, no request is answered twice.                               *)
LEMMA OnceStep ==
    ASSUME TypeOK, JobsMatch, Roles, Backed, Once, [Next]_vars
    PROVE  Once'
<1> SUFFICES ASSUME Undisturbed' PROVE NothingTwice'
  BY DEF Once
<1> USE DEF Threads
<1>0. /\ pc \in [Threads -> Labels] /\ arg \in [Threads -> Work]
      /\ rows \in [Threads -> SUBSET Requests] /\ diskReceipts \in Seq(Receipt)
      /\ faults \in Nat /\ restarts \in Nat
  BY LedgerAssumption DEF TypeOK
<1>1. LoopAlone /\ faults = 0 /\ faults' = 0 /\ \A w \in Workers : pc[w] = "idle"
  BY <1>0, AloneBefore, FaultsStep DEF Undisturbed
<1>2. ~Crash
  BY <1>0 DEF Crash, Undisturbed
<1>3. restarts = 0
  BY <1>2 DEF Undisturbed, Next, vars, bounds, Begin, BeginList, BeginCreate, BeginRespond, Enter,
     ThreadStep, Fetch, Install, LoadReceipts, SavePending, CachePending, ReturnList, Respond,
     RespondNotFound, SaveReceipt, ClearPending, AuditDecision, RememberProvider, RememberTag,
     SavePreference, Works, Fails
<1>4. NothingTwice /\ rows[Loop] \subseteq diskPending
  BY <1>1, <1>3 DEF Undisturbed, Once, Backed
<1>5. ASSUME UNCHANGED diskReceipts, created \subseteq created',
             arg'[Loop].op = "create" /\ pc'[Loop] # "idle" => ~Answered(arg'[Loop].req),
             \A r \in diskPending' \cup cachePending' :
                Answered(r) => pc'[Loop] = "clear" /\ arg'[Loop].req = r
      PROVE  NothingTwice'
  BY <1>4, <1>5 DEF NothingTwice, Answered
<1>6. CASE Begin
  <2>1. /\ UNCHANGED <<diskReceipts, diskPending, cachePending>> /\ created \subseteq created'
    BY <1>6 DEF Begin, BeginList, BeginCreate, BeginRespond, Enter, store
  <2>2. ASSUME NEW t \in Threads, NEW op \in {"create", "hold"}, NEW r \in Requests,
               BeginCreate(t, op, r)
        PROVE  t = Loop /\ arg'[Loop].req = r /\ r \notin created
    <3>1. arg'[t] = Job(op, r) /\ r \notin created
      BY <1>0, <2>2 DEF BeginCreate, Enter
    <3>2. \A w \in Workers : arg'[w] = Job("list", Unset)
      BY DEF Undisturbed, LoopAlone
    <3>3. Job(op, r).op = op /\ Job("list", Unset).op = "list" /\ Job(op, r).req = r
      BY DEF Job
    <3>4. t \notin Workers
      BY <3>1, <3>2, <3>3
    <3> QED BY <3>1, <3>3, <3>4
  <2>3. pc[Loop] = "idle"
    BY <1>6, <2>2 DEF Begin, BeginList, BeginCreate, BeginRespond, Enter
  <2>4. \A r \in diskPending \cup cachePending : ~Answered(r)
    BY <1>4, <2>3 DEF NothingTwice
  <2>5. arg'[Loop].op = "create" => arg'[Loop].req \notin created
    <3>1. CASE \E t \in Threads, op \in {"create", "hold"}, r \in Requests : BeginCreate(t, op, r)
      BY <2>2, <3>1
    <3>2. CASE BeginList
      BY <1>0, <3>2 DEF BeginList, Enter, Job
    <3>3. CASE \E r \in Requests, d \in Decisions, p \in BOOLEAN, g \in Tags \cup {Unset} :
                  BeginRespond(r, d, p, g)
      BY <1>0, <3>3 DEF BeginRespond, Enter
    <3> QED BY <1>6, <3>1, <3>2, <3>3 DEF Begin
  <2>6. arg'[Loop].op = "create" => ~Answered(arg'[Loop].req)
    BY <1>4, <2>5 DEF NothingTwice, Answered
  <2> QED BY <2>1, <2>4, <2>6, <1>5
<1>7. ASSUME NEW t \in Threads, ThreadStep(t) PROVE NothingTwice'
  <2>1. /\ t = Loop /\ pc[Loop] \notin {"idle", "clear"}
        /\ UNCHANGED <<diskReceipts, created, arg>>
    BY <1>0, <1>1, <1>7 DEF ThreadStep, Fetch, Install, LoadReceipts, SavePending, CachePending,
                            store
  <2>2. \A r \in diskPending \cup cachePending : ~Answered(r)
    BY <1>4, <2>1 DEF NothingTwice
  <2>3. arg[Loop].op = "create" => ~Answered(arg[Loop].req)
    BY <1>4, <2>1 DEF NothingTwice
  <2>4. /\ diskPending' \subseteq diskPending \cup {x \in {arg[Loop].req} : pc[Loop] = "create"}
        /\ cachePending' \subseteq cachePending \cup rows[Loop]
              \cup {x \in {arg[Loop].req} : pc[Loop] \in {"cache", "hold"}}
    BY <1>7, <2>1 DEF ThreadStep, Fetch, Install, LoadReceipts, SavePending, CachePending,
                      store, cache
  <2>5. pc[Loop] \in {"create", "cache", "hold"} => arg[Loop].op = "create"
    BY DEF JobsMatch, Roles, Ops
  <2>6. \A r \in diskPending' \cup cachePending' : ~Answered(r)
    BY <1>4, <2>2, <2>3, <2>4, <2>5
  <2> QED BY <2>1, <2>3, <2>6, <1>5
<1>8. CASE SaveReceipt
  <2> DEFINE new == [req |-> arg[Loop].req, decision |-> arg[Loop].decision]
  <2>1. /\ new \in Receipt /\ new.req = arg[Loop].req /\ arg[Loop].op = "respond"
        /\ arg[Loop].req \in created /\ arg[Loop].req \in cachePending
    BY <1>8 DEF SaveReceipt, JobsMatch, Receipt, Roles, Ops
  <2>2. /\ diskReceipts' = Append(diskReceipts, new) /\ pc' = [pc EXCEPT ![Loop] = "clear"]
        /\ UNCHANGED <<diskPending, cachePending, arg, created>>
    BY <1>1, <1>8 DEF SaveReceipt, Fails, Goto
  <2>3. \A r \in diskPending \cup cachePending : ~Answered(r)
    BY <1>4, <1>8 DEF NothingTwice, SaveReceipt
  <2> HIDE DEF new
  <2>4. /\ Len(diskReceipts) \in Nat /\ Len(diskReceipts') = Len(diskReceipts) + 1
        /\ \A i \in 1..Len(diskReceipts) : diskReceipts'[i] = diskReceipts[i]
        /\ diskReceipts'[Len(diskReceipts) + 1] = new
    BY <1>0, <2>1, <2>2, AppendKeeps
  <2>5. \A i \in 1..Len(diskReceipts) : diskReceipts[i].req # new.req
    BY <2>1, <2>3 DEF Answered
  <2>6. \A i \in 1..Len(diskReceipts') : diskReceipts'[i].req \in created'
    BY <1>4, <2>1, <2>2, <2>4 DEF NothingTwice
  <2>7. \A i, j \in 1..Len(diskReceipts') :
            diskReceipts'[i].req = diskReceipts'[j].req => i = j
    BY <1>4, <2>4, <2>5 DEF NothingTwice
  <2>8. \A r \in diskPending' \cup cachePending' :
            Answered(r)' => pc'[Loop] = "clear" /\ arg'[Loop].req = r
    <3> SUFFICES ASSUME NEW r \in diskPending \cup cachePending, NEW i \in 1..Len(diskReceipts'),
                        diskReceipts'[i].req = r
                 PROVE  pc'[Loop] = "clear" /\ arg[Loop].req = r
      BY <2>2 DEF Answered
    <3>1. i = Len(diskReceipts) + 1
      BY <2>3, <2>4 DEF Answered
    <3> QED BY <1>0, <2>1, <2>2, <2>4, <3>1
  <2> QED BY <2>1, <2>2, <2>6, <2>7, <2>8 DEF NothingTwice
<1>9. CASE ClearPending
  <2>1. /\ UNCHANGED <<diskReceipts, arg, created>> /\ pc' = [pc EXCEPT ![Loop] = "audit"]
        /\ diskPending' = diskPending \ {arg[Loop].req}
        /\ cachePending' = cachePending \ {arg[Loop].req}
        /\ pc[Loop] = "clear"
    BY <1>1, <1>9 DEF ClearPending, Fails, Goto
  <2>2. \A r \in diskPending' \cup cachePending' : ~Answered(r)
    BY <1>4, <2>1 DEF NothingTwice
  <2>3. arg[Loop].op = "create" => ~Answered(arg[Loop].req)
    BY <1>4, <2>1 DEF NothingTwice
  <2> QED BY <2>1, <2>2, <2>3, <1>5
<1>10. CASE ReturnList \/ (Respond /\ ~SaveReceipt /\ ~ClearPending)
  <2>1. /\ UNCHANGED <<diskReceipts, arg, created, diskPending, cachePending>>
        /\ pc[Loop] \notin {"idle", "clear"}
    BY <1>10 DEF ReturnList, Respond, RespondNotFound, AuditDecision, RememberProvider,
                 RememberTag, store, cache
  <2>2. /\ \A r \in diskPending \cup cachePending : ~Answered(r)
        /\ arg[Loop].op = "create" => ~Answered(arg[Loop].req)
    BY <1>4, <2>1 DEF NothingTwice
  <2> QED BY <2>1, <2>2, <1>5
<1>11. CASE UNCHANGED vars
  BY <1>4, <1>11, <1>5 DEF vars, store, cache, NothingTwice
<1> QED BY <1>2, <1>6, <1>7, <1>8, <1>9, <1>10, <1>11 DEF Next

(* The strengthened invariant of the cache and the table. *)
THEOREM SpecCache == Spec => []CInv
<1>1. CInv /\ [Next]_vars => CInv'
  <2> SUFFICES ASSUME CInv, [Next]_vars PROVE CInv'
    OBVIOUS
  <2>1. IInv'
    BY TypeStep, JobsStep, ReceiptFirstStep, PreferenceStep DEF CInv, IInv
  <2>2. TypeOK /\ JobsMatch
    BY DEF CInv, IInv
  <2>3. Roles' /\ Served' /\ Backed' /\ Once'
    BY <2>2, RolesStep, ServedStep, BackedStep, OnceStep DEF CInv
  <2> QED BY <2>1, <2>3 DEF CInv
<1> QED BY InitCache, <1>1, PTL DEF Spec

(* At rest, and with the loop alone, what is offered for decision is a row   *)
(* of the table, whatever failed (routes/consent.py:126).                   *)
THEOREM OfferedIsStored == Spec => []CacheBacked
<1>1. CInv => CacheBacked
  BY DEF CInv, Backed, CacheBacked
<1> QED BY SpecCache, <1>1, PTL

(* At rest, every row is offered for decision, with any number of threads    *)
(* racing to load the ledger (routes/consent.py:39).                        *)
THEOREM StoredIsOffered == Spec => []PendingServed
<1>1. CInv => PendingServed
  <2> SUFFICES ASSUME CInv, faults = 0, loaded, Quiet, NEW r \in diskPending, r \notin cachePending
               PROVE  FALSE
    BY DEF PendingServed
  <2>1. OnItsWay(r)
    BY DEF CInv, Served
  <2> QED BY <2>1 DEF OnItsWay, Quiet, CInv, Roles
<1> QED BY SpecCache, <1>1, PTL

(* Undisturbed, a request is answered once (models/consent.py:71).          *)
THEOREM OneAnswerEach == Spec => []AnsweredOnce
<1>1. CInv => AnsweredOnce
  BY DEF CInv, Once, Undisturbed, NothingTwice, AnsweredOnce
<1> QED BY SpecCache, <1>1, PTL

-----------------------------------------------------------------------------
(* The chats with the local model                                           *)
Steps == {"new", "asked", "thinking", "calling", "keeping", "kept", "evicting"} \cup Ended
Marks == {"limit", "conversation"}
Entry == [id : {ConversationOf[c] : c \in Chats}, object : Chats]

ChatTypes ==
    /\ at \in [Chats -> Steps]
    /\ object \in [Chats -> Chats]
    /\ left \in [Chats -> Nat] /\ made \in [Chats -> Nat]
    /\ final = [c \in Chats |-> final[c]]
    /\ limit \in Nat
    /\ table \in Seq(Entry)
    /\ overtaken \in [Chats -> SUBSET Marks]

(* An AgentState stays with its conversation.                               *)
Kin ==
    /\ \A c \in Chats : ConversationOf[object[c]] = ConversationOf[c]
    /\ \A i \in DOMAIN table : ConversationOf[table[i].object] = table[i].id

(* What overtook a chat under way is noted, and nothing else did.           *)
Noted(c) ==
    /\ "limit" \notin overtaken[c] => limit = LimitOf[c]
    /\ "conversation" \notin overtaken[c] =>
          \A d \in UnderWay \ {c} : ConversationOf[d] # ConversationOf[c]

Alone(c) == c \in UnderWay /\ overtaken[c] \cap {"limit", "conversation"} = {}

(* A chat that nothing overtook uses its rounds one for each call, and has  *)
(* its own answer.                                                          *)
Counts(c) ==
    /\ at[c] \in {"thinking", "calling"} =>
          left[c] + made[object[c]] = LimitOf[c] + 1 /\ made[object[c]] <= LimitOf[c]
    /\ at[c] \in {"keeping", "kept", "evicting"} => final[object[c]] \in {c, Sorry}

ChatsInv ==
    /\ ChatTypes /\ Kin
    /\ \A c \in UnderWay : Noted(c)
    /\ \A c \in Chats : Alone(c) => Counts(c)

(* No chat is under way at the start.                                       *)
LEMMA ChatsInit == LocalInit => ChatsInv
<1> SUFFICES ASSUME LocalInit PROVE ChatsInv
  OBVIOUS
<1> USE DEF LocalInit
<1>1. UnderWay = {}
  BY DEF UnderWay
<1>2. ChatTypes
  BY DEF ChatTypes, Steps
<1>3. Kin
  BY DEF Kin
<1> QED BY <1>1, <1>2, <1>3 DEF ChatsInv, Alone

(* Other chats than c work on other AgentStates, if nothing overtook them.  *)
LEMMA OthersAlone ==
    ASSUME ChatsInv, NEW c \in UnderWay, NEW d \in UnderWay \ {c}, Alone(d),
           NEW o \in Chats, ConversationOf[o] = ConversationOf[c]
    PROVE  object[d] # o
<1>1. "conversation" \notin overtaken[d]
  BY DEF Alone
<1>2. ConversationOf[c] # ConversationOf[d]
  BY <1>1 DEF ChatsInv, Noted, Alone
<1>3. d \in Chats /\ ConversationOf[object[d]] = ConversationOf[d]
  BY DEF UnderWay, ChatsInv, Kin
<1> QED BY <1>2, <1>3

(* clawdbot_chat changes the limit under the chats that run, and notes for  *)
(* each of them what it changed.                                            *)
LEMMA AskStep == ASSUME ChatsInv, NEW c \in Chats, Ask(c) PROVE ChatsInv'
<1> DEFINE mine == {"conversation" : k \in {ConversationOf[c]} \cap Talking}
<1>1. /\ at[c] = "new" /\ at' = [at EXCEPT ![c] = "asked"]
      /\ limit' = LimitOf[c]
      /\ overtaken' = [Overtaking(c) EXCEPT ![c] = mine]
      /\ UNCHANGED <<object, left, made, final, table>>
  BY DEF Ask, Goes
<1>2. UnderWay' = UnderWay \cup {c} /\ c \notin UnderWay
  BY <1>1 DEF UnderWay, Ended, ChatsInv, ChatTypes
<1>3. overtaken'[c] = mine /\ mine \subseteq {"conversation"}
  BY <1>1 DEF Overtaking
<1>4. ASSUME NEW d \in UnderWay
      PROVE  /\ overtaken'[d] \subseteq Marks /\ overtaken[d] \subseteq overtaken'[d]
             /\ "limit" \notin overtaken'[d] => LimitOf[c] = LimitOf[d]
             /\ "conversation" \notin overtaken'[d] => ConversationOf[c] # ConversationOf[d]
  <2>1. d # c /\ d \in Chats
    BY <1>2 DEF UnderWay
  <2>2. overtaken'[d] = Overtaking(c)[d]
    BY <1>1, <2>1 DEF Overtaking
  <2>3. overtaken'[d] = overtaken[d] \cup
            ({"limit" : n \in {LimitOf[c]} \ {LimitOf[d]}}
             \cup {"conversation" : k \in {ConversationOf[c]} \cap {ConversationOf[d]}})
    BY <2>1, <2>2, <1>4 DEF Overtaking
  <2> QED BY <2>1, <2>3 DEF ChatsInv, ChatTypes, Marks
<1>5. ASSUME NEW d \in Chats \ (UnderWay \cup {c}) PROVE overtaken'[d] = overtaken[d]
  BY <1>1, <1>5 DEF Overtaking
<1>6. overtaken' \in [Chats -> SUBSET Marks]
  <2>1. overtaken' = [d \in Chats |-> overtaken'[d]]
    BY <1>1 DEF Overtaking
  <2>2. ASSUME NEW d \in Chats PROVE overtaken'[d] \in SUBSET Marks
    BY <1>3, <1>4, <1>5 DEF ChatsInv, ChatTypes, Marks
  <2> QED BY <2>1, <2>2
<1>7. ChatTypes'
  BY <1>1, <1>6, LocalChatsAssumption DEF ChatsInv, ChatTypes, Steps
<1>8. Kin'
  BY <1>1 DEF ChatsInv, Kin
<1>9. ASSUME NEW d \in UnderWay' PROVE Noted(d)'
  <2>1. CASE d = c
    <3>1. "conversation" \notin mine => \A x \in UnderWay : ConversationOf[x] # ConversationOf[c]
      BY DEF Talking
    <3> QED BY <2>1, <3>1, <1>1, <1>2, <1>3 DEF Noted
  <2>2. CASE d # c
    <3>1. d \in UnderWay
      BY <2>2, <1>2
    <3> QED BY <3>1, <1>1, <1>2, <1>4 DEF Noted, ChatsInv
  <2> QED BY <2>1, <2>2
<1>10. ASSUME NEW d \in Chats, Alone(d)' PROVE Counts(d)'
  <2>1. CASE d = c
    BY <2>1, <1>1 DEF Counts, ChatsInv, ChatTypes
  <2>2. CASE d # c
    <3>1. d \in UnderWay /\ at'[d] = at[d]
      BY <2>2, <1>1, <1>2, <1>10 DEF Alone, ChatsInv, ChatTypes
    <3>2. Alone(d)
      BY <3>1, <1>4, <1>10 DEF Alone
    <3> QED BY <3>1, <3>2, <1>1 DEF ChatsInv, Counts
  <2> QED BY <2>1, <2>2
<1> QED BY <1>7, <1>8, <1>9, <1>10 DEF ChatsInv

(* A step of a chat under way that goes on: the others, and what it is      *)
(* overtaken by, stay, and it changes its own AgentState alone.             *)
LEMMA GoesOn ==
    ASSUME ChatsInv, NEW c \in UnderWay, NEW step \in Steps,
           Goes(c, step), step \notin Ended \cup {"new"},
           UNCHANGED <<bot, overtaken>>,
           ChatTypes', Kin', \A d \in Chats \ {c} : object'[d] = object[d] /\ left'[d] = left[d],
           \A o \in Chats : o = object'[c] \/ (made'[o] = made[o] /\ final'[o] = final[o]),
           Alone(c) => Counts(c)'
    PROVE  ChatsInv'
<1>1. /\ c \in Chats /\ at' = [at EXCEPT ![c] = step]
      /\ botUser' = botUser /\ limit' = limit /\ overtaken' = overtaken
  BY DEF Goes, bot, UnderWay
<1>2. UnderWay' = UnderWay
  BY <1>1 DEF UnderWay, ChatsInv, ChatTypes
<1>3. \A d \in UnderWay' : Noted(d)'
  BY <1>1, <1>2 DEF ChatsInv, Noted
<1>4. ASSUME NEW d \in Chats, Alone(d)' PROVE Counts(d)'
  <2>1. Alone(d) /\ d \in UnderWay
    BY <1>1, <1>2, <1>4 DEF Alone
  <2>2. CASE d = c
    BY <2>1, <2>2
  <2>3. CASE d # c
    <3>1. object'[c] \in Chats /\ ConversationOf[object'[c]] = ConversationOf[c]
      BY <1>1 DEF Kin, ChatTypes
    <3>2. object[d] # object'[c] /\ object[d] \in Chats
      BY <2>1, <2>3, <3>1, OthersAlone DEF ChatsInv, ChatTypes
    <3>3. at'[d] = at[d]
      BY <2>3, <1>1 DEF ChatsInv, ChatTypes
    <3>4. object'[d] = object[d] /\ left'[d] = left[d] /\ made'[object[d]] = made[object[d]]
          /\ final'[object[d]] = final[object[d]]
      BY <2>3, <3>2
    <3>5. Counts(d)
      BY <2>1 DEF ChatsInv
    <3> QED BY <3>3, <3>4, <3>5 DEF Counts
  <2> QED BY <2>2, <2>3
<1> QED BY <1>3, <1>4 DEF ChatsInv

(* A conversation found in the table is resumed with its own AgentState.    *)
LEMMA ResumedObject ==
    ASSUME ChatsInv, NEW c \in Chats, Resumed(c) # {}
    PROVE  /\ table[CHOOSE i \in Resumed(c) : TRUE].object \in Chats
           /\ ConversationOf[table[CHOOSE i \in Resumed(c) : TRUE].object] = ConversationOf[c]
<1> DEFINE k == CHOOSE i \in Resumed(c) : TRUE
<1>1. k \in Resumed(c)
  OBVIOUS
<1> HIDE DEF k
<1>2. k \in DOMAIN table /\ table[k].id = ConversationOf[c]
  BY <1>1 DEF Resumed
<1>3. table[k] \in Entry
  BY <1>2 DEF ChatsInv, ChatTypes
<1>4. table[k].object \in Chats /\ ConversationOf[table[k].object] = ConversationOf[c]
  BY <1>2, <1>3 DEF ChatsInv, Kin, Entry
<1> QED BY <1>4 DEF k

(* Resuming or starting a conversation sets the counter of its AgentState   *)
(* back.                                                                    *)
LEMMA BeginsStep == ASSUME ChatsInv, NEW c \in Chats, Resume(c) PROVE ChatsInv'
<1> DEFINE o == IF Resumed(c) = {} THEN c ELSE table[CHOOSE i \in Resumed(c) : TRUE].object
<1>1. /\ at[c] = "asked" /\ Goes(c, "thinking")
      /\ object' = [object EXCEPT ![c] = o]
      /\ made' = [made EXCEPT ![object'[c]] = 0]
      /\ left' = [left EXCEPT ![c] = limit + 1]
      /\ UNCHANGED <<bot, final, table, overtaken>>
  BY DEF Resume
<1>2. o \in Chats /\ ConversationOf[o] = ConversationOf[c]
  BY ResumedObject
<1> HIDE DEF o
<1>3. c \in UnderWay /\ at' = [at EXCEPT ![c] = "thinking"]
  BY <1>1 DEF UnderWay, Ended, Goes
<1>4. /\ object'[c] = o /\ left'[c] = limit + 1 /\ made'[o] = 0
      /\ \A d \in Chats \ {c} : object'[d] = object[d] /\ left'[d] = left[d]
      /\ \A x \in Chats : x = o \/ (made'[x] = made[x] /\ final'[x] = final[x])
  BY <1>1, <1>2 DEF ChatsInv, ChatTypes
<1>5. ChatTypes'
  <2>1. limit + 1 \in Nat
    BY DEF ChatsInv, ChatTypes
  <2>2. /\ object' \in [Chats -> Chats] /\ left' \in [Chats -> Nat]
        /\ made' \in [Chats -> Nat]
    BY <1>1, <1>2, <1>4, <2>1 DEF ChatsInv, ChatTypes
  <2>3. at' \in [Chats -> Steps]
    BY <1>3 DEF ChatsInv, ChatTypes, Steps
  <2> QED BY <1>1, <2>2, <2>3 DEF ChatsInv, ChatTypes, bot
<1>6. Kin'
  <2>1. ASSUME NEW d \in Chats PROVE ConversationOf[object'[d]] = ConversationOf[d]
    BY <1>2, <1>4 DEF ChatsInv, Kin
  <2> QED BY <1>1, <2>1 DEF ChatsInv, Kin
<1>7. Alone(c) => Counts(c)'
  <2> SUFFICES ASSUME Alone(c) PROVE Counts(c)'
    OBVIOUS
  <2>1. limit = LimitOf[c] /\ limit \in Nat
    BY <1>3 DEF ChatsInv, Noted, Alone, ChatTypes
  <2>2. at'[c] = "thinking"
    BY <1>3 DEF ChatsInv, ChatTypes
  <2> QED BY <2>1, <2>2, <1>4 DEF Counts
<1>8. "thinking" \in Steps /\ "thinking" \notin Ended \cup {"new"}
  BY DEF Steps, Ended
<1> QED BY <1>1, <1>3, <1>4, <1>5, <1>6, <1>7, <1>8, GoesOn

(* A round of the model uses one of the rounds left and counts one tool     *)
(* call.                                                                    *)
LEMMA CallsToolStep == ASSUME ChatsInv, NEW c \in Chats, ReplyNamesTool(c) PROVE ChatsInv'
<1> DEFINE o == object[c]
<1>1. /\ at[c] = "thinking" /\ left[c] > 0 /\ made[o] < limit /\ Goes(c, "calling")
      /\ made' = [made EXCEPT ![o] = made[o] + 1]
      /\ left' = [left EXCEPT ![c] = left[c] - 1]
      /\ UNCHANGED <<bot, object, final, table, overtaken>>
  BY DEF ReplyNamesTool, Thinks, MayCall
<1>2. c \in UnderWay /\ at' = [at EXCEPT ![c] = "calling"]
  BY <1>1 DEF UnderWay, Ended, Goes
<1>3. o \in Chats /\ left[c] \in Nat /\ made[o] \in Nat /\ limit \in Nat
  BY DEF ChatsInv, ChatTypes
<1>4. /\ object' = object /\ left'[c] = left[c] - 1 /\ made'[o] = made[o] + 1
      /\ \A d \in Chats \ {c} : left'[d] = left[d]
      /\ \A x \in Chats : x = o \/ (made'[x] = made[x] /\ final'[x] = final[x])
  BY <1>1, <1>3 DEF ChatsInv, ChatTypes
<1>5. ChatTypes'
  <2>1. left[c] - 1 \in Nat /\ made[o] + 1 \in Nat
    BY <1>1, <1>3
  <2>2. left' \in [Chats -> Nat] /\ made' \in [Chats -> Nat]
    BY <1>1, <2>1 DEF ChatsInv, ChatTypes
  <2>3. at' \in [Chats -> Steps]
    BY <1>2 DEF ChatsInv, ChatTypes, Steps
  <2> QED BY <1>1, <2>2, <2>3 DEF ChatsInv, ChatTypes, bot
<1>6. Kin'
  BY <1>1 DEF ChatsInv, Kin
<1>7. Alone(c) => Counts(c)'
  <2> SUFFICES ASSUME Alone(c) PROVE Counts(c)'
    OBVIOUS
  <2>1. limit = LimitOf[c]
    BY <1>2 DEF ChatsInv, Noted, Alone
  <2>2. left[c] + made[o] = LimitOf[c] + 1
    BY <1>1 DEF ChatsInv, Counts
  <2>3. at'[c] = "calling"
    BY <1>2 DEF ChatsInv, ChatTypes
  <2>4. left'[c] + made'[o] = LimitOf[c] + 1 /\ made'[o] <= LimitOf[c]
    BY <2>1, <2>2, <1>1, <1>3, <1>4
  <2> QED BY <2>3, <2>4, <1>4 DEF Counts
<1>8. "calling" \in Steps /\ "calling" \notin Ended \cup {"new"}
  BY DEF Steps, Ended
<1> QED BY <1>1, <1>2, <1>4, <1>5, <1>6, <1>7, <1>8, GoesOn

(* The turn has its words.                                                  *)
LEMMA EndsStep ==
    ASSUME ChatsInv, NEW c \in UnderWay, NEW text, Ends(c, text),
           Alone(c) => text \in {c, Sorry}
    PROVE  ChatsInv'
<1> DEFINE o == object[c]
<1>1. /\ c \in Chats /\ Goes(c, "keeping") /\ at' = [at EXCEPT ![c] = "keeping"]
      /\ final' = [final EXCEPT ![o] = text] /\ left' = [left EXCEPT ![c] = 0]
      /\ UNCHANGED <<bot, object, made, table, overtaken>>
  BY DEF Ends, Goes, UnderWay
<1>2. /\ o \in Chats /\ final'[o] = text
      /\ \A d \in Chats \ {c} : left'[d] = left[d]
      /\ \A x \in Chats : x = o \/ (made'[x] = made[x] /\ final'[x] = final[x])
  BY <1>1 DEF ChatsInv, ChatTypes
<1>3. ChatTypes'
  <2>1. left' \in [Chats -> Nat] /\ final' = [x \in Chats |-> final'[x]]
    BY <1>1 DEF ChatsInv, ChatTypes
  <2>2. at' \in [Chats -> Steps]
    BY <1>1 DEF ChatsInv, ChatTypes, Steps
  <2> QED BY <1>1, <2>1, <2>2 DEF ChatsInv, ChatTypes, bot
<1>4. Kin'
  BY <1>1 DEF ChatsInv, Kin
<1>5. Alone(c) => Counts(c)'
  <2>1. at'[c] = "keeping"
    BY <1>1 DEF ChatsInv, ChatTypes
  <2> QED BY <2>1, <1>1, <1>2 DEF Counts
<1>6. "keeping" \in Steps /\ "keeping" \notin Ended \cup {"new"}
  BY DEF Steps, Ended
<1> QED BY <1>1, <1>2, <1>3, <1>4, <1>5, <1>6, GoesOn

(* However a turn ends, the final response of the AgentState is of this     *)
(* chat.                                                                    *)
LEMMA TurnEndsStep ==
    ASSUME ChatsInv, NEW c \in Chats, ReplyIsFinal(c) \/ ModelFails(c) \/ RunsOut(c)
    PROVE  ChatsInv'
<1>1. at[c] = "thinking" /\ c \in UnderWay
  BY DEF ReplyIsFinal, ModelFails, RunsOut, Thinks, UnderWay, Ended
<1>2. CASE ReplyIsFinal(c)
  BY <1>1, <1>2, EndsStep DEF ReplyIsFinal
<1>3. CASE ModelFails(c)
  BY <1>1, <1>3, EndsStep DEF ModelFails
<1>4. CASE RunsOut(c)
  <2>1. ~Alone(c)
    <3>1. Alone(c) => left[c] + made[object[c]] = LimitOf[c] + 1 /\ made[object[c]] <= LimitOf[c]
      BY <1>1 DEF ChatsInv, Counts
    <3>2. left[c] = 0 /\ made[object[c]] \in Nat /\ LimitOf[c] \in Nat
      BY <1>4, LocalChatsAssumption DEF RunsOut, ChatsInv, ChatTypes
    <3> QED BY <3>1, <3>2
  <2>2. PICK text : Ends(c, text)
    BY <1>4 DEF RunsOut
  <2> QED BY <1>1, <2>1, <2>2, EndsStep
<1> QED BY <1>2, <1>3, <1>4

(* A tool leaves the turn as it is.                                         *)
LEMMA CalledStep == ASSUME ChatsInv, NEW c \in Chats, Called(c) PROVE ChatsInv'
<1>1. /\ at[c] = "calling" /\ Goes(c, "thinking")
      /\ UNCHANGED <<bot, object, left, made, final, table, overtaken>>
  BY DEF Called
<1>2. c \in UnderWay /\ at' = [at EXCEPT ![c] = "thinking"]
  BY <1>1 DEF UnderWay, Ended, Goes
<1>3. ChatTypes'
  BY <1>1, <1>2 DEF ChatsInv, ChatTypes, Steps, bot
<1>4. Kin'
  BY <1>1 DEF ChatsInv, Kin
<1>5. Alone(c) => Counts(c)'
  <2>1. at'[c] = "thinking"
    BY <1>2 DEF ChatsInv, ChatTypes
  <2>2. Alone(c) => Counts(c)
    BY DEF ChatsInv
  <2> QED BY <2>1, <2>2, <1>1 DEF Counts
<1>6. "thinking" \in Steps /\ "thinking" \notin Ended \cup {"new"}
  BY DEF Steps, Ended
<1> QED BY <1>1, <1>2, <1>3, <1>4, <1>5, <1>6, GoesOn

(* So does the table of conversations.                                      *)
LEMMA TableStep ==
    ASSUME ChatsInv, NEW c \in Chats, at[c] \in {"keeping", "kept"},
           NEW step \in {"kept", "evicting"}, Goes(c, step),
           table' \in Seq(Entry),
           \A i \in DOMAIN table' : ConversationOf[table'[i].object] = table'[i].id,
           UNCHANGED <<bot, object, left, made, final, overtaken>>
    PROVE  ChatsInv'
<1>1. c \in UnderWay /\ at' = [at EXCEPT ![c] = step]
  BY DEF UnderWay, Ended, Goes
<1>2. ChatTypes'
  BY <1>1 DEF ChatsInv, ChatTypes, Steps, bot
<1>3. Kin'
  BY DEF ChatsInv, Kin
<1>4. Alone(c) => Counts(c)'
  <2>1. at'[c] \in {"kept", "evicting"}
    BY <1>1 DEF ChatsInv, ChatTypes
  <2>2. Alone(c) => final[object[c]] \in {c, Sorry}
    BY DEF ChatsInv, Counts
  <2> QED BY <2>1, <2>2 DEF Counts
<1>5. step \in Steps /\ step \notin Ended \cup {"new"}
  BY DEF Steps, Ended
<1> QED BY <1>1, <1>2, <1>3, <1>4, <1>5, GoesOn

(* Keeping a conversation puts the AgentState under its own name.           *)
LEMMA KeepStep == ASSUME ChatsInv, NEW c \in Chats, Keep(c) PROVE ChatsInv'
<1>1. /\ at[c] = "keeping" /\ Goes(c, "kept")
      /\ UNCHANGED <<bot, object, left, made, final, overtaken>>
  BY DEF Keep
<1>2. /\ object[c] \in Chats /\ ConversationOf[object[c]] = ConversationOf[c]
      /\ table \in Seq(Entry) /\ \A i \in DOMAIN table : ConversationOf[table[i].object] = table[i].id
  BY DEF ChatsInv, ChatTypes, Kin
<1>3. CASE Resumed(c) = {}
  <2> DEFINE e == [id |-> ConversationOf[c], object |-> object[c]]
  <2>1. table' = Append(table, e)
    BY <1>3 DEF Keep
  <2>2. e \in Entry /\ ConversationOf[e.object] = e.id
    BY <1>2 DEF Entry
  <2> HIDE DEF e
  <2>3. table' \in Seq(Entry) /\ DOMAIN table' = 1..(Len(table) + 1)
        /\ table'[Len(table) + 1] = e /\ \A i \in 1..Len(table) : table'[i] = table[i]
    BY <2>1, <2>2, <1>2
  <2>4. ASSUME NEW i \in DOMAIN table' PROVE ConversationOf[table'[i].object] = table'[i].id
    <3>1. CASE i = Len(table) + 1
      BY <3>1, <2>2, <2>3
    <3>2. CASE i # Len(table) + 1
      <4>1. i \in 1..Len(table) /\ i \in DOMAIN table
        BY <3>2, <2>3, <1>2
      <4> QED BY <4>1, <2>3, <1>2
    <3> QED BY <3>1, <3>2
  <2> QED BY <1>1, <2>3, <2>4, TableStep
<1>4. CASE Resumed(c) # {}
  <2>1. table' = [i \in DOMAIN table |-> IF i \in Resumed(c)
                    THEN [table[i] EXCEPT !.object = object[c]] ELSE table[i]]
    BY <1>4 DEF Keep
  <2>2. ASSUME NEW i \in DOMAIN table
        PROVE  table'[i] \in Entry /\ ConversationOf[table'[i].object] = table'[i].id
    <3>1. table[i] \in Entry /\ ConversationOf[table[i].object] = table[i].id
      BY <1>2
    <3>2. CASE i \in Resumed(c)
      <4>1. table'[i] = [table[i] EXCEPT !.object = object[c]] /\ table[i].id = ConversationOf[c]
        BY <3>2, <2>1 DEF Resumed
      <4>2. table'[i].object = object[c] /\ table'[i].id = table[i].id
        BY <4>1, <3>1 DEF Entry
      <4>3. table'[i] \in Entry
        BY <4>1, <3>1, <1>2 DEF Entry
      <4> QED BY <4>1, <4>2, <4>3, <1>2
    <3>3. CASE i \notin Resumed(c)
      BY <3>1, <3>3, <2>1
    <3> QED BY <3>2, <3>3
  <2>3. DOMAIN table' = DOMAIN table /\ DOMAIN table = 1..Len(table) /\ Len(table) \in Nat
    BY <2>1, <1>2
  <2>4. table' \in [1..Len(table) -> Entry]
    BY <2>1, <2>2, <2>3
  <2>5. table' \in Seq(Entry)
    BY <2>3, <2>4, SeqDef
  <2> QED BY <1>1, <2>2, <2>3, <2>5, TableStep
<1> QED BY <1>3, <1>4

(* Looking for the oldest conversation changes no answer.                   *)
LEMMA FindOldestStep == ASSUME ChatsInv, NEW c \in Chats, FindOldest(c) PROVE ChatsInv'
<1>1. /\ at[c] = "kept" /\ Goes(c, "evicting")
      /\ UNCHANGED <<bot, object, left, made, final, table, overtaken>>
  BY DEF FindOldest
<1>2. table' \in Seq(Entry) /\ \A i \in DOMAIN table' : ConversationOf[table'[i].object] = table'[i].id
  BY <1>1 DEF ChatsInv, ChatTypes, Kin
<1> QED BY <1>1, <1>2, TableStep

(* A chat returns.                                                          *)
LEMMA ReturnsStep ==
    ASSUME ChatsInv, NEW c \in UnderWay, NEW end \in Ended, Returns(c, end),
           table' \in Seq(Entry),
           \A i \in DOMAIN table' : ConversationOf[table'[i].object] = table'[i].id
    PROVE  ChatsInv'
<1>1. /\ c \in Chats /\ at' = [at EXCEPT ![c] = end]
      /\ left' = [left EXCEPT ![c] = 0] /\ overtaken' = [overtaken EXCEPT ![c] = {}]
      /\ object' = [object EXCEPT ![c] = c]
      /\ UNCHANGED <<bot, made, final>>
  BY DEF Returns, Goes, UnderWay
<1>2. UnderWay' = UnderWay \ {c}
  BY <1>1 DEF UnderWay, ChatsInv, ChatTypes
<1>3. ChatTypes'
  <2>1. at' \in [Chats -> Steps]
    BY <1>1 DEF ChatsInv, ChatTypes, Steps
  <2>2. /\ left' \in [Chats -> Nat] /\ overtaken' \in [Chats -> SUBSET Marks]
        /\ object' \in [Chats -> Chats]
    BY <1>1 DEF ChatsInv, ChatTypes
  <2> QED BY <1>1, <2>1, <2>2 DEF ChatsInv, ChatTypes, bot
<1>4. Kin'
  BY <1>1 DEF ChatsInv, ChatTypes, Kin
<1>5. ASSUME NEW d \in UnderWay' PROVE Noted(d)'
  <2>1. d \in UnderWay /\ d # c /\ overtaken'[d] = overtaken[d]
    BY <1>1, <1>2 DEF ChatsInv, ChatTypes, UnderWay
  <2>2. Noted(d)
    BY <2>1 DEF ChatsInv
  <2> QED BY <1>1, <1>2, <2>1, <2>2 DEF Noted, bot
<1>6. ASSUME NEW d \in Chats, Alone(d)' PROVE Counts(d)'
  <2>1. d # c /\ overtaken'[d] = overtaken[d]
    BY <1>1, <1>2, <1>6 DEF ChatsInv, ChatTypes, Alone
  <2>2. Alone(d) /\ at'[d] = at[d] /\ left'[d] = left[d] /\ object'[d] = object[d]
    BY <1>1, <1>2, <1>6, <2>1 DEF ChatsInv, ChatTypes, Alone
  <2> QED BY <1>1, <2>2 DEF ChatsInv, Counts
<1> QED BY <1>3, <1>4, <1>5, <1>6 DEF ChatsInv

(* What a chat does last, evicting or not, changes the table only by leaving*)
(* an entry out.                                                            *)
LEMMA ReturningStep ==
    ASSUME ChatsInv, NEW c \in Chats,
           ReplyIsNonsense(c) \/ NothingToEvict(c) \/ EvictOldest(c) \/ OldestIsGone(c)
    PROVE  ChatsInv'
<1>1. c \in UnderWay
  BY DEF ReplyIsNonsense, NothingToEvict, EvictOldest, OldestIsGone, Thinks, UnderWay, Ended
<1>2. /\ table \in Seq(Entry)
      /\ \A i \in DOMAIN table : ConversationOf[table[i].object] = table[i].id
  BY DEF ChatsInv, ChatTypes, Kin
<1>3. {"answered", "failed", "collided"} = Ended
  BY DEF Ended
<1>4. CASE ReplyIsNonsense(c)
  BY <1>1, <1>2, <1>3, <1>4, ReturnsStep DEF ReplyIsNonsense
<1>5. CASE NothingToEvict(c)
  BY <1>1, <1>2, <1>3, <1>5, ReturnsStep DEF NothingToEvict
<1>6. CASE OldestIsGone(c)
  BY <1>1, <1>2, <1>3, <1>6, ReturnsStep DEF OldestIsGone
<1>7. CASE EvictOldest(c)
  <2>1. PICK i \in DOMAIN table : table' = Without(i)
    BY <1>7 DEF EvictOldest
  <2>2. DOMAIN table = 1..Len(table) /\ Len(table) \in Nat /\ i \in 1..Len(table)
        /\ Len(table) - 1 \in Nat
    BY <1>2
  <2>3. ASSUME NEW j \in 1..(Len(table) - 1)
        PROVE  table'[j] \in Entry /\ ConversationOf[table'[j].object] = table'[j].id
    <3> DEFINE k == IF j < i THEN j ELSE j + 1
    <3>1. k \in DOMAIN table /\ table'[j] = table[k]
      BY <2>1, <2>2 DEF Without
    <3> HIDE DEF k
    <3> QED BY <3>1, <1>2
  <2>4. DOMAIN table' = 1..(Len(table) - 1) /\ table' \in [1..(Len(table) - 1) -> Entry]
    BY <2>1, <2>3 DEF Without
  <2>5. table' \in Seq(Entry)
    BY <2>2, <2>4, SeqDef
  <2> QED BY <1>1, <1>3, <1>7, <2>3, <2>4, <2>5, ReturnsStep DEF EvictOldest
<1> QED BY <1>4, <1>5, <1>6, <1>7

(* The settings leave the bot alone.                                        *)
LEMMA ChatsStay ==
    ASSUME ChatsInv, UNCHANGED <<bot, object, left, made, final, table, overtaken>>,
           at' \in [Chats -> Steps], \A c \in Chats : at'[c] = at[c]
    PROVE  ChatsInv'
<1>1. UnderWay' = UnderWay
  BY DEF UnderWay
<1>2. ChatTypes' /\ Kin'
  BY DEF ChatsInv, ChatTypes, Kin, bot
<1>3. \A c \in UnderWay' : Noted(c)'
  BY <1>1 DEF ChatsInv, Noted, bot
<1>4. \A c \in Chats : Alone(c)' => Counts(c)'
  BY <1>1 DEF ChatsInv, Alone, Counts
<1> QED BY <1>2, <1>3, <1>4 DEF ChatsInv

(* Every step of every actor keeps what is known of the chats.              *)
LEMMA ChatsStep == ChatsInv /\ [LocalNext]_localVars => ChatsInv'
<1> SUFFICES ASSUME ChatsInv, [LocalNext]_localVars PROVE ChatsInv'
  OBVIOUS
<1>1. CASE (\E n \in ConsentLevels : Configure(n)) \/ UNCHANGED localVars
  <2>1. UNCHANGED <<bot, at, object, left, made, final, table, overtaken>>
    BY <1>1 DEF Configure, localVars, thread
  <2> QED BY <2>1, ChatsStay DEF ChatsInv, ChatTypes
<1> QED BY <1>1, AskStep, BeginsStep, CallsToolStep, TurnEndsStep, CalledStep, KeepStep,
           FindOldestStep, ReturningStep DEF LocalNext, ChatStep, ReadMemory, WriteMemory, RequestConsent, OtherTool

-----------------------------------------------------------------------------
(* Whose memories a chat has, and the level the tools ask from.             *)
Gathered ==
    /\ holds = [o \in Chats |-> holds[o]] /\ around = [k \in Conversations |-> around[k]]
    /\ \A c \in UnderWay : botUser \in around[ConversationOf[c]]
    /\ \A o \in Chats : \A m \in holds[o] : OwnerOf[m] \in around[ConversationOf[o]]

(* No conversation has anything at the start.                               *)
LEMMA GatheredInit == LocalInit => Gathered
BY DEF LocalInit, Gathered, UnderWay

(* A request is around its own conversation and those under way, and nobody *)
(* who was around leaves.                                                   *)
LEMMA AskGathers ==
    ASSUME ChatsInv, Gathered, NEW c \in Chats, Ask(c)
    PROVE  Gathered'
<1>1. /\ at' = [at EXCEPT ![c] = "asked"] /\ botUser' = UserOf[c]
      /\ around' = Joined(c) /\ holds' = holds
  BY DEF Ask, Goes
<1>2. UnderWay' \subseteq UnderWay \cup {c}
  BY <1>1 DEF UnderWay, ChatsInv, ChatTypes
<1>3. /\ \A k \in Conversations : around[k] \subseteq around'[k]
      /\ \A k \in Talking \cup {ConversationOf[c]} : k \in Conversations => UserOf[c] \in around'[k]
      /\ around' = [k \in Conversations |-> around'[k]]
  BY <1>1 DEF Joined
<1>4. \A d \in Chats : ConversationOf[d] \in Conversations
  BY DEF Conversations
<1>5. \A d \in UnderWay' : botUser' \in around'[ConversationOf[d]]
  BY <1>1, <1>2, <1>3, <1>4 DEF Talking, UnderWay
<1>6. \A o \in Chats : \A m \in holds'[o] : OwnerOf[m] \in around'[ConversationOf[o]]
  BY <1>1, <1>3, <1>4 DEF Gathered
<1> QED BY <1>1, <1>3, <1>5, <1>6 DEF Gathered

(* A tool finds memories of the bot's user alone, and gives them to the      *)
(* AgentState of the chat's own conversation.                               *)
LEMMA ReadGathers ==
    ASSUME ChatsInv, Gathered, NEW c \in Chats, ReadMemory(c)
    PROVE  Gathered'
<1>1. /\ at[c] = "calling" /\ Goes(c, "thinking")
      /\ UNCHANGED <<bot, around>>
  BY DEF ReadMemory, Called
<1>2. c \in UnderWay /\ UnderWay' \subseteq UnderWay
  BY <1>1 DEF UnderWay, Ended, Goes, ChatsInv, ChatTypes
<1>3. PICK found \in SUBSET Found(botUser) : holds' = [holds EXCEPT ![object[c]] = @ \cup found]
  BY DEF ReadMemory
<1>4. object[c] \in Chats /\ ConversationOf[object[c]] = ConversationOf[c]
  BY DEF ChatsInv, ChatTypes, Kin
<1>5. botUser \in around[ConversationOf[c]] /\ \A m \in found : OwnerOf[m] = botUser
  BY <1>2 DEF Gathered, Found
<1>6. /\ holds'[object[c]] = holds[object[c]] \cup found
      /\ \A o \in Chats \ {object[c]} : holds'[o] = holds[o]
      /\ holds' = [o \in Chats |-> holds'[o]]
  BY <1>3, <1>4 DEF Gathered
<1>7. \A o \in Chats : \A m \in holds'[o] : OwnerOf[m] \in around[ConversationOf[o]]
  BY <1>4, <1>5, <1>6 DEF Gathered
<1> QED BY <1>1, <1>2, <1>6, <1>7 DEF Gathered, bot

(* Every other step leaves them, and the user of the bot, as they are.       *)
LEMMA GatheredStep == ChatsInv /\ Gathered /\ [LocalNext]_localVars => Gathered'
<1> SUFFICES ASSUME ChatsInv, Gathered, [LocalNext]_localVars PROVE Gathered'
  OBVIOUS
<1>1. ASSUME UNCHANGED <<bot, holds, around>>, UnderWay' \subseteq UnderWay PROVE Gathered'
  BY <1>1 DEF Gathered, bot
<1>2. ASSUME NEW c \in Chats, ChatStep(c), ~ ReadMemory(c)
      PROVE  UNCHANGED <<bot, holds, around>> /\ UnderWay' \subseteq UnderWay
  <2>1. UNCHANGED <<bot, holds, around>>
    BY <1>2 DEF ChatStep, Resume, ReplyNamesTool, ReplyIsFinal, ModelFails, Ends,
         ReplyIsNonsense, Returns, RunsOut, Called, WriteMemory, RequestConsent, OtherTool, Keep,
         NothingToEvict, FindOldest, EvictOldest, OldestIsGone
  <2>2. at[c] \notin Ended \cup {"new"} /\ \E step \in Steps : Goes(c, step)
    BY <1>2 DEF ChatStep, Resume, ReplyNamesTool, ReplyIsFinal, ModelFails, Ends, Thinks,
         ReplyIsNonsense, Returns, RunsOut, Called, WriteMemory, RequestConsent, OtherTool, Keep,
         NothingToEvict, FindOldest, EvictOldest, OldestIsGone, Steps, Ended
  <2> QED BY <2>1, <2>2 DEF UnderWay, Goes, ChatsInv, ChatTypes
<1>3. CASE (\E n \in ConsentLevels : Configure(n)) \/ UNCHANGED localVars
  <2>1. UNCHANGED <<bot, at, holds, around>>
    BY <1>3 DEF Configure, localVars, thread
  <2> QED BY <2>1, <1>1 DEF UnderWay
<1> QED BY <1>1, <1>2, <1>3, AskGathers, ReadGathers DEF LocalNext

(* The copy is the level in force until the second change it has seen.      *)
CopyFollows ==
    /\ level \in 0..3 /\ changes \in Nat
    /\ kept = NotSet => ~live /\ changes = 0
    /\ (kept # NotSet /\ changes = 0) => live
    /\ (kept # NotSet /\ changes <= 1) => kept = level

(* The tools have no copy of the settings yet.                              *)
LEMMA CopyInit == LocalInit => CopyFollows
BY LocalChatsAssumption DEF LocalInit, CopyFollows

(* The copy is shared with the settings until the second change the bot has *)
(* seen.                                                                    *)
LEMMA CopyStep == CopyFollows /\ [LocalNext]_localVars => CopyFollows'
<1> SUFFICES ASSUME CopyFollows, [LocalNext]_localVars PROVE CopyFollows'
  OBVIOUS
<1>1. ASSUME NEW c \in Chats, WriteMemory(c) PROVE CopyFollows'
  BY <1>1, LocalChatsAssumption DEF WriteMemory, Threshold, CopyFollows
<1>2. ASSUME NEW n \in ConsentLevels, Configure(n) PROVE CopyFollows'
  BY <1>2, LocalChatsAssumption DEF Configure, CopyFollows
<1>3. CASE UNCHANGED settings
  BY <1>3 DEF settings, CopyFollows
<1>4. \/ UNCHANGED settings \/ \E c \in Chats : WriteMemory(c)
      \/ \E n \in ConsentLevels : Configure(n)
  BY DEF LocalNext, localVars, Ask, ChatStep, Resume, ReplyNamesTool, ReplyIsFinal, ModelFails, Ends,
         ReplyIsNonsense, Returns, RunsOut, ReadMemory, RequestConsent, OtherTool, Keep,
         NothingToEvict, FindOldest, EvictOldest, OldestIsGone
<1> QED BY <1>1, <1>2, <1>3, <1>4

(* What is known of the chats holds always.                                 *)
LEMMA ChatsInvHolds == LocalSpec => []ChatsInv
BY ChatsInit, ChatsStep, PTL DEF LocalSpec

(* What the chats of ClawdBot have of anybody's memories, over all turns of  *)
(* a conversation and whatever conversations are evicted, is of users who    *)
(* chatted in it or whose chat was taken on while one of it ran              *)
(* (routes/clawdbot.py gives one bot the user of the last request).          *)
THEOREM OwnMemoriesHolds == LocalSpec => []OwnMemories
<1>1. ChatsInv /\ Gathered => OwnMemories
  BY DEF ChatsInv, ChatTypes, Kin, Gathered, OwnMemories
<1>2. LocalSpec => []Gathered
  BY ChatsInvHolds, GatheredInit, GatheredStep, PTL DEF LocalSpec
<1> QED BY <1>1, <1>2, ChatsInvHolds, PTL

(* The answer is of this turn, as long as neither another limit nor another *)
(* chat of the conversation came in between: a chat that nothing overtook   *)
(* never runs out of rounds (ClawdBot.chat in agents/clawdbot.py).          *)
THEOREM OwnAnswerHolds == LocalSpec => []OwnAnswer
<1>1. ChatsInv => OwnAnswer
  BY DEF ChatsInv, Counts, Alone, UnderWay, Ended, OwnAnswer
<1> QED BY <1>1, ChatsInvHolds, PTL

(* What the tools store without asking is below the level from which the    *)
(* user wants to be asked, up to the first change the bot has seen          *)
(* (agents/tools.py keeps the settings it first fetched).                   *)
THEOREM AskedFirstHolds == LocalSpec => []AskedFirst
<1>1. CopyFollows => AskedFirst
  BY DEF CopyFollows, AskedFirst, NeedsConsent, Threshold
<1>2. LocalSpec => []CopyFollows
  BY CopyInit, CopyStep, PTL DEF LocalSpec
<1> QED BY <1>1, <1>2, PTL
=============================================================================
