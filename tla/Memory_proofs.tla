---------------------------- MODULE Memory_proofs -----------------------------
(***************************************************************************)
(* What holds of the vault for every set of ids and texts, and for any     *)
(* number of failing calls and restarts: types with any threads, and, when *)
(* only the event loop works on the vault, that a deleted memory stays so. *)
(*                                                                         *)
(* Deletion is three steps over three stores. The strengthening says which *)
(* of them are already done while the handler stands between two           *)
(* (RowsGoFirst), that no row is about to be written for a deleted memory  *)
(* (NothingUnderway), and that mem0 has no copy while it was never there   *)
(* (AbsentIsEmpty). The last part is about the texts and their levels.     *)
(*                                                                         *)
(* The second part is about the vector store, for any number of stores on  *)
(* one file, of ids, calls, failures and crashes. The committed tables     *)
(* tell one story (Sound), and so does the open transaction as far as its  *)
(* statements have run: a table not yet written is the committed one, the  *)
(* others are those the whole operation leads to.                          *)
(***************************************************************************)
EXTENDS MemoryVault, VectorStore, SequenceTheorems, TLAPS

JobsMatch ==
    \A t \in Threads :
        /\ pc[t] \in {"persist", "reseal", "drop", "forget"} => job[t] \in Job
        /\ pc[t] = "persist" => job[t].text \in Texts
        /\ pc[t] \in {"persist", "reseal"} => job[t].level \in 0..3

TInv == TypeOK /\ JobsMatch

(* The level of a new text is a level, and not below that of its signs. *)
LEMMA AddLevelType ==
    ASSUME NEW text \in Texts, NEW asked \in UserLevels \cup {NoLevel}
    PROVE  /\ AddLevel(text, asked) \in 0..3
           /\ Signs[text] = NoLevel \/ Signs[text] <= AddLevel(text, asked)
<1> DEFINE levels == {asked, Signs[text]} \ {NoLevel}
<1> USE VaultAssumption
<1>1. asked \in 0..3 \cup {NoLevel} /\ Signs[text] \in 0..3 \cup {NoLevel}
  OBVIOUS
<1>2. CASE levels = {}
  BY <1>2 DEF AddLevel
<1>3. CASE levels # {}
  <2>1. levels \subseteq 0..3
    BY <1>1
  <2>2. \E l \in levels : \A m \in levels : m <= l
    <3>1. CASE asked = NoLevel \/ Signs[text] = NoLevel
      BY <3>1, <1>1, <1>3
    <3>2. CASE asked # NoLevel /\ Signs[text] # NoLevel /\ asked <= Signs[text]
      BY <3>2, <1>1
    <3>3. CASE asked # NoLevel /\ Signs[text] # NoLevel /\ ~ (asked <= Signs[text])
      BY <3>3, <1>1
    <3> QED BY <3>1, <3>2, <3>3
  <2>3. AddLevel(text, asked) \in levels /\ \A m \in levels : m <= AddLevel(text, asked)
    <3>1. AddLevel(text, asked) = CHOOSE l \in levels : \A m \in levels : m <= l
      BY <1>3 DEF AddLevel
    <3> QED BY <2>2, <3>1
  <2> QED BY <2>1, <2>3
<1> QED BY <1>2, <1>3

(* A new row and an amended one are rows with a text to read. *)
LEMMA NewRowType ==
    ASSUME NEW j \in Job, j.text \in Texts, j.level \in 0..3
    PROVE  /\ NewRow(j) \in Row
           /\ Readable(NewRow(j)) # None
BY VaultAssumption DEF NewRow, Row, Job, Readable

LEMMA AmendedType ==
    ASSUME NEW r \in Row, Readable(r) # None,
           NEW j \in Job, j.level \in 0..3, NEW encrypts \in BOOLEAN
    PROVE  /\ Amended(r, j, encrypts) \in Row
           /\ Readable(Amended(r, j, encrypts)) # None
<1> USE VaultAssumption DEF Row, Job, Readable
<1>1. CASE j.text = None
  BY <1>1 DEF Amended
<1>2. CASE j.text # None /\ encrypts
  BY <1>2 DEF Amended
<1>3. CASE j.text # None /\ ~encrypts
  BY <1>3 DEF Amended
<1> QED BY <1>1, <1>2, <1>3

LEMMA WipedType ==
    ASSUME NEW r \in Row, Readable(r) # None
    PROVE  Wiped(r) \in Row /\ Readable(Wiped(r)) # None
BY VaultAssumption DEF Wiped, Row, Readable

LEMMA WipedNone == Wiped(None) = None
BY DEF Wiped

(* The job an addition sets: one of mem0's results at a time.                *)
NewJob(i, more, text, level, encrypts) ==
    [id |-> i, more |-> more, text |-> text, level |-> level, seals |-> encrypts, mine |-> FALSE]

(* What an addition does: it stores copies for its results and stands before *)
(* the row of one of them.                                                  *)
AddDoes(t, text, level) ==
    \E results \in SUBSET Ids, i \in Ids, encrypts \in BOOLEAN :
        /\ i \in results
        /\ \/ up /\ Mem0Adds(text, level, results) /\ UNCHANGED mock
           \/ ~up /\ results = {i} /\ mock' = [mock EXCEPT ![i] = text] /\ UNCHANGED mem0
        /\ used' = used \cup results /\ deleted' = deleted \ results
        /\ GoTo(t, "persist", NewJob(i, results \ {i}, text, level, encrypts))
        /\ Works \/ Fails

LEMMA AddSteps ==
    ASSUME NEW t \in Threads, NEW text \in Texts, NEW asked \in UserLevels \cup {NoLevel},
           NEW consent \in BOOLEAN, Add(t, text, asked, consent)
    PROVE  AddDoes(t, text, AddLevel(text, asked))
BY Zenon DEF Add, NewJob, AddDoes

(* What mem0 leaves behind: its results, covered by the level or marked.     *)
LEMMA Mem0AddsCovered ==
    ASSUME NEW text \in Texts, NEW level \in 0..3, NEW results \in SUBSET Ids,
           Signs[text] = NoLevel \/ Signs[text] <= level,
           mem0 \in [Ids -> Copy \cup {None}], Mem0Adds(text, level, results)
    PROVE  /\ mem0' \in [Ids -> Copy \cup {None}]
           /\ \A k \in Ids \ results : mem0'[k] = mem0[k]
           /\ \A k \in results : \/ mem0'[k].older
                                 \/ Signs[mem0'[k].text] = NoLevel
                                 \/ Signs[mem0'[k].text] <= level
<1> USE VaultAssumption
<1>1. PICK kept \in [results -> Texts] :
        mem0' = [i \in Ids |->
              IF i \in results
              THEN [text |-> kept[i], level |-> level, older |-> kept[i] \notin Reworded(text)]
              ELSE mem0[i]]
  BY DEF Mem0Adds
<1>2. \A k \in results :
        /\ mem0'[k] = [text |-> kept[k], level |-> level, older |-> kept[k] \notin Reworded(text)]
        /\ kept[k] \in Texts
  BY <1>1
<1>3. ASSUME NEW k \in results
      PROVE  /\ mem0'[k] \in Copy /\ mem0'[k].text = kept[k]
             /\ ~ mem0'[k].older => kept[k] \in Reworded(text)
  <2>1. CASE kept[k] \in Reworded(text)
    <3>1. mem0'[k] = [text |-> kept[k], level |-> level, older |-> FALSE]
      BY <1>2, <2>1
    <3> QED BY <1>2, <3>1, <2>1 DEF Copy
  <2>2. CASE kept[k] \notin Reworded(text)
    <3>1. mem0'[k] = [text |-> kept[k], level |-> level, older |-> TRUE]
      BY <1>2, <2>2
    <3> QED BY <1>2, <3>1 DEF Copy
  <2> QED BY <2>1, <2>2
<1>4. \A k \in Ids \ results : mem0'[k] = mem0[k]
  BY <1>1
<1>5. mem0' \in [Ids -> Copy \cup {None}]
  <2>1. \A k \in Ids : mem0'[k] \in Copy \cup {None}
    BY <1>3, <1>4
  <2>2. DOMAIN mem0' = Ids /\ mem0' = [k \in Ids |-> mem0'[k]]
    BY <1>1
  <2> QED BY <2>1, <2>2
<1>6. ASSUME NEW k \in results, ~ mem0'[k].older
      PROVE  Signs[mem0'[k].text] = NoLevel \/ Signs[mem0'[k].text] <= level
  <2>1. kept[k] \in Reworded(text) /\ mem0'[k].text = kept[k]
    BY <1>3, <1>6
  <2>2. Signs[text] \in 0..3 \cup {NoLevel} /\ Signs[kept[k]] \in 0..3 \cup {NoLevel}
    BY <1>2
  <2> QED BY <2>1, <2>2 DEF Reworded
<1> QED BY <1>4, <1>5, <1>6

LEMMA InitTypes == Init => TInv
<1> SUFFICES ASSUME Init PROVE TypeOK /\ JobsMatch
    BY DEF TInv
<1> USE VaultAssumption DEF Init
<1>1. TypeOK
  BY DEF TypeOK, Stages
<1>2. JobsMatch
  BY DEF JobsMatch
<1> QED BY <1>1, <1>2

LEMMA TypeStep == TInv /\ [Next]_vars => TInv'
<1> SUFFICES ASSUME TypeOK, JobsMatch, [Next]_vars PROVE TypeOK' /\ JobsMatch'
    BY DEF TInv
<1> USE VaultAssumption DEF TypeOK, JobsMatch, Stages, Fails, Works
<1>1. ASSUME NEW t \in Threads, NEW text \in Texts, NEW asked \in UserLevels \cup {NoLevel},
             NEW consent \in BOOLEAN, Add(t, text, asked, consent)
      PROVE  TypeOK' /\ JobsMatch'
  <2> DEFINE level == AddLevel(text, asked)
  <2>1. level \in 0..3 /\ (Signs[text] = NoLevel \/ Signs[text] <= level)
    BY AddLevelType
  <2> HIDE DEF level
  <2>2. PICK results \in SUBSET Ids, i \in Ids, encrypts \in BOOLEAN :
          /\ \/ Mem0Adds(text, level, results) /\ UNCHANGED mock
             \/ mock' = [mock EXCEPT ![i] = text] /\ UNCHANGED mem0
          /\ used' = used \cup results /\ deleted' = deleted \ results
          /\ GoTo(t, "persist", NewJob(i, results \ {i}, text, level, encrypts))
          /\ Works \/ Fails
    <3>1. AddDoes(t, text, level)
      BY <1>1, AddSteps DEF level
    <3> QED BY <3>1, Zenon DEF AddDoes
  <2> DEFINE j == NewJob(i, results \ {i}, text, level, encrypts)
  <2>3. j \in Job /\ j.text = text /\ j.level = level
    BY <2>1 DEF NewJob, Job
  <2> HIDE DEF j
  <2>5. UNCHANGED <<rows, up, restarts>>
    BY <1>1 DEF Add
  <2>6. JobsMatch'
    BY <2>1, <2>2, <2>3 DEF GoTo, j
  <2>7. mem0' \in [Ids -> Copy \cup {None}] /\ mock' \in [Ids -> Texts \cup {None, Erased}]
    <3>1. mem0 \in [Ids -> Copy \cup {None}] /\ mock \in [Ids -> Texts \cup {None, Erased}]
      OBVIOUS
    <3>2. CASE Mem0Adds(text, level, results) /\ UNCHANGED mock
      BY <3>1, <3>2, <2>1, Mem0AddsCovered
    <3>3. CASE mock' = [mock EXCEPT ![i] = text] /\ UNCHANGED mem0
      BY <3>1, <3>3
    <3> QED BY <2>2, <3>2, <3>3
  <2>8. pc' \in [Threads -> Stages] /\ job' \in [Threads -> Job \cup {None}]
    BY <2>2, <2>3 DEF GoTo, j
  <2>9. faults' \in 0..MaxFaults
    BY <2>2
  <2> QED BY <2>2, <2>5, <2>6, <2>7, <2>8, <2>9
<1>2. ASSUME NEW t \in Threads, Persist(t) PROVE TypeOK' /\ JobsMatch'
  <2>1. /\ job[t] \in Job /\ NewRow(job[t]) \in Row /\ Readable(NewRow(job[t])) # None
        /\ job[t].text \in Texts /\ job[t].level \in 0..3
    BY <1>2, NewRowType DEF Persist
  <2>2. job[t].id \in Ids /\ job[t].more \in SUBSET Ids /\ job[t].seals \in BOOLEAN
    BY <2>1 DEF Job
  <2>3. /\ rows' \in [Ids -> Row \cup {None}]
        /\ \A i \in Ids : rows'[i] # None => Readable(rows'[i]) # None
    BY <1>2, <2>1, <2>2 DEF Persist
  <2>4. /\ pc' \in [Threads -> Stages] /\ job' \in [Threads -> Job \cup {None}]
        /\ JobsMatch'
    <3>1. CASE Done(t)
      BY <3>1 DEF Done
    <3>2. ASSUME NEW i \in job[t].more,
                 GoTo(t, "persist", NewJob(i, job[t].more \ {i}, job[t].text,
                                           job[t].level, job[t].seals))
          PROVE  /\ pc' \in [Threads -> Stages] /\ job' \in [Threads -> Job \cup {None}]
                 /\ JobsMatch'
      <4> DEFINE j == NewJob(i, job[t].more \ {i}, job[t].text, job[t].level, job[t].seals)
      <4>1. j \in Job /\ j.text \in Texts /\ j.level \in 0..3
        BY <2>1, <2>2 DEF NewJob, Job
      <4> HIDE DEF j
      <4> QED BY <3>2, <4>1 DEF GoTo, j
    <3>3. Done(t) \/ \E i \in job[t].more :
                        GoTo(t, "persist", NewJob(i, job[t].more \ {i}, job[t].text,
                                                  job[t].level, job[t].seals))
      BY <1>2, Zenon DEF Persist, Onward, NewJob
    <3> QED BY <3>1, <3>2, <3>3
  <2>5. faults' \in 0..MaxFaults
    <3>1. Works \/ Fails
      BY <1>2, Zenon DEF Persist
    <3> QED BY <3>1
  <2>6. UNCHANGED <<mem0, mock, up, used, deleted, restarts>>
    BY <1>2, Zenon DEF Persist
  <2> QED BY <2>3, <2>4, <2>5, <2>6
<1>3. ASSUME NEW i \in Ids, NEW text \in Texts \cup {None},
             NEW asked \in UserLevels \cup {NoLevel}, Update(i, text, asked)
      PROVE  TypeOK' /\ JobsMatch'
  <2> DEFINE level == IF asked # NoLevel THEN asked ELSE AddLevel(text, NoLevel)
  <2>1. level \in 0..3
    <3>1. CASE asked # NoLevel
      BY <3>1
    <3>2. CASE asked = NoLevel
      BY <3>2, <1>3, AddLevelType DEF Update
    <3> QED BY <3>1, <3>2
  <2>2. GoTo(Loop, "reseal", [id |-> i, more |-> {}, text |-> text, seals |-> FALSE,
                              mine |-> asked # NoLevel, level |-> level])
    BY <1>3 DEF Update
  <2>3. [id |-> i, more |-> {}, text |-> text, seals |-> FALSE,
         mine |-> asked # NoLevel, level |-> level] \in Job
    BY <2>1 DEF Job
  <2> HIDE DEF level
  <2>4. mem0' \in [Ids -> Copy \cup {None}] /\ mock' \in [Ids -> Texts \cup {None, Erased}]
    <3>1. ASSUME text \in Texts, mem0[i] # None PROVE Renewed(mem0[i], text) \in Copy
      BY <3>1 DEF Copy, Renewed
    <3>2. \/ UNCHANGED <<mem0, mock>>
          \/ /\ text \in Texts /\ mem0[i] # None /\ UNCHANGED mock
             /\ mem0' = [mem0 EXCEPT ![i] = Renewed(mem0[i], text)]
          \/ mock' = [mock EXCEPT ![i] = text] /\ text \in Texts /\ UNCHANGED mem0
      BY <1>3 DEF Update, Found
    <3> QED BY <3>1, <3>2
  <2>5. /\ pc' \in [Threads -> Stages] /\ job' \in [Threads -> Job \cup {None}]
        /\ JobsMatch'
    BY <2>1, <2>2, <2>3 DEF GoTo, Threads
  <2> QED BY <1>3, <2>4, <2>5 DEF Update
<1>4. CASE Reseal
  <2> DEFINE j == job[Loop]
  <2>1. j \in Job /\ j.id \in Ids /\ j.level \in 0..3
    BY <1>4 DEF Reseal, Job, Threads
  <2>2. PICK encrypts \in BOOLEAN :
          \/ rows' = [rows EXCEPT ![j.id] = IF @ = None THEN None ELSE Amended(@, j, encrypts)]
          \/ UNCHANGED rows
    BY <1>4 DEF Reseal
  <2>3. rows[j.id] # None => /\ Amended(rows[j.id], j, encrypts) \in Row
                             /\ Readable(Amended(rows[j.id], j, encrypts)) # None
    BY <2>1, AmendedType
  <2>4. /\ rows' \in [Ids -> Row \cup {None}]
        /\ \A i \in Ids : rows'[i] # None => Readable(rows'[i]) # None
    BY <2>1, <2>2, <2>3
  <2>5. /\ pc' \in [Threads -> Stages] /\ job' \in [Threads -> Job \cup {None}]
        /\ JobsMatch'
    BY <1>4 DEF Reseal, Done
  <2>6. faults' \in 0..MaxFaults
    <3>1. Works \/ Fails
      BY <1>4, Zenon DEF Reseal
    <3> QED BY <3>1
  <2>7. UNCHANGED <<mem0, mock, up, used, deleted, restarts>>
    BY <1>4, Zenon DEF Reseal
  <2> QED BY <2>4, <2>5, <2>6, <2>7
<1>5. ASSUME NEW i \in Ids, Delete(i) PROVE TypeOK' /\ JobsMatch'
  <2> DEFINE j == [id |-> i, more |-> {}, text |-> None, level |-> NoLevel,
                   seals |-> FALSE, mine |-> FALSE]
  <2>1. j \in Job
    BY DEF Job
  <2>2. /\ rows' \in [Ids -> Row \cup {None}]
        /\ \A k \in Ids : rows'[k] # None => Readable(rows'[k]) # None
    <3>1. \/ rows' = [rows EXCEPT ![i] = Wiped(rows[i])]
          \/ UNCHANGED rows
      BY <1>5 DEF Delete
    <3>2. rows[i] # None => Wiped(rows[i]) \in Row /\ Readable(Wiped(rows[i])) # None
      BY WipedType
    <3> QED BY <3>1, <3>2, WipedNone
  <2>3. \/ GoTo(Loop, "drop", j)
        \/ UNCHANGED <<pc, job>>
    BY <1>5 DEF Delete
  <2> HIDE DEF j
  <2>4. /\ pc' \in [Threads -> Stages] /\ job' \in [Threads -> Job \cup {None}]
        /\ JobsMatch'
    BY <2>1, <2>3 DEF GoTo, Threads
  <2> QED BY <1>5, <2>2, <2>4 DEF Delete
<1>6. CASE DropRow
  BY <1>6 DEF DropRow, GoTo, Done, Job, Threads
<1>7. CASE Forget
  BY <1>7 DEF Forget, Done, Job, Threads
<1>8. CASE DropAllRows
  BY <1>8 DEF DropAllRows, Threads
<1>9. CASE ForgetAll
  BY <1>9 DEF ForgetAll, Done, Threads
<1>10. CASE CopyFails
  BY <1>10 DEF CopyFails
<1>11. CASE Restart
  <2>1. \A i \in Ids : rows[i] # None => Readable(rows[i]) \in Texts \cup {None, Erased}
    BY DEF Readable, Row
  <2>2. mock' \in [Ids -> Texts \cup {None, Erased}]
    BY <1>11, <2>1 DEF Restart
  <2>3. /\ pc' \in [Threads -> Stages] /\ job' \in [Threads -> Job \cup {None}]
        /\ JobsMatch'
    BY <1>11 DEF Restart
  <2>4. up' \in BOOLEAN /\ faults' \in 0..MaxFaults /\ restarts' \in 0..MaxRestarts
    <3>1. Works \/ Fails
      BY <1>11, Zenon DEF Restart
    <3>2. up' \in BOOLEAN
      BY <1>11, Zenon DEF Restart
    <3> QED BY <1>11, <3>1, <3>2 DEF Restart
  <2> QED BY <1>11, <2>2, <2>3, <2>4 DEF Restart
<1>12. CASE UNCHANGED vars
  BY <1>12 DEF vars
<1> QED BY <1>1, <1>2, <1>3, <1>4, <1>5, <1>6, <1>7, <1>8, <1>9, <1>10, <1>11, <1>12 DEF Next

(* Every variable of the vault keeps its type, and every row a text to read, *)
(* with any threads adding (core/memory.py add, update, delete, delete_all). *)
THEOREM TypeCorrect == Spec => []TypeOK
<1>1. TInv => TypeOK
  BY DEF TInv
<1> QED BY InitTypes, TypeStep, <1>1, PTL DEF Spec

-----------------------------------------------------------------------------
NothingUnderway ==
    pc[Loop] = "persist" =>
        job[Loop].id \notin deleted /\ \A i \in job[Loop].more : i \notin deleted

RowsGoFirst ==
    /\ pc[Loop] = "forget" => rows[job[Loop].id] = None
    /\ pc[Loop] = "forgetAll" => \A i \in Ids : rows[i] = None

AbsentIsEmpty == (faults = 0 /\ ~up) => \A i \in Ids : mem0[i] = None

DInv == TInv /\ NothingUnderway /\ RowsGoFirst /\ AbsentIsEmpty /\ DeletedForGood

LEMMA InitDeleted == Init => DInv
<1> SUFFICES ASSUME Init PROVE DInv
    OBVIOUS
<1>1. TInv
  BY InitTypes
<1>2. NothingUnderway /\ RowsGoFirst /\ AbsentIsEmpty /\ DeletedForGood
  BY DEF Init, NothingUnderway, RowsGoFirst, AbsentIsEmpty, DeletedForGood, Threads
<1> QED BY <1>1, <1>2 DEF DInv

LEMMA DeletedStep == Workers = {} /\ DInv /\ [Next]_vars => DInv'
<1> SUFFICES ASSUME Workers = {}, DInv, [Next]_vars PROVE DInv'
    OBVIOUS
<1> DEFINE Goal == NothingUnderway' /\ RowsGoFirst' /\ AbsentIsEmpty' /\ DeletedForGood'
<1>t. TInv /\ TInv'
  BY TypeStep DEF DInv
<1>f. /\ faults \in Nat /\ deleted \subseteq Ids /\ used \subseteq Ids
      /\ up \in BOOLEAN /\ up' \in BOOLEAN
  BY <1>t, VaultAssumption DEF TInv, TypeOK
<1>l. Threads = {Loop}
  BY DEF Threads
<1>p. /\ rows \in [Ids -> Row \cup {None}] /\ mem0 \in [Ids -> Copy \cup {None}]
      /\ mock \in [Ids -> Texts \cup {None, Erased}]
      /\ pc \in [Threads -> Stages] /\ job \in [Threads -> Job \cup {None}]
  BY <1>t DEF TInv, TypeOK
<1> USE DEF DInv, NothingUnderway, RowsGoFirst, AbsentIsEmpty, DeletedForGood
<1> SUFFICES Goal
  BY <1>t
<1>1. ASSUME NEW t \in Threads, NEW text \in Texts, NEW asked \in UserLevels \cup {NoLevel},
             NEW consent \in BOOLEAN, Add(t, text, asked, consent)
      PROVE  Goal
  <2> DEFINE level == AddLevel(text, asked)
  <2>1. level \in 0..3 /\ (Signs[text] = NoLevel \/ Signs[text] <= level)
    BY AddLevelType
  <2> HIDE DEF level
  <2>2. PICK results \in SUBSET Ids, i \in Ids, encrypts \in BOOLEAN :
          /\ i \in results
          /\ \/ up /\ Mem0Adds(text, level, results) /\ UNCHANGED mock
             \/ ~up /\ results = {i} /\ mock' = [mock EXCEPT ![i] = text] /\ UNCHANGED mem0
          /\ deleted' = deleted \ results
          /\ GoTo(t, "persist", NewJob(i, results \ {i}, text, level, encrypts))
          /\ Works \/ Fails
    <3>1. AddDoes(t, text, level)
      BY <1>1, AddSteps DEF level
    <3> QED BY <3>1, Zenon DEF AddDoes
  <2> DEFINE j == NewJob(i, results \ {i}, text, level, encrypts)
  <2>3. j.id = i /\ j.more = results \ {i}
    BY DEF NewJob
  <2> HIDE DEF j
  <2>4. UNCHANGED <<rows, up>> /\ t = Loop
    BY <1>1, <1>l DEF Add
  <2>5. pc'[Loop] = "persist" /\ job'[Loop].id = i /\ job'[Loop].more = results \ {i}
    BY <2>2, <2>3, <2>4, <1>p, <1>l DEF GoTo, j
  <2>6. /\ \A k \in Ids \ results : mem0'[k] = mem0[k] /\ mock'[k] = mock[k]
        /\ ~up => UNCHANGED mem0
    <3>1. CASE up /\ Mem0Adds(text, level, results) /\ UNCHANGED mock
      BY <3>1, <2>1, <1>p, Mem0AddsCovered
    <3>2. CASE ~up /\ results = {i} /\ mock' = [mock EXCEPT ![i] = text] /\ UNCHANGED mem0
      BY <3>2, <1>p
    <3> QED BY <2>2, <3>1, <3>2
  <2>f. faults' \in {faults, faults + 1}
    BY <2>2 DEF Works, Fails
  <2>7. NothingUnderway'
    BY <2>2, <2>5
  <2>8. RowsGoFirst'
    BY <2>5
  <2>9. AbsentIsEmpty'
    BY <2>f, <2>4, <2>6, <1>f
  <2>10. DeletedForGood'
    BY <2>f, <2>2, <2>4, <2>6, <1>f
  <2> QED BY <2>7, <2>8, <2>9, <2>10
<1>2. ASSUME NEW t \in Threads, Persist(t) PROVE Goal
  <2>1. /\ t = Loop /\ pc[Loop] = "persist"
        /\ UNCHANGED <<mem0, mock, up, deleted>> /\ faults' \in {faults, faults + 1}
    BY <1>2, <1>l, <1>p DEF Persist, Works, Fails
  <2>2. \A i \in Ids : i # job[Loop].id => rows'[i] = rows[i]
    BY <1>2, <2>1, <1>p DEF Persist
  <2>3. \/ pc'[Loop] = "idle"
        \/ /\ pc'[Loop] = "persist" /\ job'[Loop].id \in job[Loop].more
           /\ job'[Loop].more \subseteq job[Loop].more
    <3>1. CASE Done(Loop)
      BY <3>1, <1>l, <1>p DEF Done
    <3>2. ASSUME NEW i \in job[Loop].more,
                 GoTo(Loop, "persist", NewJob(i, job[Loop].more \ {i}, job[Loop].text,
                                              job[Loop].level, job[Loop].seals))
          PROVE  /\ pc'[Loop] = "persist" /\ job'[Loop].id = i
                 /\ job'[Loop].more = job[Loop].more \ {i}
      <4> DEFINE j == NewJob(i, job[Loop].more \ {i}, job[Loop].text,
                             job[Loop].level, job[Loop].seals)
      <4>1. j.id = i /\ j.more = job[Loop].more \ {i}
        BY DEF NewJob
      <4> HIDE DEF j
      <4> QED BY <3>2, <4>1, <1>l, <1>p DEF GoTo, j
    <3>3. Done(Loop) \/ \E i \in job[Loop].more :
              GoTo(Loop, "persist", NewJob(i, job[Loop].more \ {i}, job[Loop].text,
                                           job[Loop].level, job[Loop].seals))
      BY <1>2, <2>1, Zenon DEF Persist, Onward, NewJob
    <3> QED BY <3>1, <3>2, <3>3
  <2> QED BY <2>1, <2>2, <2>3, <1>f
<1>3. ASSUME NEW i \in Ids, NEW text \in Texts \cup {None},
             NEW asked \in UserLevels \cup {NoLevel}, Update(i, text, asked)
      PROVE  Goal
  <2>1. /\ pc'[Loop] = "reseal"
        /\ UNCHANGED <<rows, up, deleted, faults>>
    BY <1>3, <1>l, <1>p DEF Update, GoTo
  <2>2. /\ Found(i)
        /\ \/ UNCHANGED <<mem0, mock>>
           \/ up /\ UNCHANGED mock /\ \E c : mem0' = [mem0 EXCEPT ![i] = c]
           \/ ~up /\ UNCHANGED mem0 /\ mock' = [mock EXCEPT ![i] = text]
    BY <1>3 DEF Update
  <2> QED BY <2>1, <2>2, <1>p, <1>f DEF Found
<1>4. CASE Reseal
  <2>1. /\ pc'[Loop] = "idle" /\ UNCHANGED <<mem0, mock, up, deleted>>
        /\ faults' \in {faults, faults + 1}
    BY <1>4, <1>l, <1>p DEF Reseal, Done, Works, Fails
  <2>2. \A i \in Ids : rows[i] = None => rows'[i] = None
    BY <1>4, <1>p DEF Reseal
  <2> QED BY <2>1, <2>2, <1>f
<1>5. ASSUME NEW i \in Ids, Delete(i) PROVE Goal
  <2>1. /\ pc'[Loop] \in {"idle", "drop"} /\ UNCHANGED <<mem0, mock, up, deleted>>
        /\ faults' \in {faults, faults + 1}
    BY <1>5, <1>l, <1>p DEF Delete, GoTo, Works, Fails
  <2>2. \A k \in Ids : rows[k] = None => rows'[k] = None
    BY <1>5, <1>p, WipedNone DEF Delete
  <2> QED BY <2>1, <2>2, <1>f
<1>6. CASE DropRow
  <2>1. /\ UNCHANGED <<mem0, mock, up, deleted>> /\ faults' \in {faults, faults + 1}
        /\ pc[Loop] = "drop" /\ job[Loop].id \in Ids
    BY <1>6, <1>t, <1>l DEF DropRow, Works, Fails, TInv, JobsMatch, Job
  <2>2. CASE rows' = [rows EXCEPT ![job[Loop].id] = None] /\ GoTo(Loop, "forget", job[Loop])
    <3>1. pc'[Loop] = "forget" /\ job'[Loop] = job[Loop]
      BY <2>2, <1>l, <1>p DEF GoTo
    <3> QED BY <2>1, <2>2, <3>1, <1>f, <1>p
  <2>3. CASE UNCHANGED rows /\ Done(Loop)
    BY <2>1, <2>3, <1>f, <1>l, <1>p DEF Done
  <2> QED BY <1>6, <2>2, <2>3 DEF DropRow
<1>7. CASE Forget
  <2> DEFINE i == job[Loop].id
  <2>1. /\ pc[Loop] = "forget" /\ pc'[Loop] = "idle" /\ UNCHANGED <<rows, up>>
        /\ mock' = [mock EXCEPT ![i] = None] /\ deleted' = deleted \cup ({i} \cap used)
    BY <1>7, <1>l, <1>p DEF Forget, Done
  <2>2. \/ faults' = faults /\ mem0' = IF up THEN [mem0 EXCEPT ![i] = None] ELSE mem0
        \/ faults' = faults + 1 /\ UNCHANGED mem0
    BY <1>7 DEF Forget, Works, Fails
  <2>3. \A k \in Ids : mem0[k] = None => mem0'[k] = None
    BY <2>2, <1>p
  <2>4. \A k \in deleted' : rows'[k] = None /\ mock'[k] = None
    BY <2>1, <1>f, <1>p
  <2>5. \A k \in deleted' : mem0'[k] = None \/ faults' > 0
    <3>1. CASE faults' = faults + 1
      BY <3>1, <1>f
    <3>2. CASE faults' = faults /\ mem0' = IF up THEN [mem0 EXCEPT ![i] = None] ELSE mem0
      BY <3>2, <2>1, <2>3, <1>f, <1>p
    <3> QED BY <2>2, <3>1, <3>2
  <2> QED BY <2>1, <2>2, <2>3, <2>4, <2>5, <1>f
<1>8. CASE DropAllRows
  <2>1. /\ UNCHANGED <<mem0, mock, up, deleted>> /\ faults' \in {faults, faults + 1}
    BY <1>8 DEF DropAllRows, Works, Fails
  <2>2. \/ UNCHANGED <<rows, pc, job>>
        \/ (\A i \in Ids : rows'[i] = None) /\ pc'[Loop] = "forgetAll"
    BY <1>8, <1>l, <1>p DEF DropAllRows
  <2> QED BY <2>1, <2>2, <1>f
<1>9. CASE ForgetAll
  <2>1. /\ pc[Loop] = "forgetAll" /\ pc'[Loop] = "idle" /\ UNCHANGED <<rows, up, used>>
    BY <1>9, <1>l, <1>p DEF ForgetAll, Done
  <2>2. CASE /\ faults' = faults /\ mem0' = IF up THEN [i \in Ids |-> None] ELSE mem0
             /\ mock' = [i \in Ids |-> None] /\ deleted' = used
    BY <2>1, <2>2, <1>f
  <2>3. CASE faults' = faults + 1 /\ UNCHANGED <<mem0, mock, deleted>>
    BY <2>1, <2>3, <1>f
  <2> QED BY <1>9, <2>2, <2>3 DEF ForgetAll, Works, Fails
<1>10. CASE CopyFails
  BY <1>10, <1>f DEF CopyFails, Fails
<1>11. CASE Restart
  <2>1. /\ pc'[Loop] = "idle" /\ UNCHANGED <<rows, mem0, deleted>>
        /\ \A i \in Ids : rows[i] = None => mock'[i] = None
    BY <1>11, <1>l DEF Restart
  <2>2. \/ faults' = faults /\ UNCHANGED up
        \/ faults' = faults + 1
    BY <1>11 DEF Restart, Works, Fails
  <2> QED BY <2>1, <2>2, <1>f
<1>12. CASE UNCHANGED vars
  BY <1>12 DEF vars
<1> QED BY <1>1, <1>2, <1>3, <1>4, <1>5, <1>6, <1>7, <1>8, <1>9, <1>10, <1>11, <1>12 DEF Next

(* With the loop alone, an answered deletion is final: no row, no key and no *)
(* copy is left or comes back, through any updates, restarts and failures,   *)
(* except in mem0 once a call or a start of it has failed (core/memory.py    *)
(* delete, delete_all).                                                     *)
THEOREM DeletedStaysDeleted == Workers = {} /\ Spec => []DeletedForGood
<1>1. Workers = {} /\ DInv /\ [Next]_vars => DInv'
  BY DeletedStep
<1>2. DInv => DeletedForGood
  BY DEF DInv
<1>3. CASE Workers = {}
  <2>1. DInv /\ [Next]_vars => DInv'
    BY <1>1, <1>3
  <2> QED BY InitDeleted, <2>1, <1>2, PTL DEF Spec
<1>4. CASE Workers # {}
  BY <1>4
<1> QED BY <1>3, <1>4

-----------------------------------------------------------------------------
(* What the stores say of one another with the loop alone: whatever memory   *)
(* is not in hand has the same text in the dictionary and in its row (Kept), *)
(* and a level that fits the text in the row (RowsFit) and in mem0 (Served). *)
Saved(i) == IF rows[i] = None THEN None ELSE Readable(rows[i])

Fits(r, text) == r.mine \/ text = Erased \/ Signs[text] = NoLevel \/ Signs[text] <= r.level

Covers(j) == j.text \in Texts /\ (Signs[j.text] = NoLevel \/ Signs[j.text] <= j.level)

Resolved ==
    /\ pc[Loop] = "persist" => Covers(job[Loop])
    /\ pc[Loop] = "reseal" => job[Loop].mine \/ Covers(job[Loop])

RowsFit == faults = 0 => \A i \in Ids : rows[i] # None => Fits(rows[i], Readable(rows[i]))

InHand(i) ==
    \/ pc[Loop] = "forgetAll"
    \/ pc[Loop] # "idle" /\ job[Loop].id = i
    \/ pc[Loop] = "persist" /\ i \in job[Loop].more

Kept ==
    (faults = 0 /\ ~up) =>
        /\ \A i \in Ids : InHand(i) \/ mock[i] = Saved(i)
        /\ pc[Loop] = "persist" =>
              mock[job[Loop].id] = job[Loop].text /\ job[Loop].more = {}
        /\ pc[Loop] = "reseal" =>
              /\ rows[job[Loop].id] # None
              /\ mock[job[Loop].id] = IF job[Loop].text # None THEN job[Loop].text
                                      ELSE Saved(job[Loop].id)

(* The memories in which mem0 kept older words are left out.                 *)
Backed(i) == mem0[i] # None =>
    rows[i] # None /\ (mem0[i].older \/ Fits(rows[i], mem0[i].text))

Under(i, level) ==
    mem0[i].older \/ Signs[mem0[i].text] = NoLevel \/ Signs[mem0[i].text] <= level

Served ==
    (faults = 0 /\ up /\ restarts = 0) =>
        /\ \A i \in Ids : InHand(i) \/ Backed(i)
        /\ pc[Loop] = "persist" =>
              \A i \in Ids : i = job[Loop].id \/ i \in job[Loop].more =>
                                Under(i, job[Loop].level)
        /\ pc[Loop] = "reseal" =>
              /\ rows[job[Loop].id] # None
              /\ job[Loop].text # None => mem0[job[Loop].id].text = job[Loop].text

SInv == Resolved /\ RowsFit /\ Kept /\ Served

LEMMA NewRowFits ==
    ASSUME NEW j \in Job, Covers(j)
    PROVE  /\ Readable(NewRow(j)) = j.text
           /\ Fits(NewRow(j), j.text)
           /\ NewRow(j).level = j.level
BY VaultAssumption DEF NewRow, Covers, Readable, Fits

LEMMA AmendedFits ==
    ASSUME NEW r \in Row, NEW j \in Job, j.mine \/ Covers(j)
    PROVE  /\ Readable(Amended(r, j, TRUE)) = IF j.text # None THEN j.text ELSE Readable(r)
           /\ \A text : j.text = None \/ text = j.text => Fits(Amended(r, j, TRUE), text)
<1>1. CASE j.text = None
  <2>1. j.mine
    BY <1>1, VaultAssumption DEF Covers
  <2> QED BY <1>1, <2>1 DEF Amended, Readable, Fits
<1>2. CASE j.text # None
  BY <1>2 DEF Amended, Readable, Fits, Covers
<1> QED BY <1>1, <1>2

LEMMA WipedFits ==
    ASSUME NEW r \in Row, Fits(r, Readable(r))
    PROVE  Fits(Wiped(r), Readable(Wiped(r)))
BY DEF Wiped, Row, Readable, Fits

LEMMA InitStores == Init => SInv
BY DEF Init, SInv, Resolved, RowsFit, Kept, Served, Backed, Saved, Threads

LEMMA StoresStep ==
    ASSUME Workers = {}, TInv, RowsGoFirst, SInv, [Next]_vars
    PROVE  SInv'
<1>t. /\ rows \in [Ids -> Row \cup {None}] /\ mem0 \in [Ids -> Copy \cup {None}]
      /\ mock \in [Ids -> Texts \cup {None, Erased}]
      /\ pc \in [{Loop} -> Stages] /\ job \in [{Loop} -> Job \cup {None}]
      /\ faults \in Nat /\ restarts \in Nat
  BY VaultAssumption DEF TInv, TypeOK, Threads
<1>l. Threads = {Loop}
  BY DEF Threads
<1>j. pc[Loop] \in {"persist", "reseal", "drop", "forget"} => job[Loop] \in Job /\ job[Loop].id \in Ids
  BY <1>l DEF TInv, JobsMatch, Job
<1>n. None \notin Row
  BY VaultAssumption
<1> USE DEF SInv
<1>1. ASSUME NEW t \in Threads, NEW text \in Texts, NEW asked \in UserLevels \cup {NoLevel},
             NEW consent \in BOOLEAN, Add(t, text, asked, consent)
      PROVE  SInv'
  <2> DEFINE level == AddLevel(text, asked)
  <2>1. level \in 0..3 /\ (Signs[text] = NoLevel \/ Signs[text] <= level)
    BY AddLevelType
  <2> HIDE DEF level
  <2>2. PICK results \in SUBSET Ids, i \in Ids, encrypts \in BOOLEAN :
          /\ i \in results
          /\ \/ up /\ Mem0Adds(text, level, results) /\ UNCHANGED mock
             \/ ~up /\ results = {i} /\ mock' = [mock EXCEPT ![i] = text] /\ UNCHANGED mem0
          /\ GoTo(Loop, "persist", NewJob(i, results \ {i}, text, level, encrypts))
          /\ Works \/ Fails
    <3>1. AddDoes(t, text, level)
      BY <1>1, AddSteps DEF level
    <3>2. t = Loop
      BY <1>l
    <3> QED BY <3>1, <3>2, Zenon DEF AddDoes
  <2> DEFINE j == NewJob(i, results \ {i}, text, level, encrypts)
  <2>3. /\ j.id = i /\ j.more = results \ {i} /\ j.text = text /\ j.level = level
        /\ Covers(j)
    BY <2>1 DEF NewJob, Covers
  <2> HIDE DEF j
  <2>4. UNCHANGED <<rows, up, restarts>> /\ pc[Loop] = "idle"
    BY <1>1, <1>l DEF Add
  <2>5. pc'[Loop] = "persist" /\ job'[Loop] = j
    BY <2>2, <1>t DEF GoTo, j
  <2>f. faults' = faults \/ faults' = faults + 1
    BY <2>2 DEF Works, Fails
  <2>6. Resolved' /\ RowsFit'
    BY <2>f, <2>3, <2>4, <2>5, <1>t DEF Resolved, RowsFit
  <2>7. Kept'
    <3> SUFFICES ASSUME faults' = 0, ~up' PROVE Kept'
      BY DEF Kept
    <3>1. /\ faults = 0 /\ results = {i} /\ mock' = [mock EXCEPT ![i] = text]
      BY <2>f, <2>2, <2>4, <1>t
    <3> QED BY <3>1, <2>3, <2>4, <2>5, <1>t DEF Kept, InHand, Saved
  <2>8. Served'
    <3> SUFFICES ASSUME faults' = 0, up', restarts' = 0 PROVE Served'
      BY DEF Served
    <3>1. faults = 0 /\ up /\ restarts = 0 /\ Mem0Adds(text, level, results)
      BY <2>f, <2>2, <2>4, <1>t
    <3>2. /\ \A k \in Ids \ results : mem0'[k] = mem0[k]
          /\ \A k \in results : Under(k, level)'
      BY <3>1, <2>1, <1>t, Mem0AddsCovered DEF Under
    <3>3. \A k \in Ids \ results : Backed(k)
      BY <3>1, <2>4 DEF Served, InHand
    <3>4. \A k \in Ids \ results : Backed(k)'
      BY <3>2, <3>3, <2>4 DEF Backed
    <3>5. \A k \in results : InHand(k)'
      BY <2>3, <2>5 DEF InHand
    <3>6. level = job'[Loop].level
      BY <2>3, <2>5
    <3>7. \A k \in Ids : k = i \/ k \in results \ {i} => Under(k, job[Loop].level)'
      BY <3>2, <3>6, <2>2 DEF Under
    <3> QED BY <3>4, <3>5, <3>7, <2>3, <2>5 DEF Served
  <2> QED BY <2>6, <2>7, <2>8
<1>2. ASSUME NEW t \in Threads, Persist(t) PROVE SInv'
  <2> DEFINE i == job[Loop].id
             new == NewRow(job[Loop])
  <2>1. /\ pc[Loop] = "persist" /\ UNCHANGED <<mem0, mock, up, restarts>>
        /\ \/ faults' = faults /\ rows' = [rows EXCEPT ![i] = new] /\ Onward(Loop)
           \/ faults' = faults + 1 /\ pc'[Loop] = "idle"
    BY <1>2, <1>l, <1>t DEF Persist, Done, Works, Fails
  <2>2. /\ i \in Ids /\ Readable(new) = job[Loop].text /\ Fits(new, job[Loop].text)
        /\ new # None /\ new.level = job[Loop].level
        /\ Covers(job[Loop]) /\ job[Loop] \in Job
    <3>1. Covers(job[Loop]) /\ job[Loop] \in Job
      BY <2>1, <1>j DEF Resolved
    <3>2. new \in Row
      BY <3>1, <2>1, <1>l, NewRowType DEF TInv, JobsMatch
    <3> QED BY <3>1, <3>2, <2>1, <1>j, <1>n, NewRowFits
  <2> HIDE DEF new
  <2>3. CASE faults' = faults + 1 /\ pc'[Loop] = "idle"
    BY <2>1, <2>3, <1>t DEF Resolved, RowsFit, Kept, Served
  <2>4. CASE faults' = faults /\ rows' = [rows EXCEPT ![i] = new] /\ Onward(Loop)
    <3>1. rows'[i] = new /\ \A k \in Ids : k # i => rows'[k] = rows[k]
      BY <2>2, <2>4, <1>t
    <3>2. RowsFit'
      BY <2>2, <2>4, <3>1 DEF RowsFit
    <3>3. \A k \in Ids : Under(k, job[Loop].level) /\ k = i => Backed(k)'
      BY <2>1, <2>2, <3>1 DEF Under, Backed, Fits
    <3>4. \A k \in Ids : k # i /\ Backed(k) => Backed(k)'
      BY <2>1, <3>1 DEF Backed
    <3>5. CASE job[Loop].more = {}
      <4>1. pc'[Loop] = "idle"
        BY <2>4, <3>5, <1>t DEF Onward, Done
      <4>2. Resolved'
        BY <4>1 DEF Resolved
      <4>3. Kept'
        BY <2>1, <2>2, <2>4, <3>1, <3>5, <4>1 DEF Kept, InHand, Saved
      <4>4. Served'
        BY <2>1, <2>2, <2>4, <3>3, <3>4, <3>5, <4>1 DEF Served, InHand
      <4> QED BY <3>2, <4>2, <4>3, <4>4
    <3>6. CASE job[Loop].more # {}
      <4>1. PICK k \in job[Loop].more :
              GoTo(Loop, "persist", NewJob(k, job[Loop].more \ {k}, job[Loop].text,
                                           job[Loop].level, job[Loop].seals))
        BY <2>4, <3>6, Zenon DEF Onward, NewJob
      <4> DEFINE j == NewJob(k, job[Loop].more \ {k}, job[Loop].text,
                             job[Loop].level, job[Loop].seals)
      <4>2. /\ j.id = k /\ j.more = job[Loop].more \ {k} /\ j.text = job[Loop].text
            /\ j.level = job[Loop].level /\ Covers(j)
        BY <2>2 DEF NewJob, Covers
      <4> HIDE DEF j
      <4>3. pc'[Loop] = "persist" /\ job'[Loop] = j
        BY <4>1, <1>t DEF GoTo, j
      <4>4. Resolved'
        BY <4>2, <4>3 DEF Resolved
      <4>5. Kept'
        BY <2>1, <2>4, <3>6 DEF Kept
      <4>6. Served'
        <5> SUFFICES ASSUME faults' = 0, up', restarts' = 0 PROVE Served'
          BY DEF Served
        <5>1. /\ \A l \in Ids : InHand(l) \/ Backed(l)
              /\ \A l \in Ids : l = i \/ l \in job[Loop].more => Under(l, job[Loop].level)
          BY <2>1, <2>4 DEF Served
        <5>2. \A l \in Ids : l \in job[Loop].more => InHand(l)'
          BY <4>2, <4>3 DEF InHand
        <5>3. \A l \in Ids : l # i /\ l \notin job[Loop].more => Backed(l)'
          BY <5>1, <3>4, <2>1 DEF InHand
        <5>4. \A l \in Ids : l = i => Backed(l)'
          BY <5>1, <3>3, <2>2
        <5>5. \A l \in Ids : l = k \/ l \in job[Loop].more => Under(l, job[Loop].level)'
          <6>1. job'[Loop].level = job[Loop].level
            BY <4>2, <4>3
          <6> QED BY <5>1, <6>1, <2>1 DEF Under
        <5> QED BY <5>2, <5>3, <5>4, <5>5, <4>2, <4>3 DEF Served
      <4> QED BY <3>2, <4>4, <4>5, <4>6
    <3> QED BY <3>5, <3>6
  <2> QED BY <2>1, <2>3, <2>4
<1>3. ASSUME NEW i \in Ids, NEW text \in Texts \cup {None},
             NEW asked \in UserLevels \cup {NoLevel}, Update(i, text, asked)
      PROVE  SInv'
  <2> DEFINE j == [id |-> i, more |-> {}, text |-> text, seals |-> FALSE,
                   mine |-> asked # NoLevel,
                   level |-> IF asked # NoLevel THEN asked ELSE AddLevel(text, NoLevel)]
  <2>1. /\ pc[Loop] = "idle" /\ pc'[Loop] = "reseal" /\ job'[Loop] = j
        /\ UNCHANGED <<rows, up, faults, restarts>>
    BY <1>3, <1>t DEF Update, GoTo
  <2>2. /\ Found(i) /\ (text # None \/ asked # NoLevel)
        /\ \/ text = None /\ UNCHANGED <<mem0, mock>>
           \/ text # None /\ up /\ UNCHANGED mock
              /\ mem0' = [mem0 EXCEPT ![i] = Renewed(mem0[i], text)]
           \/ text # None /\ ~up /\ UNCHANGED mem0 /\ mock' = [mock EXCEPT ![i] = text]
    BY <1>3 DEF Update
  <2>3. /\ j.id = i /\ j.text = text /\ (j.mine \/ Covers(j))
    <3>1. CASE asked # NoLevel
      BY <3>1
    <3>2. CASE asked = NoLevel
      <4>1. text \in Texts
        BY <3>2, <2>2
      <4>2. Signs[text] = NoLevel \/ Signs[text] <= AddLevel(text, NoLevel)
        BY <4>1, AddLevelType
      <4> QED BY <3>2, <4>1, <4>2 DEF Covers
    <3> QED BY <3>1, <3>2
  <2> HIDE DEF j
  <2>4. Resolved' /\ RowsFit'
    BY <2>1, <2>3 DEF Resolved, RowsFit
  <2>5. Kept'
    <3> SUFFICES ASSUME faults = 0, ~up PROVE Kept'
      BY <2>1 DEF Kept
    <3>1. mock[i] # None /\ mock[i] = Saved(i) /\ rows[i] # None
      BY <2>1, <2>2 DEF Found, Kept, InHand, Saved
    <3> QED BY <2>1, <2>2, <2>3, <3>1, <1>t DEF Kept, InHand, Saved
  <2>6. Served'
    <3> SUFFICES ASSUME faults = 0, up, restarts = 0 PROVE Served'
      BY <2>1 DEF Served
    <3>1. mem0[i] # None /\ rows[i] # None
      BY <2>1, <2>2 DEF Found, Served, InHand, Backed
    <3>2. /\ \A k \in Ids : k # i => mem0'[k] = mem0[k]
          /\ text # None => mem0'[i].text = text
      BY <2>2, <3>1, <1>t DEF Copy, Renewed
    <3> QED BY <2>1, <2>3, <3>1, <3>2 DEF Served, InHand, Backed
  <2> QED BY <2>4, <2>5, <2>6
<1>4. CASE Reseal
  <2> DEFINE j == job[Loop]
             i == j.id
             new == Amended(rows[i], j, TRUE)
  <2>1. /\ pc[Loop] = "reseal" /\ pc'[Loop] = "idle" /\ UNCHANGED <<mem0, mock, up, restarts>>
        /\ \/ faults' = faults
              /\ rows' = [rows EXCEPT ![i] = IF rows[i] = None THEN None ELSE new]
           \/ faults' = faults + 1
    BY <1>4, <1>t DEF Reseal, Done, Works, Fails
  <2>2. /\ i \in Ids
        /\ rows[i] # None =>
              /\ new # None
              /\ Readable(new) = IF j.text # None THEN j.text ELSE Readable(rows[i])
              /\ \A text : j.text = None \/ text = j.text => Fits(new, text)
    <3>1. (j.mine \/ Covers(j)) /\ j \in Job /\ j.level \in 0..3 /\ i \in Ids
      BY <2>1, <1>j, <1>l DEF Resolved, TInv, JobsMatch
    <3>2. rows[i] # None => new \in Row
      BY <3>1, AmendedType, <1>t DEF TInv, TypeOK
    <3> QED BY <3>1, <3>2, <1>n, <1>t, AmendedFits
  <2>3. rows[i] # None => Fits(new, Readable(new))
    BY <2>2
  <2> HIDE DEF new
  <2>4. CASE faults' = faults + 1
    BY <2>1, <2>4, <1>t DEF Resolved, RowsFit, Kept, Served
  <2>5. CASE faults' = faults /\ rows' = [rows EXCEPT ![i] = IF rows[i] = None THEN None ELSE new]
    <3>1. /\ rows'[i] = IF rows[i] = None THEN None ELSE new
          /\ \A k \in Ids : k # i => rows'[k] = rows[k]
      BY <2>2, <2>5, <1>t
    <3>2. Resolved' /\ RowsFit'
      BY <2>1, <2>3, <2>5, <3>1 DEF Resolved, RowsFit
    <3>3. Kept'
      BY <2>1, <2>2, <2>5, <3>1 DEF Kept, InHand, Saved
    <3>4. Served'
      BY <2>1, <2>2, <2>5, <3>1 DEF Served, InHand, Backed
    <3> QED BY <3>2, <3>3, <3>4
  <2> QED BY <2>1, <2>4, <2>5 DEF new
<1>5. ASSUME NEW i \in Ids, Delete(i) PROVE SInv'
  <2> DEFINE j == [id |-> i, more |-> {}, text |-> None, level |-> NoLevel,
                   seals |-> FALSE, mine |-> FALSE]
  <2>1. /\ pc[Loop] = "idle" /\ UNCHANGED <<mem0, mock, up, restarts>>
        /\ \/ /\ faults' = faults /\ rows' = [rows EXCEPT ![i] = Wiped(rows[i])]
              /\ pc'[Loop] = "drop" /\ job'[Loop].id = i
           \/ faults' = faults + 1 /\ pc'[Loop] = "idle"
    BY <1>5, <1>t DEF Delete, GoTo, Works, Fails
  <2>2. CASE faults' = faults + 1
    BY <2>1, <2>2, <1>t DEF Resolved, RowsFit, Kept, Served
  <2>3. CASE faults' = faults
    <3>1. /\ rows' = [rows EXCEPT ![i] = Wiped(rows[i])]
          /\ pc'[Loop] = "drop" /\ job'[Loop].id = i
      BY <2>1, <2>3, <1>t
    <3>2. \A k \in Ids : k # i => rows'[k] = rows[k]
      BY <3>1, <1>t
    <3>3. RowsFit'
      <4>1. rows'[i] = Wiped(rows[i])
        BY <3>1, <1>t
      <4> QED BY <2>3, <3>2, <4>1, <1>t, WipedNone, WipedFits DEF RowsFit
    <3>4. Resolved' /\ Kept' /\ Served'
      BY <2>1, <2>3, <3>1, <3>2 DEF Resolved, Kept, Served, InHand, Saved, Backed
    <3> QED BY <3>3, <3>4
  <2> QED BY <2>1, <2>2, <2>3
<1>6. CASE DropRow
  <2>1. /\ pc[Loop] = "drop" /\ UNCHANGED <<mem0, mock, up, restarts>>
        /\ \/ /\ faults' = faults /\ rows' = [rows EXCEPT ![job[Loop].id] = None]
              /\ pc'[Loop] = "forget" /\ job'[Loop] = job[Loop]
           \/ faults' = faults + 1 /\ pc'[Loop] = "idle"
    BY <1>6, <1>t DEF DropRow, GoTo, Done, Works, Fails
  <2>2. CASE faults' = faults + 1
    BY <2>1, <2>2, <1>t DEF Resolved, RowsFit, Kept, Served
  <2>3. CASE /\ faults' = faults /\ rows' = [rows EXCEPT ![job[Loop].id] = None]
             /\ pc'[Loop] = "forget" /\ job'[Loop] = job[Loop]
    BY <2>1, <2>3, <1>t DEF Resolved, RowsFit, Kept, Served, InHand, Saved, Backed
  <2> QED BY <2>1, <2>2, <2>3
<1>7. CASE Forget
  <2> DEFINE i == job[Loop].id
  <2>1. /\ pc[Loop] = "forget" /\ pc'[Loop] = "idle" /\ UNCHANGED <<rows, up, restarts>>
        /\ i \in Ids /\ mock' = [mock EXCEPT ![i] = None]
        /\ \/ faults' = faults /\ mem0' = IF up THEN [mem0 EXCEPT ![i] = None] ELSE mem0
           \/ faults' = faults + 1
    BY <1>7, <1>j, <1>t DEF Forget, Done, Works, Fails
  <2>2. CASE faults' = faults + 1
    BY <2>1, <2>2, <1>t DEF Resolved, RowsFit, Kept, Served
  <2>3. CASE faults' = faults /\ mem0' = IF up THEN [mem0 EXCEPT ![i] = None] ELSE mem0
    <3>1. rows[i] = None
      BY <2>1 DEF RowsGoFirst
    <3>2. Resolved' /\ RowsFit'
      BY <2>1, <2>3 DEF Resolved, RowsFit
    <3>3. Kept'
      BY <2>1, <2>3, <3>1, <1>t DEF Kept, InHand, Saved
    <3>4. Served'
      BY <2>1, <2>3, <1>t DEF Served, InHand, Backed
    <3> QED BY <3>2, <3>3, <3>4
  <2> QED BY <2>1, <2>2, <2>3
<1>8. CASE DropAllRows
  <2>1. /\ UNCHANGED <<mem0, mock, up, restarts>> /\ pc[Loop] = "idle"
        /\ \/ faults' = faults /\ rows' = [k \in Ids |-> None] /\ pc'[Loop] = "forgetAll"
           \/ faults' = faults + 1 /\ pc'[Loop] = "idle"
    BY <1>8, <1>t DEF DropAllRows, Works, Fails
  <2> QED BY <2>1, <1>t DEF Resolved, RowsFit, Kept, Served, InHand
<1>9. CASE ForgetAll
  <2>1. /\ pc[Loop] = "forgetAll" /\ pc'[Loop] = "idle" /\ UNCHANGED <<rows, up, restarts>>
        /\ \/ /\ faults' = faults /\ mock' = [k \in Ids |-> None]
              /\ mem0' = IF up THEN [k \in Ids |-> None] ELSE mem0
           \/ faults' = faults + 1
    BY <1>9, <1>t DEF ForgetAll, Done, Works, Fails
  <2>2. \A k \in Ids : rows[k] = None
    BY <2>1 DEF RowsGoFirst
  <2> QED BY <2>1, <2>2, <1>t DEF Resolved, RowsFit, Kept, Served, InHand, Saved, Backed
<1>10. CASE CopyFails
  BY <1>10, <1>t DEF CopyFails, Fails, Resolved, RowsFit, Kept, Served
<1>11. CASE Restart
  <2>1. /\ pc'[Loop] = "idle" /\ UNCHANGED rows /\ restarts' = restarts + 1
        /\ \A k \in Ids : mock'[k] = Saved(k)
        /\ \/ faults' = faults /\ up' = up
           \/ faults' = faults + 1
    BY <1>11, <1>l DEF Restart, Works, Fails, Saved
  <2> QED BY <2>1, <1>t DEF Resolved, RowsFit, Kept, Served, InHand, Saved
<1>12. CASE UNCHANGED vars
  BY <1>12 DEF vars, Resolved, RowsFit, Kept, Served, InHand, Saved, Backed, Under
<1> QED BY <1>1, <1>2, <1>3, <1>4, <1>5, <1>6, <1>7, <1>8, <1>9, <1>10, <1>11, <1>12 DEF Next

LEMMA StoresAlways == Workers = {} /\ Spec => [](TInv /\ SInv)
<1>1. CASE Workers = {}
  <2>1. (DInv /\ SInv) /\ [Next]_vars => (DInv /\ SInv)'
    BY <1>1, DeletedStep, StoresStep DEF DInv
  <2>2. Init => DInv /\ SInv
    BY InitDeleted, InitStores
  <2>3. DInv /\ SInv => TInv /\ SInv
    BY DEF DInv
  <2> QED BY <2>1, <2>2, <2>3, PTL DEF Spec
<1>2. CASE Workers # {}
  BY <1>2
<1> QED BY <1>1, <1>2

(* With the loop alone and no failure, no search and no listing under a cap  *)
(* gives out a text whose signs exceed it, through adds, changes of text or  *)
(* level, deletions and crashes at any step (core/memory.py search, get_all). *)
THEOREM LevelsFollowTexts == Workers = {} /\ Spec => []LevelFitsText
<1>1. TInv /\ SInv => LevelFitsText
  <2> SUFFICES ASSUME TInv, SInv, Quiet, faults = 0, up => restarts = 0,
                      NEW cap \in 0..3, NEW i \in Searched(cap) \cup Listed(cap)
               PROVE  \/ rows[i] # None /\ rows[i].mine
                      \/ up /\ mem0[i].older
                      \/ Text(i) = Erased \/ Signs[Text(i)] = NoLevel
                      \/ Signs[Text(i)] <= cap
    BY DEF LevelFitsText
  <2>1. pc[Loop] = "idle" /\ ~InHand(i) /\ i \in Ids /\ Found(i)
    BY DEF Quiet, Threads, InHand, Searched, Listed
  <2>2. rows[i] # None /\ ((up /\ mem0[i].older) \/ Fits(rows[i], Text(i)))
    <3>1. CASE up
      BY <2>1, <3>1 DEF SInv, Served, Backed, Found, Text
    <3>2. CASE ~up
      BY <2>1, <3>2 DEF SInv, Kept, RowsFit, Saved, Found, Text
    <3> QED BY <3>1, <3>2
  <2>3. rows[i].level <= cap /\ rows[i] \in Row
    BY <2>1, <2>2 DEF Searched, Listed, SearchLevel, TInv, TypeOK
  <2>4. Text(i) = Erased \/ Signs[Text(i)] \in 0..3 \cup {NoLevel}
    <3>1. Text(i) \in Texts \cup {Erased}
      BY <2>1 DEF TInv, TypeOK, Found, Text, Copy
    <3> QED BY <3>1, VaultAssumption
  <2> QED BY <2>2, <2>3, <2>4 DEF Fits, Row
<1> QED BY StoresAlways, <1>1, PTL

(* With the loop alone and no failure, the dictionary serves what the rows   *)
(* will give after a restart (core/memory.py _load_mock_from_store).        *)
THEOREM RestartChangesNothing == Workers = {} /\ Spec => []RestartKeepsText
<1>1. TInv /\ SInv => RestartKeepsText
  BY DEF SInv, Kept, InHand, Saved, RestartKeepsText, Quiet, Threads
<1> QED BY StoresAlways, <1>1, PTL

-----------------------------------------------------------------------------
(* The vector store                                                         *)
Tables == {"vectors", "metadata", "audit", "made"}

(* One story.                                                               *)
Sound(t) ==
    /\ DOMAIN t = Tables
    /\ t.vectors \in SUBSET VectorIds
    /\ DOMAIN t.metadata = t.vectors
    /\ t.audit \in [VectorIds -> Seq(Events)]
    /\ \A id \in VectorIds : id \in t.vectors <=> Puts(t.audit[id])

(* One more event decides whether a trail puts its vector there.            *)
LEMMA PutsAppend ==
    ASSUME NEW trail \in Seq(Events), NEW event \in Events
    PROVE  Puts(Append(trail, event)) <=>
              event \in {"insert", "update"} \/ (event = "access" /\ Puts(trail))
<1> DEFINE longer == Append(trail, event)
           n == Len(trail)
<1>1. /\ n \in Nat /\ DOMAIN trail = 1..n /\ DOMAIN longer = 1..(n + 1)
      /\ longer[n + 1] = event /\ \A i \in 1..n : longer[i] = trail[i]
  OBVIOUS
<1> HIDE DEF longer, n
<1>2. ASSUME Puts(longer)
      PROVE  event \in {"insert", "update"} \/ (event = "access" /\ Puts(trail))
  <2>1. PICK i \in 1..(n + 1) :
            /\ longer[i] \in {"insert", "update"}
            /\ \A j \in 1..(n + 1) : j > i => longer[j] = "access"
    BY <1>1, <1>2 DEF Puts
  <2>2. CASE i = n + 1
    BY <2>1, <2>2, <1>1
  <2>3. CASE i # n + 1
    <3>1. i \in 1..n /\ n + 1 > i /\ n + 1 \in 1..(n + 1)
      BY <2>1, <2>3, <1>1
    <3>2. \A j \in 1..n : j > i => trail[j] = "access"
      BY <2>1, <1>1
    <3> QED BY <3>1, <3>2, <2>1, <1>1 DEF Puts
  <2> QED BY <2>2, <2>3
<1>3. ASSUME event \in {"insert", "update"} PROVE Puts(longer)
  <2>1. n + 1 \in DOMAIN longer /\ \A j \in DOMAIN longer : ~(j > n + 1)
    BY <1>1
  <2> QED BY <2>1, <1>1, <1>3 DEF Puts
<1>4. ASSUME event = "access", Puts(trail) PROVE Puts(longer)
  <2>1. PICK i \in 1..n : /\ trail[i] \in {"insert", "update"}
                          /\ \A j \in 1..n : j > i => trail[j] = "access"
    BY <1>1, <1>4 DEF Puts
  <2>2. i \in DOMAIN longer /\ longer[i] \in {"insert", "update"}
    BY <2>1, <1>1
  <2>3. \A j \in DOMAIN longer : j > i => longer[j] = "access"
    BY <2>1, <1>1, <1>4
  <2> QED BY <2>2, <2>3 DEF Puts
<1>5. Puts(longer) <=> event \in {"insert", "update"} \/ (event = "access" /\ Puts(trail))
  BY <1>2, <1>3, <1>4
<1> QED BY <1>5 DEF longer

(* Logging an event appends it to the trails of the ids it is about.        *)
LEMMA LoggedTrail ==
    ASSUME NEW audit \in [VectorIds -> Seq(Events)], NEW event \in Events, NEW ids
    PROVE  /\ Logged(audit, event, ids) \in [VectorIds -> Seq(Events)]
           /\ \A id \in VectorIds :
                Puts(Logged(audit, event, ids)[id]) <=>
                   IF id \in ids
                   THEN event \in {"insert", "update"} \/ (event = "access" /\ Puts(audit[id]))
                   ELSE Puts(audit[id])
<1>1. \A id \in VectorIds : Append(audit[id], event) \in Seq(Events)
  OBVIOUS
<1>2. \A id \in VectorIds : Logged(audit, event, ids)[id] =
         IF id \in ids THEN Append(audit[id], event) ELSE audit[id]
  BY DEF Logged
<1>3. \A id \in VectorIds : Puts(Append(audit[id], event)) <=>
         event \in {"insert", "update"} \/ (event = "access" /\ Puts(audit[id]))
  BY PutsAppend
<1> QED BY <1>1, <1>2, <1>3 DEF Logged

-----------------------------------------------------------------------------
(* The jobs *)

Jobs ==
    [kind : {"insert"}, batch : UNION {[ids -> Metadata] : ids \in SUBSET VectorIds}]
    \cup [kind : {"update"}, id : VectorIds, level : Levels, expires : 0..MaxTime]
    \cup [kind : {"delete"}, id : VectorIds]
    \cup [kind : {"expire"}, now : Nat]
    \cup [kind : {"select"}, ids : SUBSET VectorIds, ceiling : 0..3, limit : Nat,
          past : SUBSET Nat, notes : BOOLEAN]
    \cup [kind : {"access"}, ids : SUBSET VectorIds]
    \cup [kind : {"open", "init", "drop"}]

Kinds == {"insert", "update", "delete", "expire", "access", "drop", "open", "init"}

(* The first job of a call is a job.                                        *)
LEMMA JobShape ==
    ASSUME NEW task \in Jobs
    PROVE  /\ task.kind \in Kinds \cup {"select"}
           /\ task.kind = "insert" => DOMAIN task.batch \in SUBSET VectorIds
           /\ task.kind \in {"update", "delete"} => task.id \in VectorIds
BY DEF Jobs, Kinds

(* A job's transaction as a whole keeps the story, and puts no vector that  *)
(* it has not written.                                                      *)
LEMMA AfterSound ==
    ASSUME NEW task \in Jobs, NEW t, Sound(t), task.kind # "select",
           task.kind \in {"update", "delete"} => task.id \in t.vectors
    PROVE  Sound(After(task, t)) /\ After(task, t).vectors \subseteq t.vectors \cup Written(task)
<1>1. task.kind \in Kinds
  BY JobShape
<1>2. CASE task.kind = "insert"
  <2> DEFINE ids == DOMAIN task.batch
             new == Inserted(task, t)
  <2>1. ids \in SUBSET VectorIds
    BY <1>2, JobShape
  <2>2. /\ DOMAIN new = Tables /\ new.vectors = t.vectors \cup ids
        /\ DOMAIN new.metadata = DOMAIN t.metadata \cup ids
        /\ new.audit = Logged(t.audit, "insert", ids)
    BY DEF Inserted, Sound, Tables
  <2>3. Sound(new)
    BY <2>1, <2>2, LoggedTrail DEF Sound, Events
  <2>4. After(task, t) = new
    BY <1>2 DEF After
  <2> QED BY <2>2, <2>3, <2>4, <1>2 DEF Written
<1>3. CASE task.kind = "update"
  <2> DEFINE new == Updated(task, t)
  <2>1. task.id \in t.vectors
    BY <1>3
  <2>2. /\ DOMAIN new = Tables /\ new.vectors = t.vectors
        /\ DOMAIN new.metadata = DOMAIN t.metadata
        /\ new.audit = Logged(t.audit, "update", {task.id})
    BY DEF Updated, Sound, Tables
  <2> HIDE DEF new
  <2>3. Sound(new)
    <3>1. t.audit \in [VectorIds -> Seq(Events)] /\ "update" \in Events
      BY DEF Sound, Events
    <3>2. PICK ids : ids = {task.id}
      OBVIOUS
    <3>3. /\ Logged(t.audit, "update", ids) \in [VectorIds -> Seq(Events)]
          /\ \A id \in VectorIds : Puts(Logged(t.audit, "update", ids)[id]) <=>
                               IF id \in ids
                               THEN \/ "update" \in {"insert", "update"}
                                    \/ "update" = "access" /\ Puts(t.audit[id])
                               ELSE Puts(t.audit[id])
      BY <3>1, LoggedTrail
    <3>4. /\ new.audit \in [VectorIds -> Seq(Events)]
          /\ \A id \in VectorIds : Puts(new.audit[id]) <=> id \in ids \/ Puts(t.audit[id])
      BY <3>2, <3>3, <2>2
    <3> QED BY <3>2, <3>4, <2>1, <2>2 DEF Sound
  <2>4. After(task, t) = new
    BY <1>3 DEF After, new
  <2> QED BY <2>2, <2>3, <2>4
<1>4. CASE task.kind = "delete"
  <2> DEFINE new == Deleted(task, t)
  <2>2. /\ DOMAIN new = Tables /\ new.vectors = t.vectors \ {task.id}
        /\ DOMAIN new.metadata = DOMAIN t.metadata \ {task.id}
        /\ new.audit = Logged(t.audit, "delete", {task.id})
    BY DEF Deleted, Without, Sound, Tables
  <2>3. Sound(new)
    BY <2>2, LoggedTrail DEF Sound, Events
  <2>4. After(task, t) = new
    BY <1>4 DEF After
  <2> QED BY <2>2, <2>3, <2>4
<1>5. CASE task.kind = "expire"
  <2> DEFINE new == CleanedUp(task, t)
             gone == Expired(t.metadata, task.now)
  <2>2. /\ DOMAIN new = Tables /\ new.vectors = t.vectors \ gone
        /\ DOMAIN new.metadata = DOMAIN t.metadata \ gone
        /\ new.audit = Logged(t.audit, "ttl_expire", gone)
    BY DEF CleanedUp, Without, Sound, Tables
  <2>3. Sound(new)
    BY <2>2, LoggedTrail DEF Sound, Events
  <2>4. After(task, t) = new
    BY <1>5 DEF After
  <2> QED BY <2>2, <2>3, <2>4
<1>6. CASE task.kind = "access"
  <2> DEFINE new == Accessed(task, t)
  <2>2. /\ DOMAIN new = Tables /\ new.vectors = t.vectors
        /\ DOMAIN new.metadata = DOMAIN t.metadata
        /\ new.audit = Logged(t.audit, "access", task.ids)
    BY DEF Accessed, Sound, Tables
  <2>3. Sound(new)
    BY <2>2, LoggedTrail DEF Sound, Events
  <2>4. After(task, t) = new
    BY <1>6 DEF After
  <2> QED BY <2>2, <2>3, <2>4
<1>7. CASE task.kind = "drop"
  <2>1. Sound(NoTables) /\ NoTables.vectors = {}
    BY DEF Sound, NoTables, Tables, Puts
  <2>2. After(task, t) = NoTables
    BY <1>7 DEF After
  <2> QED BY <2>1, <2>2
<1>8. CASE task.kind \in {"open", "init"}
  <2> DEFINE new == [t EXCEPT !.made = TRUE]
  <2>1. /\ DOMAIN new = Tables /\ new.vectors = t.vectors
        /\ new.metadata = t.metadata /\ new.audit = t.audit
    BY DEF Sound, Tables
  <2>2. Sound(new)
    BY <2>1 DEF Sound
  <2>3. After(task, t) = new
    BY <1>8 DEF After
  <2> QED BY <2>1, <2>2, <2>3
<1> QED BY <1>1, <1>2, <1>3, <1>4, <1>5, <1>6, <1>7, <1>8 DEF Kinds

(* The statements of a transaction write every table it changes.            *)
LEMMA OrderCovers ==
    ASSUME NEW task \in Jobs, NEW t, Sound(t), task.kind # "select"
    PROVE  /\ Order(task) \in Seq(Tables)
           /\ \A k \in Tables : \/ \E i \in DOMAIN Order(task) : Order(task)[i] = k
                                \/ After(task, t)[k] = t[k]
<1>1. task.kind \in Kinds
  BY JobShape
<1>2. CASE task.kind \in {"insert", "update"}
  <2>1. Order(task) = <<"vectors", "metadata", "audit">>
    BY <1>2 DEF Order
  <2>2. After(task, t)["made"] = t["made"]
    BY <1>2 DEF After, Inserted, Updated, Sound, Tables
  <2>3. /\ Order(task) \in Seq(Tables) /\ DOMAIN Order(task) = 1..3
        /\ Order(task)[1] = "vectors" /\ Order(task)[2] = "metadata" /\ Order(task)[3] = "audit"
    BY <2>1 DEF Tables
  <2> QED BY <2>2, <2>3 DEF Tables
<1>3. CASE task.kind \in {"delete", "expire"}
  <2>1. Order(task) = <<"audit", "metadata", "vectors">>
    BY <1>3 DEF Order
  <2>2. After(task, t)["made"] = t["made"]
    BY <1>3 DEF After, Deleted, CleanedUp, Sound, Tables
  <2>3. /\ Order(task) \in Seq(Tables) /\ DOMAIN Order(task) = 1..3
        /\ Order(task)[1] = "audit" /\ Order(task)[2] = "metadata" /\ Order(task)[3] = "vectors"
    BY <2>1 DEF Tables
  <2> QED BY <2>2, <2>3 DEF Tables
<1>4. CASE task.kind = "access"
  <2>1. Order(task) = <<"metadata", "audit">>
    BY <1>4 DEF Order
  <2>2. After(task, t)["made"] = t["made"] /\ After(task, t)["vectors"] = t["vectors"]
    BY <1>4 DEF After, Accessed, Sound, Tables
  <2>3. /\ Order(task) \in Seq(Tables) /\ DOMAIN Order(task) = 1..2
        /\ Order(task)[1] = "metadata" /\ Order(task)[2] = "audit"
    BY <2>1 DEF Tables
  <2> QED BY <2>2, <2>3 DEF Tables
<1>5. CASE task.kind = "drop"
  <2>1. Order(task) = <<"metadata", "vectors", "audit", "made">>
    BY <1>5 DEF Order
  <2>2. /\ Order(task) \in Seq(Tables) /\ DOMAIN Order(task) = 1..4
        /\ Order(task)[1] = "metadata" /\ Order(task)[2] = "vectors"
        /\ Order(task)[3] = "audit" /\ Order(task)[4] = "made"
    BY <2>1 DEF Tables
  <2> QED BY <2>2 DEF Tables
<1>6. CASE task.kind \in {"open", "init"}
  <2>1. Order(task) = <<"made">>
    BY <1>6 DEF Order
  <2>2. After(task, t) = [t EXCEPT !.made = TRUE]
    BY <1>6 DEF After
  <2>3. \A k \in Tables \ {"made"} : After(task, t)[k] = t[k]
    BY <2>2 DEF Sound
  <2>4. Order(task) \in Seq(Tables) /\ DOMAIN Order(task) = 1..1 /\ Order(task)[1] = "made"
    BY <2>1 DEF Tables
  <2> QED BY <2>3, <2>4
<1> QED BY <1>1, <1>2, <1>3, <1>4, <1>5, <1>6 DEF Kinds

-----------------------------------------------------------------------------
(* The invariant *)

(* The tables a transaction has still to write are those not yet as its job *)
(* leaves them.                                                             *)
Writing ==
    writer # nobody =>
        /\ writer \in Stores /\ jobs[writer] # <<>> /\ JobOf(writer).kind # "select"
        /\ JobOf(writer).kind \in {"update", "delete"} => JobOf(writer).id \in db.vectors
        /\ DOMAIN work = Tables /\ left \in Seq(Tables)
        /\ \A k \in Tables : \/ \E i \in DOMAIN left : left[i] = k
                             \/ work[k] = After(JobOf(writer), db)[k]

Todo(q) == q \in Seq(Jobs) /\ \A i \in DOMAIN q : i > 1 => q[i].kind # "expire"

Undisturbed(s) ==
    /\ found[s] \cap dead[s] = {} /\ dead[s] \cap db.vectors = {}
    /\ Does(s, "expire") => found[s] = {}

StoreInv ==
    /\ Sound(db) /\ Writing
    /\ clock \in Nat
    /\ jobs = [s \in Stores |-> jobs[s]] /\ \A s \in Stores : Todo(jobs[s])
    /\ found \in [Stores -> SUBSET VectorIds] /\ dead \in [Stores -> SUBSET VectorIds]
    /\ \A s \in Stores : Undisturbed(s)

(* A file without tables tells one story.                                   *)
LEMMA StoreInitInv == StoreInit => StoreInv
<1> SUFFICES ASSUME StoreInit PROVE StoreInv
  OBVIOUS
<1>1. /\ db = NoTables /\ writer = nobody /\ clock = 0
      /\ jobs = [s \in Stores |-> <<[kind |-> "open"]>>]
      /\ found = [s \in Stores |-> {}] /\ dead = [s \in Stores |-> {}]
  BY DEF StoreInit
<1>2. Sound(db)
  BY <1>1 DEF Sound, NoTables, Tables, Puts
<1>3. [kind |-> "open"] \in Jobs
  BY DEF Jobs
<1>4. Todo(<<[kind |-> "open"]>>)
  BY <1>3 DEF Todo
<1> QED BY <1>1, <1>2, <1>4 DEF StoreInv, Writing, Undisturbed

(* A call is a first job and the rest.                                      *)
LEMMA TodoHead ==
    ASSUME NEW q, Todo(q), q # <<>>
    PROVE  Head(q) \in Jobs /\ Todo(Tail(q)) /\ (Tail(q) # <<>> => Head(Tail(q)).kind # "expire")
<1>1. q \in Seq(Jobs) /\ Len(q) \in Nat /\ Len(q) > 0 /\ Head(q) = q[1] /\ q[1] \in Jobs
  BY DEF Todo
<1>2. /\ Tail(q) \in Seq(Jobs) /\ Len(Tail(q)) = Len(q) - 1
      /\ \A i \in 1..(Len(q) - 1) : Tail(q)[i] = q[i + 1]
  BY <1>1
<1>3. DOMAIN q = 1..Len(q) /\ DOMAIN Tail(q) = 1..(Len(q) - 1)
  BY <1>1, <1>2
<1>4. ASSUME NEW i \in DOMAIN Tail(q) PROVE Tail(q)[i].kind # "expire"
  <2>1. i + 1 \in DOMAIN q /\ i + 1 > 1 /\ Tail(q)[i] = q[i + 1]
    BY <1>1, <1>2, <1>3, <1>4
  <2> QED BY <2>1 DEF Todo
<1>5. Tail(q) # <<>> => Head(Tail(q)) = Tail(q)[1] /\ 1 \in DOMAIN Tail(q)
  BY <1>1, <1>2, <1>3
<1> QED BY <1>1, <1>2, <1>4, <1>5 DEF Todo

(* A step of a store that is not writing leaves the writer alone.           *)
LEMMA OthersWrite ==
    ASSUME StoreInv, NEW s \in Stores, writer # s \/ writer' = nobody,
           writer' \in {writer, nobody}, NEW q,
           jobs' = [jobs EXCEPT ![s] = q], UNCHANGED <<db, work, left>>
    PROVE  Writing'
<1>1. CASE writer' = nobody
  BY <1>1 DEF Writing
<1>2. CASE writer' # nobody
  <2>1. writer' = writer /\ writer # nobody /\ writer # s
    BY <1>2
  <2>2. writer \in Stores
    BY <2>1 DEF StoreInv, Writing
  <2>3. jobs'[writer] = jobs[writer]
    BY <2>1, <2>2 DEF StoreInv
  <2>4. JobOf(writer)' = JobOf(writer)
    BY <2>1, <2>3 DEF JobOf
  <2> HIDE DEF JobOf
  <2> QED BY <2>1, <2>3, <2>4 DEF StoreInv, Writing
<1> QED BY <1>1, <1>2

(* A new call of a store changes nothing in the file.                       *)
LEMMA CallStep ==
    ASSUME StoreInv, NEW s \in Stores, NEW todo, Todo(todo), Call(s, todo)
    PROVE  StoreInv'
<1>1. /\ jobs[s] = <<>> /\ jobs' = [jobs EXCEPT ![s] = todo]
      /\ found' = [found EXCEPT ![s] = {}] /\ dead' = [dead EXCEPT ![s] = {}]
      /\ UNCHANGED <<db, writer, work, left, clock>>
  BY DEF Call
<1>2. writer # s \/ writer = nobody
  BY <1>1 DEF StoreInv, Writing
<1>3. Writing'
  BY <1>1, <1>2, OthersWrite
<1>4. /\ jobs' = [r \in Stores |-> jobs'[r]] /\ \A r \in Stores : Todo(jobs'[r])
      /\ \A r \in Stores \ {s} : jobs'[r] = jobs[r]
  BY <1>1 DEF StoreInv
<1>5. /\ found' \in [Stores -> SUBSET VectorIds] /\ dead' \in [Stores -> SUBSET VectorIds]
      /\ found'[s] = {} /\ dead'[s] = {}
      /\ \A r \in Stores \ {s} : found'[r] = found[r] /\ dead'[r] = dead[r]
  BY <1>1 DEF StoreInv
<1>6. ASSUME NEW r \in Stores PROVE Undisturbed(r)'
  <2>1. CASE r = s
    BY <2>1, <1>5 DEF Undisturbed
  <2>2. CASE r # s
    BY <2>2, <1>1, <1>4, <1>5 DEF StoreInv, Undisturbed, Does, JobOf
  <2> QED BY <2>1, <2>2
<1> QED BY <1>1, <1>3, <1>4, <1>5, <1>6 DEF StoreInv

(* The calls.                                                               *)
LEMMA OneJob == ASSUME NEW task \in Jobs PROVE Todo(<<task>>)
BY DEF Todo

(* A call of two jobs is a sequence of jobs.                                *)
LEMMA TwoJobs ==
    ASSUME NEW task \in Jobs, NEW next \in Jobs, next.kind # "expire"
    PROVE  Todo(<<task, next>>)
BY DEF Todo

(* The calls insert, update, delete, search and reset.                      *)
LEMMA WritingCallsStep ==
    ASSUME StoreInv, NEW s \in Stores, InsertVectors(s) \/ UpdateVector(s) \/ DeleteVector(s) \/ Reset(s)
    PROVE  StoreInv'
<1>1. CASE InsertVectors(s)
  <2>1. PICK ids \in SUBSET VectorIds \ {{}}, level \in Levels, expires \in 0..Never :
           Call(s, <<[kind |-> "insert",
                      batch |-> [id \in ids |-> [level |-> level, expires |-> expires,
                                                 accesses |-> 0]]]>>)
    BY <1>1 DEF InsertVectors
  <2> DEFINE entries == [id \in ids |-> [level |-> level, expires |-> expires, accesses |-> 0]]
             task == [kind |-> "insert", batch |-> entries]
  <2>2. entries \in UNION {[some -> Metadata] : some \in SUBSET VectorIds}
    <3>1. entries \in [ids -> Metadata] /\ ids \in SUBSET VectorIds
      BY DEF Metadata
    <3> QED BY <3>1
  <2> HIDE DEF entries
  <2>3. task \in Jobs
    BY <2>2 DEF Jobs
  <2> HIDE DEF task
  <2>4. Todo(<<task>>)
    BY <2>3, OneJob
  <2>5. Call(s, <<task>>)
    BY <2>1 DEF task, entries
  <2> QED BY <2>4, <2>5, CallStep
<1>2. CASE UpdateVector(s)
  <2>1. PICK id \in VectorIds, level \in Levels, expires \in 0..MaxTime :
           Call(s, <<[kind |-> "update", id |-> id, level |-> level, expires |-> expires]>>)
    BY <1>2 DEF UpdateVector
  <2>2. [kind |-> "update", id |-> id, level |-> level, expires |-> expires] \in Jobs
    BY DEF Jobs
  <2> QED BY <2>1, <2>2, OneJob, CallStep
<1>3. CASE DeleteVector(s)
  <2>1. PICK id \in VectorIds : Call(s, <<[kind |-> "delete", id |-> id]>>)
    BY <1>3 DEF DeleteVector
  <2>2. [kind |-> "delete", id |-> id] \in Jobs
    BY DEF Jobs
  <2> QED BY <2>1, <2>2, OneJob, CallStep
<1>4. CASE Reset(s)
  <2> DEFINE first == [kind |-> "drop"]
             second == [kind |-> "init"]
  <2>1. first \in Jobs /\ second \in Jobs /\ second.kind # "expire"
    BY DEF Jobs
  <2>2. Call(s, <<first, second>>)
    BY <1>4 DEF Reset
  <2> HIDE DEF first, second
  <2> QED BY <2>1, <2>2, TwoJobs, CallStep
<1> QED BY <1>1, <1>2, <1>3, <1>4

(* What get and list read is a job.                                         *)
LEMMA ReadsIsAJob ==
    ASSUME NEW ids \in SUBSET VectorIds, NEW ceiling \in 0..3, NEW limit \in Nat,
           NEW past \in SUBSET Nat, NEW notes \in BOOLEAN
    PROVE  Reads(ids, ceiling, limit, past, notes) \in Jobs
           /\ Reads(ids, ceiling, limit, past, notes).kind # "expire"
BY DEF Reads, Jobs

(* The calls get and list.                                                  *)
LEMMA ReadingCallsStep ==
    ASSUME StoreInv, NEW s \in Stores, Search(s) \/ Get(s) \/ List(s)
    PROVE  StoreInv'
<1>1. Levels \subseteq 0..3 /\ Limits \subseteq Nat /\ clock \in Nat
  BY StoreAssumption DEF StoreInv
<1>2. CASE Search(s)
  <2>1. PICK ceiling \in Levels, limit \in Limits :
           Call(s, <<[kind |-> "expire", now |-> clock], Reads(VectorIds, ceiling, limit, {}, TRUE)>>)
    BY <1>2 DEF Search
  <2> DEFINE first == [kind |-> "expire", now |-> clock]
             second == Reads(VectorIds, ceiling, limit, {}, TRUE)
  <2>2. first \in Jobs
    BY <1>1 DEF Jobs
  <2>3. second \in Jobs /\ second.kind # "expire"
    BY <1>1, ReadsIsAJob
  <2>4. Call(s, <<first, second>>)
    BY <2>1
  <2> HIDE DEF first, second
  <2> QED BY <2>2, <2>3, <2>4, TwoJobs, CallStep
<1>3. CASE Get(s)
  <2>1. PICK id \in VectorIds : Call(s, <<Reads({id}, 3, 1, {}, TRUE)>>)
    BY <1>3 DEF Get
  <2>2. Reads({id}, 3, 1, {}, TRUE) \in Jobs
    <3>1. {id} \in SUBSET VectorIds /\ 3 \in 0..3 /\ 1 \in Nat /\ {} \in SUBSET Nat
      OBVIOUS
    <3> QED BY <3>1, ReadsIsAJob, Zenon
  <2> QED BY <2>1, <2>2, OneJob, CallStep
<1>4. CASE List(s)
  <2>1. PICK ceiling \in Levels, limit \in Limits :
           Call(s, <<Reads(VectorIds, ceiling, limit, {clock}, FALSE)>>)
    BY <1>4 DEF List
  <2>2. Reads(VectorIds, ceiling, limit, {clock}, FALSE) \in Jobs
    BY <1>1, ReadsIsAJob
  <2> QED BY <2>1, <2>2, OneJob, CallStep
<1> QED BY <1>2, <1>3, <1>4

(* A step that takes a store's job off, or gives it another list of them.   *)
LEMMA JobsChange ==
    ASSUME StoreInv, NEW s \in Stores, NEW q, Todo(q), jobs' = [jobs EXCEPT ![s] = q],
           q # <<>> => Head(q).kind # "expire",
           UNCHANGED <<db, found, dead>>
    PROVE  /\ jobs' = [r \in Stores |-> jobs'[r]] /\ \A r \in Stores : Todo(jobs'[r])
           /\ \A r \in Stores : Undisturbed(r)'
<1>1. jobs'[s] = q /\ \A r \in Stores \ {s} : jobs'[r] = jobs[r]
  BY DEF StoreInv
<1>2. ASSUME NEW r \in Stores PROVE Undisturbed(r)'
  BY <1>1 DEF StoreInv, Undisturbed, Does, JobOf
<1> QED BY <1>1, <1>2 DEF StoreInv

(* update and delete answer False and leave the file alone.                 *)
LEMMA NotFoundStep ==
    ASSUME StoreInv, NEW s \in Stores, NotFound(s)
    PROVE  StoreInv'
<1>1. /\ jobs[s] # <<>> /\ writer = nobody /\ jobs' = [jobs EXCEPT ![s] = Tail(jobs[s])]
      /\ UNCHANGED <<db, writer, work, left, found, dead, clock>>
  BY DEF NotFound, Transacts, Rest
<1>2. Todo(Tail(jobs[s])) /\ (Tail(jobs[s]) # <<>> => Head(Tail(jobs[s])).kind # "expire")
  BY <1>1, TodoHead DEF StoreInv
<1>3. Writing'
  BY <1>1 DEF Writing
<1>4. /\ jobs' = [r \in Stores |-> jobs'[r]] /\ \A r \in Stores : Todo(jobs'[r])
      /\ \A r \in Stores : Undisturbed(r)'
  BY <1>1, <1>2, JobsChange
<1> QED BY <1>1, <1>3, <1>4 DEF StoreInv

(* A transaction starts from the committed tables and has all of its        *)
(* statements left.                                                         *)
LEMMA BeginStep ==
    ASSUME StoreInv, NEW s \in Stores, BeginWork(s)
    PROVE  StoreInv'
<1>1. /\ jobs[s] # <<>> /\ JobOf(s).kind # "select"
      /\ JobOf(s).kind \in {"update", "delete"} => JobOf(s).id \in db.vectors
      /\ writer' = s /\ work' = db /\ left' = Order(JobOf(s))
      /\ UNCHANGED <<db, jobs, found, dead, clock>>
  BY DEF BeginWork, Transacts, Missing
<1>2. JobOf(s) \in Jobs
  BY <1>1, TodoHead DEF StoreInv, JobOf
<1>3. JobOf(s)' = JobOf(s)
  BY <1>1 DEF JobOf
<1>4. Writing'
  <2>1. Sound(db) /\ DOMAIN db = Tables
    BY DEF StoreInv, Sound
  <2>2. /\ Order(JobOf(s)) \in Seq(Tables)
        /\ \A k \in Tables : \/ \E i \in DOMAIN Order(JobOf(s)) : Order(JobOf(s))[i] = k
                             \/ After(JobOf(s), db)[k] = db[k]
    BY <1>1, <1>2, <2>1, OrderCovers
  <2>3. JobOf(writer)' = JobOf(s)
    BY <1>1 DEF JobOf
  <2> QED BY <1>1, <2>1, <2>2, <2>3 DEF Writing
<1>5. \A r \in Stores : Undisturbed(r)'
  BY <1>1 DEF StoreInv, Undisturbed, Does, JobOf
<1> QED BY <1>1, <1>4, <1>5 DEF StoreInv

(* A statement brings one table of the transaction to its end.              *)
LEMMA StatementStep ==
    ASSUME StoreInv, NEW s \in Stores, Statement(s)
    PROVE  StoreInv'
<1> DEFINE k == Head(left)
<1>1. /\ writer = s /\ left # <<>> /\ left' = Tail(left)
      /\ work' = [work EXCEPT ![k] = After(JobOf(s), db)[k]]
      /\ UNCHANGED <<db, writer, jobs, found, dead, clock>>
  BY DEF Statement
<1>2. writer # nobody
  BY <1>1, StoreAssumption
<1>3. /\ jobs[s] # <<>> /\ JobOf(s).kind # "select"
      /\ JobOf(s).kind \in {"update", "delete"} => JobOf(s).id \in db.vectors
      /\ DOMAIN work = Tables /\ left \in Seq(Tables)
      /\ \A t \in Tables : \/ \E i \in DOMAIN left : left[i] = t
                           \/ work[t] = After(JobOf(s), db)[t]
  BY <1>1, <1>2 DEF StoreInv, Writing
<1>4. /\ Len(left) \in Nat /\ Len(left) > 0 /\ k = left[1] /\ k \in Tables
      /\ Tail(left) \in Seq(Tables) /\ DOMAIN left = 1..Len(left)
      /\ DOMAIN Tail(left) = 1..(Len(left) - 1)
      /\ \A i \in 1..(Len(left) - 1) : Tail(left)[i] = left[i + 1]
  BY <1>1, <1>3
<1>5. /\ DOMAIN work' = Tables /\ work'[k] = After(JobOf(s), db)[k]
      /\ \A t \in Tables \ {k} : work'[t] = work[t]
  BY <1>1, <1>3, <1>4
<1>6. ASSUME NEW t \in Tables
      PROVE  \/ \E i \in DOMAIN left' : left'[i] = t
             \/ work'[t] = After(JobOf(s), db)[t]
  <2>1. CASE t = k
    BY <2>1, <1>5
  <2>2. CASE t # k
    <3>1. CASE work[t] = After(JobOf(s), db)[t]
      BY <2>2, <3>1, <1>5
    <3>2. CASE work[t] # After(JobOf(s), db)[t]
      <4>1. PICK i \in DOMAIN left : left[i] = t
        BY <3>2, <1>3
      <4>2. i - 1 \in 1..(Len(left) - 1) /\ (i - 1) + 1 = i
        BY <4>1, <2>2, <1>4
      <4>3. Tail(left)[i - 1] = t
        BY <4>1, <4>2, <1>4
      <4> QED BY <4>2, <4>3, <1>1, <1>4
    <3> QED BY <3>1, <3>2
  <2> QED BY <2>1, <2>2
<1>7. JobOf(writer)' = JobOf(s)
  BY <1>1 DEF JobOf
<1>8. Writing'
  BY <1>1, <1>3, <1>4, <1>5, <1>6, <1>7 DEF Writing
<1>9. \A r \in Stores : Undisturbed(r)'
  BY <1>1 DEF StoreInv, Undisturbed, Does, JobOf
<1> QED BY <1>1, <1>8, <1>9 DEF StoreInv

(* With no statement left the tables of the transaction are those of the    *)
(* whole operation, and become the committed ones.                          *)
LEMMA CommitStep ==
    ASSUME StoreInv, NEW s \in Stores, Commit(s)
    PROVE  StoreInv'
<1> DEFINE task == JobOf(s)
           new == After(task, db)
<1>1. /\ writer = s /\ left = <<>> /\ db' = work /\ writer' = nobody
      /\ jobs' = [jobs EXCEPT ![s] = Tail(jobs[s])]
      /\ dead' = [r \in Stores |->
            IF r = s /\ Does(s, "expire") THEN Expired(db.metadata, task.now)
            ELSE dead[r] \ Written(task)]
      /\ UNCHANGED <<work, left, found, clock>>
  BY DEF Commit, Rest
<1>2. writer # nobody
  BY <1>1, StoreAssumption
<1>3. /\ jobs[s] # <<>> /\ task.kind # "select"
      /\ task.kind \in {"update", "delete"} => task.id \in db.vectors
      /\ DOMAIN work = Tables
      /\ \A t \in Tables : \/ \E i \in DOMAIN left : left[i] = t
                           \/ work[t] = new[t]
  BY <1>1, <1>2 DEF StoreInv, Writing
<1>4. task \in Jobs
  BY <1>3, TodoHead DEF StoreInv, JobOf
<1>5. Sound(new) /\ new.vectors \subseteq db.vectors \cup Written(task)
  BY <1>3, <1>4, AfterSound DEF StoreInv
<1>6. \A t \in Tables : work[t] = new[t]
  <2>1. DOMAIN left = {}
    BY <1>1
  <2> QED BY <2>1, <1>3
<1>7. /\ work.vectors = new.vectors /\ work.metadata = new.metadata
      /\ work.audit = new.audit
  BY <1>6 DEF Tables
<1>8. Sound(db')
  BY <1>1, <1>3, <1>5, <1>7 DEF Sound
<1>9. Todo(Tail(jobs[s])) /\ (Tail(jobs[s]) # <<>> => Head(Tail(jobs[s])).kind # "expire")
  BY <1>3, TodoHead DEF StoreInv
<1>10. /\ jobs' = [r \in Stores |-> jobs'[r]] /\ \A r \in Stores : Todo(jobs'[r])
       /\ jobs'[s] = Tail(jobs[s]) /\ \A r \in Stores \ {s} : jobs'[r] = jobs[r]
  BY <1>1, <1>9 DEF StoreInv
<1>11. db'.vectors \subseteq db.vectors \cup Written(task)
  BY <1>1, <1>5, <1>7
<1>12. ASSUME NEW r \in Stores PROVE Undisturbed(r)' /\ dead'[r] \in SUBSET VectorIds
  <2>1. CASE r = s /\ Does(s, "expire")
    <3>1. dead'[r] = Expired(db.metadata, task.now)
      BY <2>1, <1>1
    <3>2. new.vectors = db.vectors \ Expired(db.metadata, task.now)
      BY <2>1 DEF Does, After, CleanedUp, StoreInv, Sound, Tables
    <3>3. found'[r] = {}
      BY <2>1, <1>1 DEF StoreInv, Undisturbed
    <3>4. ~Does(r, "expire")'
      BY <2>1, <1>9, <1>10 DEF Does, JobOf
    <3>5. Expired(db.metadata, task.now) \in SUBSET VectorIds
      BY DEF Expired, StoreInv, Sound
    <3>6. db'.vectors = new.vectors
      BY <1>1, <1>7
    <3> QED BY <3>1, <3>2, <3>3, <3>4, <3>5, <3>6 DEF Undisturbed
  <2>2. CASE ~(r = s /\ Does(s, "expire"))
    <3>1. dead'[r] = dead[r] \ Written(task)
      BY <2>2, <1>1
    <3>2. Undisturbed(r) /\ dead[r] \in SUBSET VectorIds
      BY DEF StoreInv
    <3>3. Does(r, "expire")' => Does(r, "expire")
      BY <1>9, <1>10 DEF Does, JobOf
    <3> QED BY <3>1, <3>2, <3>3, <1>1, <1>11 DEF Undisturbed
  <2> QED BY <2>1, <2>2
<1>13. dead' \in [Stores -> SUBSET VectorIds]
  BY <1>1, <1>12
<1>14. Writing'
  BY <1>1 DEF Writing
<1> QED BY <1>1, <1>8, <1>10, <1>12, <1>13, <1>14 DEF StoreInv

(* What a SELECT finds has a vector, and what has a vector was not removed  *)
(* by the clean-up before, unless it was written again.                     *)
LEMMA SelectStep ==
    ASSUME StoreInv, NEW s \in Stores, Select(s)
    PROVE  StoreInv'
<1>1. /\ Does(s, "select") /\ UNCHANGED <<db, writer, work, left, dead, clock>>
      /\ \E near \in SUBSET (db.vectors \cap JobOf(s).ids) :
            /\ found' = [found EXCEPT ![s] = near]
            /\ jobs' = [jobs EXCEPT ![s] =
                  IF near = {} \/ ~JobOf(s).notes THEN <<>> ELSE <<[kind |-> "access", ids |-> near]>>]
  <2>1. PICK near : 
            /\ near \subseteq db.vectors \cap DOMAIN db.metadata \cap JobOf(s).ids
            /\ found' = [found EXCEPT ![s] = near]
            /\ jobs' = [jobs EXCEPT ![s] =
                  IF near = {} \/ ~JobOf(s).notes THEN <<>> ELSE <<[kind |-> "access", ids |-> near]>>]
    BY DEF Select
  <2>2. Does(s, "select") /\ UNCHANGED <<db, writer, work, left, dead, clock>>
    BY DEF Select
  <2> QED BY <2>1, <2>2
<1>0. PICK near \in SUBSET (db.vectors \cap JobOf(s).ids) :
         /\ found' = [found EXCEPT ![s] = near]
         /\ jobs' = [jobs EXCEPT ![s] =
               IF near = {} \/ ~JobOf(s).notes THEN <<>> ELSE <<[kind |-> "access", ids |-> near]>>]
  BY <1>1
<1>2. PICK q : /\ q = IF near = {} \/ ~JobOf(s).notes THEN <<>> ELSE <<[kind |-> "access", ids |-> near]>>
               /\ jobs' = [jobs EXCEPT ![s] = q] /\ found' = [found EXCEPT ![s] = near]
  BY <1>0
<1>3. near \in SUBSET VectorIds /\ near \subseteq db.vectors
  BY DEF StoreInv, Sound
<1>4. Todo(q) /\ (q # <<>> => Head(q).kind # "expire")
  <2>1. [kind |-> "access", ids |-> near] \in Jobs
    BY <1>3 DEF Jobs
  <2>2. CASE q = <<>>
    BY <2>2 DEF Todo
  <2>3. CASE q = <<[kind |-> "access", ids |-> near]>>
    BY <2>1, <2>3, OneJob
  <2> QED BY <1>2, <2>2, <2>3
<1>5. writer # s \/ writer = nobody
  BY <1>1 DEF StoreInv, Writing, Does
<1>6. Writing'
  BY <1>1, <1>2, <1>5, OthersWrite
<1>7. /\ found' \in [Stores -> SUBSET VectorIds] /\ found'[s] = near
      /\ \A r \in Stores \ {s} : found'[r] = found[r]
  BY <1>2, <1>3 DEF StoreInv
<1>8. /\ jobs' = [r \in Stores |-> jobs'[r]] /\ \A r \in Stores : Todo(jobs'[r])
      /\ jobs'[s] = q /\ \A r \in Stores \ {s} : jobs'[r] = jobs[r]
  BY <1>2, <1>4 DEF StoreInv
<1>9. ASSUME NEW r \in Stores PROVE Undisturbed(r)'
  <2>1. CASE r = s
    BY <2>1, <1>1, <1>3, <1>4, <1>7, <1>8 DEF StoreInv, Undisturbed, Does, JobOf
  <2>2. CASE r # s
    BY <2>2, <1>1, <1>7, <1>8 DEF StoreInv, Undisturbed, Does, JobOf
  <2> QED BY <2>1, <2>2
<1> QED BY <1>1, <1>6, <1>7, <1>8, <1>9 DEF StoreInv

(* A transaction that fails, and a process that dies.                       *)
LEMMA RollbackStep ==
    ASSUME StoreInv, NEW s \in Stores, Rollback(s)
    PROVE  StoreInv'
<1>1. /\ jobs[s] # <<>>
      /\ writer' = IF writer = s THEN nobody ELSE writer
      /\ found' = [found EXCEPT ![s] = IF Does(s, "select") THEN {} ELSE found[s]]
      /\ UNCHANGED <<db, work, left, dead, clock>>
  BY DEF Rollback
<1>2. PICK q : /\ jobs' = [jobs EXCEPT ![s] = q]
               /\ q = IF Does(s, "expire") THEN Tail(jobs[s])
                      ELSE IF Does(s, "open") THEN jobs[s] ELSE <<>>
  BY DEF Rollback, Failed
<1>3. Todo(q) /\ (q # <<>> => Head(q).kind # "expire")
  <2>1. CASE q = Tail(jobs[s])
    BY <2>1, <1>1, TodoHead DEF StoreInv
  <2>2. CASE q = jobs[s] /\ Does(s, "open")
    BY <2>2 DEF StoreInv, Does, JobOf
  <2>3. CASE q = <<>>
    BY <2>3 DEF Todo
  <2> QED BY <1>2, <2>1, <2>2, <2>3
<1>4. Writing'
  BY <1>1, <1>2, OthersWrite
<1>5. /\ found' \in [Stores -> SUBSET VectorIds] /\ \A r \in Stores : found'[r] \subseteq found[r]
  BY <1>1 DEF StoreInv
<1>6. /\ jobs' = [r \in Stores |-> jobs'[r]] /\ \A r \in Stores : Todo(jobs'[r])
      /\ jobs'[s] = q /\ \A r \in Stores \ {s} : jobs'[r] = jobs[r]
  BY <1>2, <1>3 DEF StoreInv
<1>7. ASSUME NEW r \in Stores PROVE Undisturbed(r)'
  <2>1. Does(r, "expire")' => Does(r, "expire")
    BY <1>3, <1>6 DEF Does, JobOf
  <2> QED BY <2>1, <1>1, <1>5 DEF StoreInv, Undisturbed
<1> QED BY <1>1, <1>4, <1>5, <1>6, <1>7 DEF StoreInv

(* A failure or a crash undoes the transaction and takes the call away.     *)
LEMMA StoreCrashStep ==
    ASSUME StoreInv, NEW s \in Stores, Crash(s)
    PROVE  StoreInv'
<1>1. /\ writer' = IF writer = s THEN nobody ELSE writer
      /\ found' = [found EXCEPT ![s] = {}] /\ dead' = [dead EXCEPT ![s] = {}]
      /\ UNCHANGED <<db, work, left, clock>>
  BY DEF Crash
<1>2. PICK q : q = <<[kind |-> "open"]>> /\ jobs' = [jobs EXCEPT ![s] = q]
  BY DEF Crash
<1>3. Todo(q) /\ Head(q).kind # "expire"
  <2>1. [kind |-> "open"] \in Jobs
    BY DEF Jobs
  <2> QED BY <2>1, <1>2, OneJob
<1>4. Writing'
  BY <1>1, <1>2, OthersWrite
<1>5. /\ found' \in [Stores -> SUBSET VectorIds] /\ dead' \in [Stores -> SUBSET VectorIds]
      /\ \A r \in Stores : found'[r] \subseteq found[r] /\ dead'[r] \subseteq dead[r]
  BY <1>1 DEF StoreInv
<1>6. /\ jobs' = [r \in Stores |-> jobs'[r]] /\ \A r \in Stores : Todo(jobs'[r])
      /\ jobs'[s] = q /\ \A r \in Stores \ {s} : jobs'[r] = jobs[r]
  BY <1>2, <1>3 DEF StoreInv
<1>7. ASSUME NEW r \in Stores PROVE Undisturbed(r)'
  <2>1. Does(r, "expire")' => Does(r, "expire")
    BY <1>3, <1>6 DEF Does, JobOf
  <2> QED BY <2>1, <1>1, <1>5 DEF StoreInv, Undisturbed
<1> QED BY <1>1, <1>4, <1>5, <1>6, <1>7 DEF StoreInv

(* A step that changes nothing.                                             *)
LEMMA StoreStays ==
    ASSUME StoreInv, UNCHANGED <<db, writer, work, left, jobs, found, dead>>, clock' \in Nat
    PROVE  StoreInv'
BY DEF StoreInv, Writing, Undisturbed, Does, JobOf

(* Every step keeps the story.                                              *)
LEMMA StoreStep == StoreInv /\ [StoreNext]_storeVars => StoreInv'
<1>1. Tick \/ UNCHANGED storeVars => UNCHANGED <<db, writer, work, left, jobs, found, dead>>
                                /\ (clock' = clock \/ clock' = clock + 1)
  BY DEF Tick, storeVars
<1>2. StoreInv => clock \in Nat
  BY DEF StoreInv
<1> QED BY <1>1, <1>2, StoreStays, WritingCallsStep, ReadingCallsStep, NotFoundStep, BeginStep,
           StatementStep, CommitStep, SelectStep, RollbackStep, StoreCrashStep
    DEF StoreNext, Step

(* The tables are sound, and those of a transaction under way are what its  *)
(* job leaves or has still to write: sqlite_vec.py has one commit for all   *)
(* statements of an operation.                                              *)
LEMMA StoreInvHolds == StoreSpec => []StoreInv
BY StoreInitInv, StoreStep, PTL DEF StoreSpec

(* Vector, row and audit trail of a memory agree after every commit, failure *)
(* and crash of any number of stores (vector_stores/sqlite_vec.py).         *)
THEOREM TrailTellsAllHolds == StoreSpec => []TrailTellsAll
<1>1. StoreInv => TrailTellsAll
  BY DEF StoreInv, Sound, TrailTellsAll
<1> QED BY <1>1, StoreInvHolds, PTL

(* What a search's own clean-up removed is not found by it, whatever other  *)
(* stores commit between its steps (_search_python after cleanup_expired).  *)
THEOREM ExpiredNotFoundHolds == StoreSpec => []ExpiredNotFound
<1>1. StoreInv => ExpiredNotFound
  BY DEF StoreInv, Undisturbed, ExpiredNotFound
<1> QED BY <1>1, StoreInvHolds, PTL
=============================================================================
