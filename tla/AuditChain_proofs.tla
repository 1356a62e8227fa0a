------------------------- MODULE AuditChain_proofs -------------------------
(***************************************************************************)
(* What holds of the audit log of a single server process, for every cache  *)
(* size, number of entries, of failures and of restarts.  Two servers on    *)
(* one database may each write a row after the same one, which breaks both  *)
(* results.                                                                 *)
(*                                                                         *)
(* The rows say nothing of the process that writes the next one, so the     *)
(* properties of the table are strengthened with what _last_hash is worth   *)
(* in each state of the process (Position): the hash of the last row, or,   *)
(* once a call has failed, a hash that is in no row at all.  The table is   *)
(* taken as the process reads it, with the rows of its open transaction.    *)
(***************************************************************************)
EXTENDS AuditChain, SequenceTheorems, WellFoundedInduction, TLAPS

(* Of a table or a beginning of one. *)
Sorted(t) == \A i, j \in 1..Len(t) : i < j => t[i].id < t[j].id
Backward(t) == \A i \in 1..Len(t) : t[i].prev < t[i].id
Below(t, n) == \A i \in 1..Len(t) : t[i].id < n
Follows(t) == \A i \in 1..Len(t) : t[i].prev \in Ids(t) => i > 1 /\ t[i].prev = t[i-1].id
Sound(t, n) == Sorted(t) /\ Backward(t) /\ Below(t, n) /\ Follows(t)

AtEnd(t, h) == h \in Ids(t) => h = Hash(t)
Expected(s, h) == h < next /\ AtEnd(Table(s), h) /\ (faults = 0 => h = Hash(Table(s)))

Held(s) == cache[s][Len(cache[s])]

Position(s) ==
    /\ ~loaded[s] => pc[s] = "idle" /\ last[s] = 0
    /\ pc[s] \in {"fetch", "last"} => last[s] = 0
    /\ (pc[s] = "append" \/ (pc[s] = "idle" /\ loaded[s])) => Expected(s, last[s])
    /\ pc[s] = "persist" =>
           /\ Len(cache[s]) > 0
           /\ Held(s).id = last[s] /\ last[s] = next - 1
           /\ Held(s).prev < Held(s).id
           /\ Expected(s, Held(s).prev)
           /\ Below(Table(s), Held(s).id)

IInv(s) ==
    /\ TypeOK /\ Sound(Table(s), next) /\ Position(s) /\ IndexMatches
    /\ faults = 0 => Verifies(Table(s)) /\ open[s] = <<>>

-----------------------------------------------------------------------------
(* Entries are numbered from 1, so that 0 can stand for no hash.            *)
LEMMA IdsPositive ==
    ASSUME NEW s \in Seq(Entry)
    PROVE  Ids(s) \subseteq Nat \ {0}
<1> SUFFICES ASSUME NEW i \in 1..Len(s) PROVE s[i].id \in Nat \ {0}
    BY DEF Ids
<1>1. s[i] \in Entry
  OBVIOUS
<1> QED BY <1>1 DEF Entry

(* The newest n elements are the end of the list.                           *)
LEMMA NewestIsEnd ==
    ASSUME NEW s \in Seq(Entry), NEW n \in Nat \ {0}
    PROVE  /\ Newest(s, n) \in Seq(Entry)
           /\ Len(Newest(s, n)) <= n
           /\ Ids(Newest(s, n)) \subseteq Ids(s)
           /\ Len(s) > 0 => /\ Len(Newest(s, n)) > 0
                            /\ Newest(s, n)[Len(Newest(s, n))] = s[Len(s)]
<1>1. CASE Len(s) <= n
  BY <1>1 DEF Newest
<1>2. CASE Len(s) > n
  <2> DEFINE k == Len(s) - n + 1
             t == SubSeq(s, k, Len(s))
  <2>1. k \in 1..Len(s) /\ Len(s) \in Nat
    BY <1>2
  <2>2. t \in Seq(Entry) /\ Len(t) = n /\ \A i \in 1..n : t[i] = s[k + i - 1]
    BY <2>1
  <2>3. Newest(s, n) = t
    BY <1>2 DEF Newest
  <2>4. Ids(t) \subseteq Ids(s)
    <3> SUFFICES ASSUME NEW i \in 1..Len(t) PROVE t[i].id \in Ids(s)
      BY DEF Ids
    <3>1. k + i - 1 \in 1..Len(s) /\ t[i] = s[k + i - 1]
      BY <2>1, <2>2
    <3> HIDE DEF t, k
    <3> QED BY <3>1 DEF Ids
  <2> HIDE DEF t
  <2>5. t[Len(t)] = s[Len(s)]
    <3>1. n \in 1..n /\ k + n - 1 = Len(s)
      BY <2>1
    <3>2. t[n] = s[k + n - 1]
      BY <2>2, <3>1
    <3> QED BY <2>2, <3>1, <3>2
  <2> QED BY <1>2, <2>2, <2>3, <2>4, <2>5
<1> QED BY <1>1, <1>2

(* Rows already in the order of their timestamps can be sorted: by          *)
(* themselves.  Without it the CHOOSE of ByTime says nothing.               *)
LEMMA ByTimeIsSeq ==
    ASSUME NEW rows \in Seq(Entry), Sorted(rows)
    PROVE  ByTime(rows) \in Seq(Entry)
<1> DEFINE vals == {rows[i] : i \in 1..Len(rows)}
           fns == [1..Len(rows) -> vals]
           Up(t) == \A i, j \in 1..Len(rows) : i < j => t[i].id < t[j].id
<1>1. rows \in fns
  OBVIOUS
<1>2. Up(rows)
  BY DEF Sorted
<1>3. ByTime(rows) = CHOOSE t \in fns : Up(t)
  BY DEF ByTime
<1>4. ByTime(rows) \in fns
  BY <1>1, <1>2, <1>3
<1>5. vals \subseteq Entry /\ Len(rows) \in Nat
  OBVIOUS
<1>6. ByTime(rows) \in [1..Len(rows) -> Entry]
  BY <1>4, <1>5
<1> QED BY <1>5, <1>6

LEMMA RowsTyped ==
    ASSUME NEW t \in Seq(Entry)
    PROVE  \A i \in 1..Len(t) : t[i].id \in Nat \ {0} /\ t[i].prev \in Nat
<1> SUFFICES ASSUME NEW i \in 1..Len(t) PROVE t[i].id \in Nat \ {0} /\ t[i].prev \in Nat
  OBVIOUS
<1>1. t[i] \in Entry
  OBVIOUS
<1> QED BY <1>1 DEF Entry

(* A transaction given up, or commits taken back, leave the beginning of a  *)
(* table: it is as sound, and a hash that was the last one's is now in no   *)
(* row at all, as every row left is older.                                  *)
Begins(u, t) == Len(u) <= Len(t) /\ \A i \in 1..Len(u) : u[i] = t[i]

LEMMA ConcatBegins ==
    ASSUME NEW d \in Seq(Entry), NEW o \in Seq(Entry)
    PROVE  Begins(d, d \o o) /\ (o # <<>> => Len(d) < Len(d \o o))
<1>1. o # <<>> => Len(o) > 0
  OBVIOUS
<1> QED BY <1>1 DEF Begins

LEMMA BeginningSound ==
    ASSUME NEW u \in Seq(Entry), NEW t \in Seq(Entry), Begins(u, t)
    PROVE  /\ Ids(u) \subseteq Ids(t)
           /\ \A m \in Nat : Sound(t, m) => Sound(u, m)
           /\ \A m \in Nat : Below(t, m) => Below(u, m)
           /\ Verifies(t) => Verifies(u)
           /\ Sorted(t) /\ Len(u) < Len(t) => \A h \in Nat : AtEnd(t, h) => h \notin Ids(u)
<1>1. /\ Len(u) \in Nat /\ Len(t) \in Nat /\ 1..Len(u) \subseteq 1..Len(t)
      /\ \A i \in 1..Len(u) : u[i] = t[i]
  BY DEF Begins
<1>2. Ids(u) \subseteq Ids(t)
  BY <1>1 DEF Ids
<1>3. \A m \in Nat : Below(t, m) => Below(u, m)
  BY <1>1 DEF Below
<1>4. Follows(t) => Follows(u)
  <2> SUFFICES ASSUME Follows(t), NEW i \in 1..Len(u), u[i].prev \in Ids(u)
               PROVE  i > 1 /\ u[i].prev = u[i - 1].id
    BY DEF Follows
  <2>1. i > 1 /\ t[i].prev = t[i - 1].id
    BY <1>1, <1>2 DEF Follows
  <2> QED BY <1>1, <2>1
<1>5. \A m \in Nat : Sound(t, m) => Sound(u, m)
  <2>1. (Sorted(t) => Sorted(u)) /\ (Backward(t) => Backward(u))
    BY <1>1 DEF Sorted, Backward
  <2> QED BY <1>3, <1>4, <2>1 DEF Sound
<1>6. Verifies(t) => Verifies(u)
  <2> SUFFICES ASSUME Verifies(t), NEW i \in 1..Len(u)
               PROVE  u[i].prev = IF i = 1 THEN 0 ELSE u[i - 1].id
    BY DEF Verifies
  <2>1. t[i].prev = IF i = 1 THEN 0 ELSE t[i - 1].id
    BY <1>1 DEF Verifies
  <2>2. u[i] = t[i] /\ (i # 1 => u[i - 1] = t[i - 1])
    BY <1>1
  <2> QED BY <2>1, <2>2
<1>7. ASSUME Sorted(t), Len(u) < Len(t), NEW h \in Nat, AtEnd(t, h), h \in Ids(u) PROVE FALSE
  <2>1. h = Hash(t) /\ Hash(t) = t[Len(t)].id
    BY <1>1, <1>2, <1>7 DEF AtEnd, Hash
  <2>2. PICK i \in 1..Len(u) : h = u[i].id
    BY <1>7 DEF Ids
  <2>3. i \in 1..Len(t) /\ Len(t) \in 1..Len(t) /\ i < Len(t) /\ u[i] = t[i]
    BY <1>1, <1>7
  <2>4. t[i].id < t[Len(t)].id
    BY <1>7, <2>3 DEF Sorted
  <2>5. t[i].id \in Nat
    BY <2>3, RowsTyped
  <2> QED BY <2>1, <2>2, <2>3, <2>4, <2>5
<1> QED BY <1>2, <1>3, <1>5, <1>6, <1>7

LEMMA InitInv == ASSUME NEW s, Processes = {s}, Init PROVE IInv(s)
<1> USE AuditAssumption DEF Init
<1>1. /\ disk \in Seq(Entry) /\ Len(disk) = 0 /\ cache[s] = <<>> /\ Len(cache[s]) = 0
      /\ open[s] = <<>> /\ Len(open[s]) = 0
  OBVIOUS
<1>2. Table(s) \in Seq(Entry) /\ Len(Table(s)) = 0
  BY <1>1 DEF Table
<1>3. TypeOK
  <2>1. cache \in [Processes -> Seq(Entry)] /\ open \in [Processes -> Seq(Entry)]
    OBVIOUS
  <2>2. faults \in 0..MaxFaults /\ restarts \in 0..MaxRestarts
    OBVIOUS
  <2> QED BY <1>1, <2>1, <2>2 DEF TypeOK
<1>4. Sound(Table(s), next) /\ Verifies(Table(s))
  BY <1>2 DEF Sound, Sorted, Backward, Below, Follows, Verifies
<1>5. Position(s)
  BY DEF Position
<1>6. IndexMatches
  BY <1>1 DEF IndexMatches, Ids
<1> QED BY <1>1, <1>3, <1>4, <1>5, <1>6 DEF IInv

(* What the table is, as the steps use it. *)
LEMMA TableTyped ==
    ASSUME NEW s, Processes = {s}, TypeOK
    PROVE  /\ Table(s) \in Seq(Entry) /\ Len(Table(s)) \in Nat
           /\ disk \in Seq(Entry) /\ open[s] \in Seq(Entry)
           /\ 0 \notin Ids(Table(s)) /\ next \in Nat \ {0}
<1>1. disk \in Seq(Entry) /\ open[s] \in Seq(Entry) /\ next \in Nat \ {0}
  BY DEF TypeOK
<1>2. Table(s) \in Seq(Entry)
  BY <1>1 DEF Table
<1> QED BY <1>1, <1>2, IdsPositive

LEMMA FetchStep == ASSUME NEW s, Processes = {s}, IInv(s), Fetch(s) PROVE IInv(s)'
<1> USE AuditAssumption
<1>1. /\ disk' = disk /\ open' = open /\ next' = next /\ last' = last /\ loaded' = loaded
      /\ adding' = adding /\ pc[s] = "fetch" /\ Table(s)' = Table(s)
  BY DEF Fetch, Table
<1>2. last[s] = 0 /\ loaded[s] /\ next \in Nat \ {0}
  BY <1>1 DEF IInv, Position, TypeOK
<1>3. /\ Newest(ByTime(Table(s)), LoadLimit) \in Seq(Entry)
      /\ Len(Newest(ByTime(Table(s)), LoadLimit)) <= LoadLimit
  BY ByTimeIsSeq, NewestIsEnd, TableTyped DEF IInv, Sound
<1>4. \/ cache' \in [Processes -> Seq(Entry)] /\ Len(cache'[s]) <= LoadLimit
      \/ UNCHANGED cache
  BY <1>3 DEF Fetch, IInv, TypeOK
<1>5. index' \in [Processes -> SUBSET Nat] /\ index'[s] = Ids(cache'[s])
  <2>1. CASE UNCHANGED <<cache, index>>
    BY <2>1 DEF IInv, TypeOK, IndexMatches
  <2>2. CASE index' = [index EXCEPT ![s] = Ids(cache'[s])]
            /\ cache' = [cache EXCEPT ![s] = Newest(ByTime(Table(s)), LoadLimit)]
    <3>1. cache'[s] \in Seq(Entry)
      BY <1>3, <2>2 DEF IInv, TypeOK
    <3>2. Ids(cache'[s]) \in SUBSET Nat
      BY <3>1, IdsPositive
    <3> QED BY <2>2, <3>2 DEF IInv, TypeOK
  <2> QED BY <2>1, <2>2 DEF Fetch
<1>6. /\ faults' \in 0..MaxFaults /\ restarts' \in 0..MaxRestarts
      /\ faults' # 0 \/ pc'[s] = "last"
      /\ faults' = 0 => faults = 0
      /\ pc' \in [Processes -> {"idle", "fetch", "last", "append", "persist"}]
      /\ pc'[s] # "persist"
  BY DEF Fetch, Goto, Resume, Works, Fails, IInv, TypeOK
<1>7. TypeOK'
  BY <1>1, <1>4, <1>5, <1>6 DEF IInv, TypeOK
<1>8. Position(s)'
  BY <1>1, <1>2, <1>6, TableTyped DEF IInv, Position, Expected, AtEnd
<1> QED BY <1>1, <1>5, <1>6, <1>7, <1>8 DEF IInv, IndexMatches

LEMMA BeginStep ==
    ASSUME NEW s, Processes = {s}, IInv(s), NEW add \in BOOLEAN, Begin(s, add)
    PROVE  IInv(s)'
<1>1. /\ UNCHANGED <<disk, open, cache, index, last, next, faults, restarts>>
      /\ pc[s] = "idle" /\ loaded'[s] /\ Table(s)' = Table(s)
      /\ pc'[s] = IF ~loaded[s] THEN "fetch" ELSE IF add THEN "append" ELSE "idle"
  BY DEF Begin, Goto, IInv, TypeOK, Table
<1>2. TypeOK'
  BY <1>1 DEF Begin, Goto, IInv, TypeOK
<1>3. Position(s)'
  BY <1>1 DEF IInv, Position, Expected
<1> QED BY <1>1, <1>2, <1>3 DEF IInv, IndexMatches

LEMMA FetchLastStep ==
    ASSUME NEW s, Processes = {s}, IInv(s), FetchLast(s) PROVE IInv(s)'
<1> DEFINE t == Table(s)
<1>1. /\ UNCHANGED <<disk, open, cache, index, loaded, adding, next>>
      /\ pc[s] = "last" /\ pc'[s] \in {"append", "idle"} /\ Table(s)' = t
      /\ \/ last'[s] = Hash(t) /\ faults' = faults
         \/ last'[s] = last[s] /\ faults' # 0
      /\ faults' = 0 => faults = 0
  BY DEF FetchLast, Goto, Resume, Works, Fails, IInv, TypeOK, Table
<1>2. t \in Seq(Entry) /\ Sound(t, next) /\ 0 \notin Ids(t) /\ next \in Nat \ {0}
  BY TableTyped DEF IInv
<1> HIDE DEF t
<1>3. Hash(t) \in Nat /\ Hash(t) < next
  <2>1. CASE t = <<>>
    BY <1>2, <2>1 DEF Hash
  <2>2. CASE t # <<>>
    <3>1. Len(t) \in 1..Len(t)
      BY <1>2, <2>2
    <3> QED BY <1>2, <2>2, <3>1, RowsTyped DEF Hash, Sound, Below
  <2> QED BY <2>1, <2>2
<1>4. TypeOK'
  <2>1. last' \in [Processes -> Nat]
    BY <1>3 DEF FetchLast, IInv, TypeOK, t
  <2>2. pc' \in [Processes -> {"idle", "fetch", "last", "append", "persist"}]
    BY DEF FetchLast, Goto, Resume, IInv, TypeOK
  <2>3. faults' \in 0..MaxFaults /\ restarts' \in 0..MaxRestarts
    BY AuditAssumption DEF FetchLast, Works, Fails, IInv, TypeOK
  <2> QED BY <1>1, <2>1, <2>2, <2>3 DEF IInv, TypeOK
<1>5. Expected(s, last[s])' /\ loaded'[s]
  <2>1. last[s] = 0 /\ loaded[s]
    BY <1>1 DEF IInv, Position
  <2> QED BY <1>1, <1>2, <1>3, <2>1 DEF Expected, AtEnd
<1>6. Position(s)'
  BY <1>1, <1>5 DEF Position
<1> QED BY <1>1, <1>4, <1>6 DEF IInv, IndexMatches, t

LEMMA AppendStep ==
    ASSUME NEW s, Processes = {s}, IInv(s), AppendEntry(s) PROVE IInv(s)'
<1> DEFINE entry == [id |-> next, prev |-> last[s]]
           all == Append(cache[s], entry)
           new == Newest(all, MaxCache)
<1> USE AuditAssumption
<1>1. /\ UNCHANGED <<disk, open, loaded, adding, faults, restarts>> /\ Table(s)' = Table(s)
      /\ pc[s] = "append" /\ pc'[s] = "persist" /\ next' = next + 1
      /\ last'[s] = next /\ cache'[s] = new /\ loaded[s]
      /\ index'[s] = (index[s] \cup {next}) \ (Ids(all) \ Ids(new))
  BY DEF AppendEntry, Goto, IInv, TypeOK, Position, Table
<1>2. entry \in Entry /\ Expected(s, last[s]) /\ last[s] \in Nat /\ next \in Nat \ {0}
  BY <1>1 DEF IInv, TypeOK, Position, Entry
<1>3. /\ all \in Seq(Entry) /\ Len(all) = Len(cache[s]) + 1
      /\ all[Len(all)] = entry
      /\ \A i \in 1..Len(cache[s]) : all[i] = cache[s][i]
      /\ Len(cache[s]) \in Nat
  <2>1. cache[s] \in Seq(Entry)
    BY DEF IInv, TypeOK
  <2> HIDE DEF entry
  <2> QED BY <1>2, <2>1
<1>4. Ids(all) = Ids(cache[s]) \cup {next}
  <2>1. entry.id = next
    OBVIOUS
  <2> HIDE DEF entry, all
  <2> QED BY <1>3, <2>1 DEF Ids
<1> HIDE DEF all
<1>5. /\ new \in Seq(Entry) /\ Len(new) <= MaxCache /\ Ids(new) \subseteq Ids(all)
      /\ Len(new) > 0 /\ new[Len(new)] = entry
  BY <1>3, NewestIsEnd
<1> HIDE DEF new
<1>6. index'[s] = Ids(new)
  BY <1>1, <1>4, <1>5 DEF IInv, IndexMatches
<1>7. TypeOK'
  <2>1. cache' \in [Processes -> Seq(Entry)] /\ \A p \in Processes : Len(cache'[p]) <= MaxCache
    BY <1>1, <1>5 DEF AppendEntry, IInv, TypeOK, new, all
  <2>2. index' \in [Processes -> SUBSET Nat]
    BY <1>2 DEF AppendEntry, IInv, TypeOK
  <2>3. last' \in [Processes -> Nat]
    BY <1>2 DEF AppendEntry, IInv, TypeOK
  <2>4. pc' \in [Processes -> {"idle", "fetch", "last", "append", "persist"}]
    BY DEF AppendEntry, Goto, IInv, TypeOK
  <2> QED BY <1>1, <1>2, <2>1, <2>2, <2>3, <2>4 DEF IInv, TypeOK
<1>8. IndexMatches'
  BY <1>1, <1>6 DEF IndexMatches
<1>9. Below(Table(s), next) /\ Below(Table(s), next') /\ Table(s) \in Seq(Entry)
  <2>1. Table(s) \in Seq(Entry) /\ Below(Table(s), next)
    BY TableTyped DEF IInv, Sound
  <2> QED BY <1>1, <1>2, <2>1, RowsTyped DEF Below
<1>10. Position(s)'
  <2>1. Held(s)' = entry /\ Len(cache'[s]) > 0
    BY <1>1, <1>5 DEF Held
  <2>2. Expected(s, last[s]) => Expected(s, Held(s).prev)'
    BY <1>1, <1>2, <2>1 DEF Expected
  <2> QED BY <1>1, <1>2, <1>9, <2>1, <2>2 DEF Position, Expected
<1> QED BY <1>1, <1>7, <1>8, <1>9, <1>10 DEF IInv, Sound

(* A row after the last one, which it names, or which it cannot name if a   *)
(* call has failed before.                                                  *)
LEMMA RowAdded ==
    ASSUME NEW t \in Seq(Entry), NEW e \in Entry, NEW n \in Nat,
           Sound(t, n), e.id < n, e.prev < e.id, Below(t, e.id), AtEnd(t, e.prev)
    PROVE  /\ Sound(Append(t, e), n)
           /\ Hash(Append(t, e)) = e.id
           /\ Verifies(t) /\ e.prev = Hash(t) => Verifies(Append(t, e))
<1> DEFINE u == Append(t, e)
           m == Len(t)
<1>1. /\ u \in Seq(Entry) /\ Len(u) = m + 1 /\ u[m + 1] = e /\ m \in Nat
      /\ \A i \in 1..m : u[i] = t[i]
      /\ \A i \in 1..(m + 1) : i \in 1..m \/ i = m + 1
      /\ \A i \in 1..m : t[i].id \in Nat \ {0} /\ t[i].prev \in Nat
      /\ e.id \in Nat \ {0} /\ e.prev \in Nat
  BY RowsTyped DEF Entry
<1>2. (m > 0 => Hash(t) = t[m].id) /\ (m = 0 => Hash(t) = 0 /\ Ids(t) = {})
  BY <1>1 DEF Hash, Ids
<1> HIDE DEF u
<1>3. Ids(u) = Ids(t) \cup {e.id}
  BY <1>1 DEF Ids
<1> HIDE DEF m
<1>4. Sorted(u) /\ Backward(u) /\ Below(u, n)
  <2>1. Sorted(u)
    <3> SUFFICES ASSUME NEW i \in 1..(m + 1), NEW j \in 1..(m + 1), i < j
                 PROVE  u[i].id < u[j].id
      BY <1>1 DEF Sorted
    <3>1. i \in 1..m
      BY <1>1
    <3>2. CASE j \in 1..m
      BY <1>1, <3>1, <3>2 DEF Sound, Sorted, m
    <3>3. CASE j = m + 1
      BY <1>1, <3>1, <3>3 DEF Below, m
    <3> QED BY <1>1, <3>2, <3>3
  <2>2. Backward(u)
    BY <1>1 DEF Sound, Backward, m
  <2>3. Below(u, n)
    BY <1>1 DEF Sound, Below, m
  <2> QED BY <2>1, <2>2, <2>3
<1>5. Follows(u)
  <2> SUFFICES ASSUME NEW i \in 1..(m + 1), u[i].prev \in Ids(u)
               PROVE  i > 1 /\ u[i].prev = u[i - 1].id
    BY <1>1 DEF Follows
  <2>1. CASE i \in 1..m
    <3>1. u[i] = t[i] /\ t[i].prev < e.id
      BY <1>1, <2>1 DEF Sound, Backward, Below, m
    <3>2. t[i].prev \in Ids(t)
      BY <1>1, <1>3, <2>1, <3>1
    <3>3. i > 1 /\ t[i].prev = t[i - 1].id
      BY <2>1, <3>2 DEF Sound, Follows, m
    <3> QED BY <1>1, <2>1, <3>1, <3>3
  <2>2. CASE i = m + 1
    <3>1. e.prev \in Ids(t)
      BY <1>1, <1>3, <2>2
    <3>2. e.prev = Hash(t) /\ m > 0
      BY <1>1, <1>2, <3>1 DEF AtEnd
    <3> QED BY <1>1, <1>2, <2>2, <3>2
  <2> QED BY <1>1, <2>1, <2>2
<1>6. Hash(u) = e.id
  BY <1>1 DEF Hash
<1>7. ASSUME Verifies(t), e.prev = Hash(t) PROVE Verifies(u)
  <2> SUFFICES ASSUME NEW i \in 1..(m + 1)
               PROVE  u[i].prev = IF i = 1 THEN 0 ELSE u[i - 1].id
    BY <1>1 DEF Verifies
  <2>1. CASE i \in 1..m
    <3>1. t[i].prev = IF i = 1 THEN 0 ELSE t[i - 1].id
      BY <1>7, <2>1 DEF Verifies, m
    <3>2. u[i] = t[i] /\ (i # 1 => u[i - 1] = t[i - 1])
      BY <1>1, <2>1
    <3> QED BY <3>1, <3>2
  <2>2. CASE i = m + 1
    BY <1>1, <1>2, <1>7, <2>2
  <2> QED BY <1>1, <2>1, <2>2
<1> QED BY <1>4, <1>5, <1>6, <1>7 DEF Sound, u

(* What may become of the entry held and of the rows in the transaction:    *)
(* both stay or are stored, the entry is not inserted, or all is given up.  *)
LEMMA PersistStep ==
    ASSUME NEW s, Processes = {s}, IInv(s), Persist(s) PROVE IInv(s)'
<1> DEFINE e == Held(s)
           t == Table(s)
           rows == Append(open[s], e)
<1>1. /\ UNCHANGED <<cache, index, last, loaded, adding, next>>
      /\ pc[s] = "persist" /\ pc'[s] = "idle" /\ loaded'[s]
      /\ faults' \in 0..MaxFaults /\ restarts' \in 0..MaxRestarts
      /\ pc' \in [Processes -> {"idle", "fetch", "last", "append", "persist"}]
  BY AuditAssumption DEF Persist, Goto, Works, Fails, IInv, TypeOK, Position
<1>2. /\ Len(cache[s]) > 0 /\ e.id = last[s] /\ last[s] = next - 1
      /\ e.prev < e.id /\ Expected(s, e.prev) /\ Below(t, e.id)
  BY <1>1 DEF IInv, Position
<1>3. /\ e \in Entry /\ next \in Nat \ {0} /\ disk \in Seq(Entry) /\ open[s] \in Seq(Entry)
      /\ t \in Seq(Entry) /\ Sound(t, next) /\ t = disk \o open[s]
      /\ open \in [Processes -> Seq(Entry)]
  <2>1. cache[s] \in Seq(Entry) /\ open \in [Processes -> Seq(Entry)]
    BY DEF IInv, TypeOK
  <2> QED BY <1>2, <2>1, TableTyped DEF IInv, Held, Table
<1>4. e.id \in Nat \ {0} /\ e.prev \in Nat /\ e.id < next
  BY <1>2, <1>3 DEF Entry
<1>5. e.id \notin Ids(t)
  BY <1>2, <1>3, <1>4, RowsTyped DEF Ids, Below
<1>6. \/ /\ disk' = disk \o rows /\ open' = [open EXCEPT ![s] = <<>>] /\ faults' = faults
      \/ /\ disk' = disk /\ open' = [open EXCEPT ![s] = rows] /\ faults' # 0
      \/ /\ disk' = disk /\ open' = open /\ faults' # 0
      \/ /\ disk' = disk /\ open' = [open EXCEPT ![s] = <<>>] /\ faults' # 0
  <2>1. Fails => faults' # 0
    BY DEF Fails, IInv, TypeOK
  <2>2. Works => faults' = faults
    BY DEF Works
  <2> HIDE DEF Fails, Works
  <2> QED BY <2>1, <2>2 DEF Persist, Held
<1> HIDE DEF e, t
<1>7. rows \in Seq(Entry) /\ disk \o rows = Append(t, e) /\ disk \o rows \in Seq(Entry)
  BY <1>3
<1> HIDE DEF rows
<1>8. TypeOK'
  <2>1. disk' \in Seq(Entry) /\ open' \in [Processes -> Seq(Entry)]
    <3>1. <<>> \in Seq(Entry)
      OBVIOUS
    <3> QED BY <1>3, <1>6, <1>7, <3>1
  <2> QED BY <1>1, <2>1 DEF IInv, TypeOK
<1>9. IndexMatches'
  BY <1>1 DEF IInv, IndexMatches
<1>10. CASE Table(s)' = Append(t, e) /\ (faults' = 0 => faults = 0 /\ open'[s] = <<>>)
  <2>1. /\ Sound(Append(t, e), next) /\ Hash(Append(t, e)) = e.id
        /\ Verifies(t) /\ e.prev = Hash(t) => Verifies(Append(t, e))
    BY <1>2, <1>3, <1>4, RowAdded DEF Expected, t
  <2>2. Expected(s, last[s])'
    BY <1>1, <1>2, <1>4, <1>10, <2>1 DEF Expected, AtEnd
  <2>3. faults = 0 => Verifies(t) /\ e.prev = Hash(t)
    BY <1>2 DEF IInv, Expected, t
  <2>4. Position(s)'
    BY <1>1, <2>2 DEF Position
  <2> QED BY <1>1, <1>8, <1>9, <1>10, <2>1, <2>3, <2>4 DEF IInv
<1>11. CASE faults' # 0 /\ Table(s)' \in {t, disk}
  <2>1. Sound(Table(s), next)' /\ (e.id \notin Ids(Table(s)'))
    <3>1. Begins(disk, t)
      BY <1>3, ConcatBegins
    <3>2. Ids(disk) \subseteq Ids(t) /\ Sound(disk, next)
      BY <1>3, <3>1, BeginningSound
    <3> QED BY <1>1, <1>3, <1>5, <1>11, <3>2
  <2>2. Expected(s, last[s])'
    BY <1>1, <1>2, <1>4, <1>11, <2>1 DEF Expected, AtEnd
  <2>3. Position(s)'
    BY <1>1, <2>2 DEF Position
  <2> QED BY <1>8, <1>9, <1>11, <2>1, <2>3 DEF IInv
<1>12. \/ Table(s)' = Append(t, e) /\ (faults' = 0 => faults = 0 /\ open'[s] = <<>>)
       \/ faults' # 0 /\ Table(s)' \in {t, disk}
  <2>1. Table(s)' = disk' \o open'[s]
    BY DEF Table
  <2>2. disk' \in Seq(Entry) => disk' \o <<>> = disk'
    OBVIOUS
  <2>3. disk' \in Seq(Entry)
    BY <1>3, <1>6, <1>7
  <2> QED BY <1>3, <1>6, <1>7, <2>1, <2>2, <2>3
<1> QED BY <1>10, <1>11, <1>12

(* What another writer makes of the transaction is either nothing to this   *)
(* process or the same as a write of its own that is given up.              *)
LEMMA OtherStep ==
    ASSUME NEW s, Processes = {s}, IInv(s), OtherWrite(s) PROVE IInv(s)'
<1>1. /\ UNCHANGED <<cache, index, last, loaded, pc, adding, next>>
      /\ open[s] # <<>> /\ open' = [open EXCEPT ![s] = <<>>]
      /\ faults' \in 0..MaxFaults /\ restarts' \in 0..MaxRestarts
      /\ faults # 0 /\ faults' # 0 /\ disk' \in {disk, Table(s)}
  BY AuditAssumption DEF OtherWrite, Works, Fails, IInv, TypeOK
<1>2. /\ disk \in Seq(Entry) /\ open[s] \in Seq(Entry) /\ next \in Nat \ {0}
      /\ Table(s) \in Seq(Entry) /\ Sound(Table(s), next) /\ 0 \notin Ids(Table(s))
  BY TableTyped DEF IInv
<1>3. Table(s)' = disk' /\ open'[s] = <<>>
  <2>1. open'[s] = <<>> /\ disk' \in Seq(Entry)
    BY <1>1, <1>2 DEF IInv, TypeOK
  <2> QED BY <2>1 DEF Table
<1>4. TypeOK'
  <2>1. open' \in [Processes -> Seq(Entry)] /\ disk' \in Seq(Entry)
    BY <1>1, <1>2 DEF IInv, TypeOK
  <2> QED BY <1>1, <2>1 DEF IInv, TypeOK
<1>5. /\ Sound(Table(s)', next)
      /\ \A m \in Nat : Below(Table(s), m) => Below(Table(s)', m)
      /\ \A h \in Nat : AtEnd(Table(s), h) => AtEnd(Table(s)', h)
  <2>1. CASE disk' = Table(s)
    BY <1>2, <1>3, <2>1
  <2>2. CASE disk' = disk
    <3>1. Table(s) = disk \o open[s] /\ Sorted(Table(s))
      BY <1>2 DEF Table, Sound
    <3>2. Begins(disk, Table(s)) /\ Len(disk) < Len(Table(s))
      BY <1>1, <1>2, <3>1, ConcatBegins
    <3>3. /\ Sound(disk, next)
          /\ \A m \in Nat : Below(Table(s), m) => Below(disk, m)
          /\ \A h \in Nat : AtEnd(Table(s), h) => h \notin Ids(disk)
      BY <1>2, <3>1, <3>2, BeginningSound
    <3> QED BY <1>3, <2>2, <3>3 DEF AtEnd
  <2> QED BY <1>1, <2>1, <2>2
<1>6. last[s] \in Nat /\ (Len(cache[s]) > 0 => Held(s).prev \in Nat /\ Held(s).id \in Nat)
  <2>1. cache[s] \in Seq(Entry) /\ last[s] \in Nat
    BY DEF IInv, TypeOK
  <2>2. Len(cache[s]) > 0 => Len(cache[s]) \in 1..Len(cache[s])
    BY <2>1
  <2> QED BY <2>1, <2>2, RowsTyped DEF Held
<1>7. Position(s)'
  <2>1. Held(s)' = Held(s)
    BY <1>1 DEF Held
  <2>2. \A h \in Nat : Expected(s, h) => h < next /\ AtEnd(Table(s)', h)
    BY <1>5 DEF Expected
  <2> QED BY <1>1, <1>5, <1>6, <2>1, <2>2 DEF IInv, Position, Expected
<1>8. IndexMatches'
  BY <1>1 DEF IInv, IndexMatches
<1> QED BY <1>1, <1>4, <1>5, <1>7, <1>8 DEF IInv

(* The end of the process, by itself or with the machine: what is left of   *)
(* the table is a beginning of it, which needs nothing of the process.      *)
LEMMA EndStep ==
    ASSUME NEW s, Processes = {s}, IInv(s), Forget({s}),
           disk' \in Seq(Entry), Begins(disk', disk)
    PROVE  IInv(s)'
<1>1. /\ UNCHANGED <<adding, next, faults>> /\ restarts' \in 0..MaxRestarts
      /\ pc' = [p \in {s} |-> "idle"] /\ loaded' = [p \in {s} |-> FALSE]
      /\ last' = [p \in {s} |-> 0] /\ open' = [p \in {s} |-> <<>>]
      /\ cache' = [p \in {s} |-> <<>>] /\ index' = [p \in {s} |-> {}]
  <2>1. UNCHANGED <<adding, next, faults>> /\ restarts' \in 0..MaxRestarts
    BY AuditAssumption DEF Forget, IInv, TypeOK
  <2>2. /\ pc' = [p \in {s} |-> "idle"] /\ loaded' = [p \in {s} |-> FALSE]
        /\ last' = [p \in {s} |-> 0] /\ index' = [p \in {s} |-> {}]
    BY DEF Forget
  <2>3. open' = [p \in {s} |-> <<>>] /\ cache' = [p \in {s} |-> <<>>]
    BY DEF Forget
  <2> QED BY <2>1, <2>2, <2>3
<1>2. TypeOK'
  <2>1. <<>> \in Seq(Entry) /\ Len(<<>>) = 0
    OBVIOUS
  <2>2. open' \in [Processes -> Seq(Entry)] /\ cache' \in [Processes -> Seq(Entry)]
    BY <1>1, <2>1
  <2>3. Len(cache'[s]) <= MaxCache
    BY <1>1, <2>1, AuditAssumption
  <2>4. /\ last' \in [Processes -> Nat] /\ index' \in [Processes -> SUBSET Nat]
        /\ loaded' \in [Processes -> BOOLEAN]
        /\ pc' \in [Processes -> {"idle", "fetch", "last", "append", "persist"}]
    BY <1>1
  <2> QED BY <1>1, <2>2, <2>3, <2>4 DEF IInv, TypeOK
<1>3. /\ disk \in Seq(Entry) /\ open[s] \in Seq(Entry) /\ next \in Nat
      /\ Table(s) = disk \o open[s] /\ Table(s) \in Seq(Entry) /\ Sound(Table(s), next)
      /\ faults = 0 => Verifies(Table(s))
  <2>1. Table(s) = disk \o open[s]
    BY DEF Table
  <2> QED BY <2>1, TableTyped DEF IInv
<1>4. Table(s)' = disk' /\ open'[s] = <<>>
  BY <1>1 DEF Table
<1>5. Sound(disk, next) /\ (faults = 0 => Verifies(disk))
  <2>1. Begins(disk, Table(s))
    BY <1>3, ConcatBegins
  <2> QED BY <1>3, <2>1, BeginningSound
<1>6. Sound(disk', next) /\ (faults = 0 => Verifies(disk'))
  BY <1>3, <1>5, BeginningSound
<1>7. IndexMatches'
  <2>1. Ids(<<>>) = {}
    BY DEF Ids
  <2> QED BY <1>1, <2>1 DEF IndexMatches
<1>8. Position(s)'
  BY <1>1 DEF Position
<1> QED BY <1>1, <1>2, <1>4, <1>6, <1>7, <1>8 DEF IInv

LEMMA RestartStep == ASSUME NEW s, Processes = {s}, IInv(s), Restart(s) PROVE IInv(s)'
<1>1. disk \in Seq(Entry)
  BY DEF IInv, TypeOK
<1>2. Begins(disk, disk)
  BY <1>1 DEF Begins
<1> QED BY <1>1, <1>2, EndStep DEF Restart

LEMMA PowerLossStep == ASSUME NEW s, Processes = {s}, IInv(s), PowerLoss PROVE IInv(s)'
<1>1. disk \in Seq(Entry)
  BY DEF IInv, TypeOK
<1>2. PICK kept \in 0..Len(disk) : disk' = SubSeq(disk, 1, kept)
  BY DEF PowerLoss
<1>3. disk' \in Seq(Entry) /\ Begins(disk', disk)
  BY <1>1, <1>2 DEF Begins
<1> QED BY <1>3, EndStep DEF PowerLoss

THEOREM OneServerInv == ASSUME NEW s, Processes = {s} PROVE Spec => []IInv(s)
<1>1. Init => IInv(s)
  BY InitInv
<1>2. IInv(s) /\ [Next]_vars => IInv(s)'
  <2> SUFFICES ASSUME IInv(s), [Next]_vars PROVE IInv(s)'
    OBVIOUS
  <2>1. CASE UNCHANGED vars
    <3>1. Table(s)' = Table(s) /\ Held(s)' = Held(s)
      BY <2>1 DEF vars, Table, Held
    <3> QED BY <2>1, <3>1 DEF vars, IInv, TypeOK, Position, Expected, IndexMatches
  <2>2. CASE Next
    BY <2>2, BeginStep, FetchStep, FetchLastStep, AppendStep, PersistStep, OtherStep,
       RestartStep, PowerLossStep DEF Next
  <2> QED BY <2>1, <2>2
<1> QED BY <1>1, <1>2, PTL DEF Spec

(* The variables keep their types and the list its caps. *)
THEOREM OneServerTypes == ASSUME NEW s, Processes = {s} PROVE Spec => []TypeOK
<1>1. IInv(s) => TypeOK
  BY DEF IInv
<1> QED BY <1>1, OneServerInv, PTL

(* Whatever writes, loads or processes fail, one server's log is never      *)
(* forked: add_audit_entry (audit.py:101-108) only names the last row or a  *)
(* lost one.                                                                *)
THEOREM OneServerNeverForks == ASSUME NEW s, Processes = {s} PROVE Spec => []RowsFollow
<1>1. IInv(s) => RowsFollow
  BY DEF IInv, Sound, Follows, RowsFollow
<1> QED BY <1>1, OneServerInv, PTL

LEMMA CleanIsDisk ==
    ASSUME NEW s, Processes = {s}, TypeOK, open[s] = <<>> PROVE Table(s) = disk
<1>1. disk \in Seq(Entry)
  BY DEF TypeOK
<1> QED BY <1>1 DEF Table

(* Without a failing call the table is one chain from its first row, across *)
(* any number of restarts.                                                  *)
THEOREM OneServerChain == ASSUME NEW s, Processes = {s} PROVE Spec => []DiskIsChain
<1>1. IInv(s) => DiskIsChain
  BY CleanIsDisk DEF IInv, DiskIsChain
<1> QED BY <1>1, OneServerInv, PTL

(* Eviction and loading keep the list and its index by id in step. *)
THEOREM OneServerIndex == ASSUME NEW s, Processes = {s} PROVE Spec => []IndexMatches
<1>1. IInv(s) => IndexMatches
  BY DEF IInv
<1> QED BY <1>1, OneServerInv, PTL
-----------------------------------------------------------------------------
(* What the readers of the log rely on: rows fetched by time come as they   *)
(* were inserted, and without evictions the list is the table.              *)

(* A set of numbers has a least one.                                        *)
LEMMA LeastExists ==
    ASSUME NEW S \in SUBSET Nat, S # {}
    PROVE  \E n \in S : \A m \in S : n <= m
<1>1. PICK n \in S : \A m \in S : ~ (<<m, n>> \in OpToRel(<, Nat))
  BY NatLessThanWellFounded, WFMin
<1>2. \A m \in S : n <= m
  <2> SUFFICES ASSUME NEW m \in S, m < n PROVE FALSE
    OBVIOUS
  <2>1. <<m, n>> \in OpToRel(<, Nat)
    BY DEF OpToRel
  <2> QED BY <2>1, <1>1
<1> QED BY <1>2

(* Renumbering 1..n in rising order changes nothing: the first number moved *)
(* down would push the one before it down too, the last one moved up the    *)
(* one after it.                                                            *)
LEMMA RisingIsIdentity ==
    ASSUME NEW n \in Nat, NEW f \in [1..n -> 1..n],
           \A i, j \in 1..n : i < j => f[i] < f[j]
    PROVE  \A i \in 1..n : f[i] = i
<1>1. \A i \in 1..n : f[i] >= i
  <2> DEFINE down == {i \in 1..n : f[i] < i}
  <2> SUFFICES ASSUME down # {} PROVE FALSE
    OBVIOUS
  <2>1. PICK i \in down : \A m \in down : i <= m
    <3>1. down \in SUBSET Nat
      OBVIOUS
    <3> HIDE DEF down
    <3> QED BY <3>1, LeastExists
  <2>2. i \in 1..n /\ f[i] \in 1..n /\ f[i] < i
    OBVIOUS
  <2>3. i - 1 \in 1..n /\ f[i - 1] \in 1..n /\ f[i - 1] < f[i]
    BY <2>2
  <2>4. i - 1 \in down
    BY <2>2, <2>3
  <2> HIDE DEF down
  <2> QED BY <2>1, <2>2, <2>4
<1>2. \A i \in 1..n : f[i] <= i
  <2> DEFINE fromEnd == {m \in 0..n : \E i \in 1..n : f[i] > i /\ m = n - i}
  <2> SUFFICES ASSUME NEW k \in 1..n, f[k] > k PROVE FALSE
    OBVIOUS
  <2>1. n - k \in fromEnd /\ fromEnd \in SUBSET Nat
    OBVIOUS
  <2>2. PICK m \in fromEnd : \A x \in fromEnd : m <= x
    <3> HIDE DEF fromEnd
    <3> QED BY <2>1, LeastExists
  <2>3. PICK i \in 1..n : f[i] > i /\ m = n - i
    OBVIOUS
  <2>4. i < n
    BY <2>3
  <2>5. i + 1 \in 1..n /\ f[i + 1] \in 1..n /\ f[i + 1] > f[i] /\ f[i] \in 1..n
    BY <2>4
  <2>6. n - (i + 1) \in fromEnd
    BY <2>3, <2>5
  <2> HIDE DEF fromEnd
  <2> QED BY <2>2, <2>3, <2>4, <2>6
<1> QED BY <1>1, <1>2

LEMMA SameFunction ==
    ASSUME NEW D, NEW R, NEW f \in [D -> R], NEW g \in [D -> R],
           \A d \in D : f[d] = g[d]
    PROVE  f = g
OBVIOUS

(* As long as no clock goes back, ORDER BY timestamp is the order of the    *)
(* rows.                                                                    *)
LEMMA ByTimeIsItself ==
    ASSUME NEW rows \in Seq(Entry), Sorted(rows)
    PROVE  ByTime(rows) = rows
<1> DEFINE n == Len(rows)
           vals == {rows[i] : i \in 1..Len(rows)}
           fns == [1..Len(rows) -> vals]
           Up(t) == \A i, j \in 1..Len(rows) : i < j => t[i].id < t[j].id
           t == ByTime(rows)
           f == [i \in 1..n |-> CHOOSE k \in 1..n : t[i] = rows[k]]
<1>1. rows \in fns /\ Up(rows)
  BY DEF Sorted
<1>2. t = CHOOSE u \in fns : Up(u)
  BY DEF ByTime
<1>3. t \in fns /\ Up(t)
  BY <1>1, <1>2
<1> HIDE DEF t
<1>4. n \in Nat /\ \A i \in 1..n : rows[i].id \in Nat
  <2> SUFFICES ASSUME NEW i \in 1..n PROVE rows[i].id \in Nat
    OBVIOUS
  <2>1. rows[i] \in Entry
    OBVIOUS
  <2> QED BY <2>1 DEF Entry
<1>5. \A i \in 1..n : f[i] \in 1..n /\ t[i] = rows[f[i]]
  <2> SUFFICES ASSUME NEW i \in 1..n PROVE f[i] \in 1..n /\ t[i] = rows[f[i]]
    OBVIOUS
  <2>1. PICK k \in 1..n : t[i] = rows[k]
    BY <1>3
  <2> QED BY <2>1
<1>6. f \in [1..n -> 1..n]
  BY <1>5
<1> HIDE DEF f
<1>7. \A i, j \in 1..n : i < j => f[i] < f[j]
  <2> SUFFICES ASSUME NEW i \in 1..n, NEW j \in 1..n, i < j, ~(f[i] < f[j]) PROVE FALSE
    OBVIOUS
  <2>1. f[i] \in 1..n /\ f[j] \in 1..n /\ rows[f[i]].id < rows[f[j]].id
    BY <1>3, <1>5
  <2>2. f[j] < f[i] \/ f[j] = f[i]
    BY <1>4, <2>1
  <2>3. CASE f[j] = f[i]
    BY <1>4, <2>1, <2>3
  <2>4. CASE f[j] < f[i]
    <3>1. rows[f[j]].id < rows[f[i]].id
      BY <2>1, <2>4 DEF Sorted
    <3> QED BY <1>4, <2>1, <3>1
  <2> QED BY <2>2, <2>3, <2>4
<1>8. \A i \in 1..n : f[i] = i
  BY <1>4, <1>6, <1>7, RisingIsIdentity
<1>9. \A i \in 1..n : t[i] = rows[i]
  BY <1>5, <1>8
<1>10. t \in [1..n -> vals] /\ rows \in [1..n -> vals]
  BY <1>1, <1>3
<1>11. t = rows
  <2> HIDE DEF vals
  <2> QED BY <1>9, <1>10, SameFunction
<1> QED BY <1>11 DEF t

(* The auditor's window ends where the table ends, and within a chain every *)
(* row of it but the first names the one before.                            *)
LEMMA WindowLinked ==
    ASSUME NEW t \in Seq(Entry), NEW n \in Nat \ {0}, Verifies(t)
    PROVE  Linked(Newest(t, n))
<1>1. CASE Len(t) <= n
  BY <1>1 DEF Newest, Linked, Verifies
<1>2. CASE Len(t) > n
  <2> DEFINE k == Len(t) - n + 1
             w == SubSeq(t, k, Len(t))
  <2>1. k \in 1..Len(t) /\ Len(t) \in Nat
    BY <1>2
  <2>2. Len(w) = n /\ \A i \in 1..n : w[i] = t[k + i - 1]
    BY <2>1
  <2> HIDE DEF w
  <2>3. ASSUME NEW i \in 2..n PROVE w[i].prev = w[i - 1].id
    <3>1. i \in 1..n /\ i - 1 \in 1..n /\ w[i] = t[k + i - 1] /\ w[i - 1] = t[k + (i - 1) - 1]
      BY <2>2
    <3> DEFINE j == k + i - 1
    <3>2. j \in 1..Len(t) /\ j # 1 /\ k + (i - 1) - 1 = j - 1
      BY <2>1
    <3> HIDE DEF j
    <3>3. t[j].prev = t[j - 1].id
      BY <3>2 DEF Verifies
    <3> QED BY <3>1, <3>2, <3>3 DEF j
  <2>4. Newest(t, n) = w
    BY <1>2 DEF Newest, w
  <2> QED BY <2>2, <2>3, <2>4 DEF Linked
<1> QED BY <1>1, <1>2

(* The auditor permits every access over a log no call failed on, however   *)
(* long the log and however short the auditor's window.                     *)
THEOREM AuditorNeverDenies == ASSUME NEW s, Processes = {s} PROVE Spec => []AuditorPermits
<1>1. IInv(s) => AuditorPermits
  <2> SUFFICES ASSUME IInv(s), faults = 0 PROVE Linked(Audited(s))
    BY DEF AuditorPermits, Vote
  <2>1. Table(s) \in Seq(Entry) /\ Verifies(Table(s)) /\ ByTime(Table(s)) = Table(s)
    BY ByTimeIsItself, TableTyped DEF IInv, Sound
  <2> QED BY <2>1, WindowLinked, AuditAssumption DEF Audited
<1> QED BY <1>1, OneServerInv, PTL

(* As long as nothing failed and nothing had to leave the list: an unloaded *)
(* list is empty, a loaded one is the table, and while an entry is being    *)
(* written the list is ahead of the table by that entry.                    *)
Whole == faults = 0 /\ next <= MaxCache + 1

ListIsTable(s) ==
    /\ Len(disk) < next
    /\ pc[s] = "fetch" \/ (pc[s] = "idle" /\ ~loaded[s]) => cache[s] = <<>>
    /\ pc[s] \in {"last", "append"} \/ (pc[s] = "idle" /\ loaded[s]) => cache[s] = disk
    /\ pc[s] = "persist" => cache[s] = Append(disk, Held(s)) /\ Len(disk) + 1 < next

VInv(s) == IInv(s) /\ (Whole => ListIsTable(s))

LEMMA NothingEvicted ==
    ASSUME NEW t \in Seq(Entry), NEW n \in Nat, Len(t) <= n PROVE Newest(t, n) = t
BY DEF Newest

LEMMA ListInit == ASSUME NEW s, Processes = {s}, Init PROVE Whole => ListIsTable(s)
<1>1. Len(disk) = 0 /\ next = 1 /\ pc[s] = "idle" /\ ~loaded[s] /\ cache[s] = <<>>
  BY DEF Init
<1> QED BY <1>1 DEF ListIsTable

(* One case per action; a step taken in the whole log was taken from one.   *)
LEMMA ListStep ==
    ASSUME NEW s, Processes = {s}, MaxCache <= LoadLimit, VInv(s), IInv(s)', Next, Whole'
    PROVE  ListIsTable(s)'
<1> USE AuditAssumption
<1>1. /\ disk \in Seq(Entry) /\ Len(disk) \in Nat /\ next \in Nat \ {0}
      /\ cache[s] \in Seq(Entry) /\ last[s] \in Nat /\ faults \in Nat
      /\ cache \in [Processes -> Seq(Entry)] /\ loaded \in [Processes -> BOOLEAN]
      /\ pc \in [Processes -> {"idle", "fetch", "last", "append", "persist"}]
      /\ Position(s)
  BY DEF VInv, IInv, TypeOK
<1>2. faults' = 0 /\ next' <= MaxCache + 1 /\ next' \in Nat
  BY DEF Whole, IInv, TypeOK
<1>a. ASSUME faults = 0 PROVE Table(s) = disk /\ ByTime(disk) = disk /\ open[s] = <<>>
  BY <1>a, ByTimeIsItself, TableTyped, CleanIsDisk DEF VInv, IInv, Sound
<1>3. ASSUME faults' = faults, next' = next PROVE ListIsTable(s)
  BY <1>2, <1>3 DEF VInv, Whole
<1>b. ~ Fails
  BY <1>1, <1>2 DEF Fails
<1>4. ASSUME NEW add \in BOOLEAN, Begin(s, add) PROVE ListIsTable(s)'
  <2>1. ListIsTable(s)
    BY <1>3, <1>4 DEF Begin
  <2>2. /\ UNCHANGED <<disk, cache, next>> /\ pc[s] = "idle" /\ loaded'[s]
        /\ pc'[s] = IF ~loaded[s] THEN "fetch" ELSE IF add THEN "append" ELSE "idle"
    BY <1>1, <1>4 DEF Begin, Goto
  <2> QED BY <2>1, <2>2 DEF ListIsTable
<1>5. CASE Fetch(s)
  <2>1. Works /\ cache'[s] = Newest(disk, LoadLimit) /\ pc'[s] = "last"
    <3>1. Works
      BY <1>b, <1>5 DEF Fetch
    <3>2. faults = 0
      BY <1>2, <3>1 DEF Works
    <3> QED BY <1>a, <1>1, <1>b, <1>5, <3>1, <3>2 DEF Fetch, Goto
  <2>2. ListIsTable(s) /\ UNCHANGED <<disk, next>>
    BY <1>3, <1>5, <2>1 DEF Fetch, Works
  <2>3. Len(disk) <= LoadLimit
    BY <1>1, <1>2, <2>2 DEF ListIsTable
  <2>4. cache'[s] = disk
    BY <1>1, <2>1, <2>3, NothingEvicted
  <2> QED BY <2>1, <2>2, <2>4 DEF ListIsTable
<1>6. CASE FetchLast(s)
  <2>1. Works
    BY <1>1, <1>2, <1>6 DEF FetchLast, Fails
  <2>2. /\ ListIsTable(s) /\ UNCHANGED <<disk, next, cache, loaded>>
        /\ pc[s] = "last" /\ pc'[s] \in {"append", "idle"} /\ loaded[s]
    BY <1>1, <1>3, <1>6, <2>1 DEF FetchLast, Works, Resume, Goto, Position
  <2> QED BY <2>2 DEF ListIsTable
<1>7. CASE AppendEntry(s)
  <2> DEFINE entry == [id |-> next, prev |-> last[s]]
             all == Append(cache[s], entry)
  <2>1. /\ UNCHANGED <<disk, faults>> /\ next' = next + 1 /\ pc[s] = "append"
        /\ pc'[s] = "persist" /\ cache'[s] = Newest(all, MaxCache)
    BY <1>1, <1>7 DEF AppendEntry, Goto
  <2>2. ListIsTable(s)
    BY <1>1, <1>2, <2>1 DEF VInv, Whole
  <2>3. cache[s] = disk /\ Len(disk) < next
    BY <2>1, <2>2 DEF ListIsTable
  <2>4. entry \in Entry
    BY <1>1 DEF Entry
  <2> HIDE DEF entry
  <2>5. all \in Seq(Entry) /\ Len(all) = Len(disk) + 1 /\ all[Len(all)] = entry
    BY <1>1, <2>3, <2>4
  <2>6. cache'[s] = all
    <3>1. Len(all) <= MaxCache
      BY <1>1, <1>2, <2>1, <2>3, <2>5
    <3> HIDE DEF all
    <3> QED BY <2>1, <2>5, <3>1, NothingEvicted
  <2>7. Held(s)' = entry
    BY <2>5, <2>6 DEF Held
  <2>8. cache'[s] = Append(disk', Held(s)')
    BY <2>1, <2>3, <2>6, <2>7
  <2> QED BY <1>1, <2>1, <2>3, <2>8 DEF ListIsTable
<1>8. CASE Persist(s)
  <2>1. /\ Works /\ UNCHANGED <<cache, loaded, next>> /\ pc[s] = "persist"
        /\ pc'[s] = "idle" /\ disk' = disk \o Append(open[s], Held(s)) /\ loaded[s]
    <3>1. loaded[s]
      BY <1>1, <1>8 DEF Persist, Position
    <3> QED BY <1>1, <1>b, <1>8, <3>1 DEF Persist, Goto, Held
  <2>2. ListIsTable(s)
    BY <1>3, <2>1 DEF Works
  <2>0. disk' = Append(disk, Held(s))
    <3>1. open[s] = <<>> /\ disk \o <<Held(s)>> = Append(disk, Held(s))
      BY <1>a, <1>1, <1>2, <2>1 DEF Works
    <3> QED BY <2>1, <3>1
  <2>3. cache[s] = disk' /\ Len(disk) + 1 < next
    BY <2>0, <2>1, <2>2 DEF ListIsTable
  <2>4. Len(disk') = Len(disk) + 1
    BY <1>1, <2>0
  <2> QED BY <2>1, <2>3, <2>4 DEF ListIsTable
<1>9. CASE Restart(s) \/ PowerLoss
  <2>1. /\ UNCHANGED <<next, faults>> /\ cache'[s] = <<>>
        /\ pc'[s] = "idle" /\ ~loaded'[s]
    BY <1>9 DEF Restart, PowerLoss, Forget
  <2>2. Len(disk') <= Len(disk) /\ Len(disk') \in Nat
    <3>1. CASE Restart(s)
      BY <1>1, <3>1 DEF Restart
    <3>2. CASE PowerLoss
      BY <1>1, <3>2 DEF PowerLoss
    <3> QED BY <1>9, <3>1, <3>2
  <2>3. Len(disk) < next
    BY <1>3, <2>1 DEF ListIsTable
  <2>4. Len(disk') < next'
    BY <1>1, <2>1, <2>2, <2>3
  <2> QED BY <2>1, <2>4 DEF ListIsTable
<1>10. CASE OtherWrite(s)
  BY <1>a, <1>1, <1>2, <1>10 DEF OtherWrite, Works, Fails
<1> QED BY <1>4, <1>5, <1>6, <1>7, <1>8, <1>9, <1>10 DEF Next

LEMMA ListInv ==
    ASSUME NEW s, Processes = {s}, MaxCache <= LoadLimit PROVE Spec => []VInv(s)
<1>1. Init => VInv(s)
  BY InitInv, ListInit DEF VInv
<1>2. VInv(s) /\ IInv(s)' /\ [Next]_vars => VInv(s)'
  <2> SUFFICES ASSUME VInv(s), IInv(s)', [Next]_vars, Whole' PROVE ListIsTable(s)'
    BY DEF VInv
  <2>1. CASE UNCHANGED vars
    BY <2>1 DEF vars, VInv, Whole, ListIsTable, Held
  <2>2. CASE Next
    BY <2>2, ListStep
  <2> QED BY <2>1, <2>2
<1> QED BY <1>1, <1>2, OneServerInv, PTL DEF Spec

(* GET /v1/audit/verify accepts whatever one server wrote and reloaded, as  *)
(* long as no call failed and the log still fits the list, provided that a  *)
(* load reads at least a full list (100000 rows against 10000 in the code). *)
THEOREM OwnLogVerifies ==
    ASSUME NEW s, Processes = {s}, MaxCache <= LoadLimit
    PROVE  Spec => []VerifiesUnlessEvicted
<1>1. VInv(s) => VerifiesUnlessEvicted
  <2> SUFFICES ASSUME VInv(s), Whole, pc[s] \in {"idle", "append"} PROVE Verifies(cache[s])
    BY DEF VerifiesUnlessEvicted, Whole
  <2>1. ListIsTable(s) /\ Verifies(disk) /\ loaded[s] \in BOOLEAN
    BY CleanIsDisk DEF VInv, Whole, IInv, TypeOK
  <2>2. CASE cache[s] = <<>>
    <3>1. Len(cache[s]) = 0
      BY <2>2
    <3> QED BY <3>1 DEF Verifies
  <2>3. CASE cache[s] = disk
    BY <2>1, <2>3
  <2> QED BY <2>1, <2>2, <2>3 DEF ListIsTable
<1> QED BY <1>1, ListInv, PTL
=============================================================================
