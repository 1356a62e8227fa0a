-------------------------- MODULE ChatGateway_proofs --------------------------
(***************************************************************************)
(* Facts about the rule evaluator, for every list of rules: the first      *)
(* matching rule exists, a blocking rule can be passed only by a rule that *)
(* ranks no lower, the shipped rules alone let nothing personal out, and   *)
(* loading puts the consent gate above the block it would hide behind.     *)
(*                                                                         *)
(* The chat gateway for any chats, memories, providers, configurations,    *)
(* rules and answers: what leaves, on whose word, and what is written      *)
(* down.                                                                   *)
(*                                                                         *)
(* A memory is in a prompt on the word of a preference, and no preference  *)
(* is without a receipt (PrefsBacked). Nothing is logged for a chat before *)
(* it is answered (NotYetLogged), and nothing is in a prompt before it is  *)
(* put together (NotYetFilled), so that a prompt is filled, posted and     *)
(* logged once. For what stays home, a chat holds the rules it was given,  *)
(* which have the shipped block for as long as every rules file has it.    *)
(***************************************************************************)
EXTENDS ChatGateway, SequenceTheorems, WellFoundedInduction, TLAPS

-----------------------------------------------------------------------------
(* The rule evaluator *)

(* A non-empty set of naturals has a least element.                         *)
LEMMA LeastNat == ASSUME NEW T \in SUBSET Nat, T # {}
                  PROVE  \E x \in T : \A y \in T : x <= y
<1>1. \E x \in T : \A y \in T : ~ (<<y, x>> \in OpToRel(<, Nat))
  BY NatLessThanWellFounded, WFMin
<1>2. PICK x \in T : \A y \in T : ~ (<<y, x>> \in OpToRel(<, Nat))
  BY <1>1
<1>3. \A y \in T : x <= y
  <2>. SUFFICES ASSUME NEW y \in T, ~ (x <= y) PROVE FALSE
    OBVIOUS
  <2>1. y < x /\ <<y, x>> \in Nat \X Nat
    BY SMT
  <2>2. <<y, x>> \in OpToRel(<, Nat)
    BY <2>1 DEF OpToRel
  <2>. QED  BY <1>2, <2>2
<1>. QED  BY <1>3

(* Sorting is stable and total: some hit comes before all others.           *)
LEMMA FirstIsHit ==
    ASSUME NEW rs \in Seq(Rule), NEW hits \in SUBSET (1..Len(rs)), hits # {}
    PROVE  /\ First(rs, hits) \in hits
           /\ \A j \in hits : Before(rs, First(rs, hits), j)
<1>. DEFINE gap(i) == MaxPriority + 1 - rs[i].priority
            gaps == {gap(i) : i \in hits}
<1>1. Len(rs) \in Nat /\ \A i \in hits : i \in 1..Len(rs) /\ i \in Nat /\ rs[i] \in Rule
  <2>1. Len(rs) \in Nat /\ \A i \in 1..Len(rs) : rs[i] \in Rule
    OBVIOUS
  <2>. QED  BY <2>1
<1>2. \A i \in hits : rs[i].priority \in Int /\ gap(i) \in Nat
  <2>. SUFFICES ASSUME NEW i \in hits
                PROVE  rs[i].priority \in Int /\ gap(i) \in Nat
    OBVIOUS
  <2>1. rs[i].priority \in 0..MaxPriority + 1
    BY <1>1 DEF Rule
  <2>2. MaxPriority \in Nat
    BY DEF MaxPriority
  <2>3. \A p \in 0..MaxPriority + 1 : p \in Int /\ MaxPriority + 1 - p \in Nat
    BY <2>2
  <2>. QED  BY <2>1, <2>3
<1>3. PICK least \in gaps : \A y \in gaps : least <= y
  <2>0. \A i \in hits : gap(i) \in gaps
    OBVIOUS
  <2>1. gaps \subseteq Nat /\ gaps # {}
    <3>1. gaps \subseteq Nat
      BY <1>2
    <3>2. gaps # {}
      <4>1. PICK i \in hits : TRUE
        OBVIOUS
      <4>. QED  BY <4>1, <2>0
    <3>. QED  BY <3>1, <3>2
  <2>. HIDE DEF gaps
  <2>. QED  BY <2>1, LeastNat
<1>. DEFINE top == {i \in hits : gap(i) = least}
<1>4. PICK first \in top : \A j \in top : first <= j
  <2>1. top \in SUBSET Nat /\ top # {}
    BY <1>1, <1>3
  <2>. HIDE DEF top
  <2>. QED  BY <2>1, LeastNat
<1>5. \A j \in hits : Before(rs, first, j)
  <2>. SUFFICES ASSUME NEW j \in hits PROVE Before(rs, first, j)
    OBVIOUS
  <2>1. gap(first) <= gap(j) /\ (gap(first) = gap(j) => first <= j)
    BY <1>3, <1>4
  <2>2. rs[first].priority \in Int /\ rs[j].priority \in Int
    BY <1>2, <1>4
  <2>3. MaxPriority \in Nat
    BY DEF MaxPriority
  <2>. QED  BY <2>1, <2>2, <2>3 DEF Before
<1>6. first \in hits
  BY <1>4
<1>. QED  BY <1>5, <1>6 DEF First

(* Where a rule matches, the verdict is that of a matching rule that comes   *)
(* before all other matching rules.                                         *)
LEMMA VerdictOfFirst ==
    ASSUME NEW rs \in Seq(Rule), NEW m, NEW p, NEW h, Hits(rs, m, p, h) # {}
    PROVE  \E k \in Hits(rs, m, p, h) :
              /\ Verdict(rs, m, p, h) = rs[k].action
              /\ \A j \in Hits(rs, m, p, h) : Before(rs, k, j)
<1>. DEFINE hits == Hits(rs, m, p, h)
<1>1. hits \in SUBSET (1..Len(rs))
  BY DEF Hits
<1>2. First(rs, hits) \in hits /\ \A j \in hits : Before(rs, First(rs, hits), j)
  <2>1. hits # {}
    OBVIOUS
  <2>. HIDE DEF hits
  <2>. QED  BY <1>1, <2>1, FirstIsHit
<1>3. Verdict(rs, m, p, h) = rs[First(rs, hits)].action
  BY DEF Verdict
<1>. QED  BY <1>2, <1>3

(* A block holds unless a rule that ranks no lower says otherwise, whatever  *)
(* other rules there are and in whatever order their files were read.       *)
THEOREM BlockHolds ==
    ASSUME NEW rs \in Seq(Rule), NEW m, NEW p, NEW h,
           NEW b \in Hits(rs, m, p, h), rs[b].action = "BLOCK",
           Verdict(rs, m, p, h) # "BLOCK"
    PROVE  \E k \in Hits(rs, m, p, h) :
              /\ rs[k].action = Verdict(rs, m, p, h)
              /\ rs[k].priority >= rs[b].priority
<1>1. PICK k \in Hits(rs, m, p, h) :
          /\ Verdict(rs, m, p, h) = rs[k].action
          /\ \A j \in Hits(rs, m, p, h) : Before(rs, k, j)
  BY VerdictOfFirst
<1>2. k \in 1..Len(rs) /\ b \in 1..Len(rs)
  BY DEF Hits
<1>3. rs[k] \in Rule /\ rs[b] \in Rule
  BY <1>2
<1>4. rs[k].priority \in Int /\ rs[b].priority \in Int
  <2>1. rs[k].priority \in 0..MaxPriority + 1 /\ rs[b].priority \in 0..MaxPriority + 1
    BY <1>3 DEF Rule
  <2>2. \A x \in 0..MaxPriority + 1 : x \in Int
    OBVIOUS
  <2>. QED  BY <2>1, <2>2
<1>5. rs[k].priority >= rs[b].priority
  BY <1>1, <1>4 DEF Before
<1>. QED  BY <1>1, <1>5

(* What the shipped rules consist of. *)
LEMMA DefaultsByName ==
    /\ Len(DefaultRules) = 7
    /\ DefaultRules[1] = BlockLevel3 /\ DefaultRules[2] = ConsentLevel3
    /\ DefaultRules[3] = BlockLevel2 /\ DefaultRules[4] = RedactLevel1
    /\ DefaultRules[5] = BlockHealth /\ DefaultRules[6] = BlockFinance
    /\ DefaultRules[7] = PermitLevel0
BY DEF DefaultRules

LEMMA ScopedIsRule ==
    ASSUME NEW id \in Ids, NEW prio \in 0..MaxPriority, NEW act \in Actions,
           NEW lo \in Levels, NEW hi \in Levels,
           NEW inc \in SUBSET Tags, NEW not \in SUBSET Providers
    PROVE  Scoped(id, prio, lo, hi, inc, not, act) \in FileRule
<1>1. prio \in 0..MaxPriority + 1 /\ prio <= MaxPriority
  <2>1. MaxPriority \in Nat
    BY DEF MaxPriority
  <2>. QED  BY <2>1
<1>2. 0 \in 0..24 /\ 24 \in 0..24
  OBVIOUS
<1>3. Scoped(id, prio, lo, hi, inc, not, act) \in Rule
  BY <1>1, <1>2 DEF Rule, Scoped
<1>4. Scoped(id, prio, lo, hi, inc, not, act).priority = prio
  BY DEF Scoped
<1>. QED  BY <1>1, <1>3, <1>4 DEF FileRule

LEMMA DefaultsAreRules == DefaultRules \in Seq(FileRule)
<1>1. /\ 10 \in 0..MaxPriority /\ 50 \in 0..MaxPriority /\ 80 \in 0..MaxPriority
      /\ 90 \in 0..MaxPriority /\ 100 \in 0..MaxPriority
  BY DEF MaxPriority
<1>2. Health \in SUBSET Tags /\ Finance \in SUBSET Tags /\ {} \in SUBSET Tags
  BY DEF Tags
<1>3. {Local} \in SUBSET Providers /\ {} \in SUBSET Providers
  BY RulesAssumption
<1>4. /\ "PERMIT" \in Actions /\ "REDACT" \in Actions
      /\ "BLOCK" \in Actions /\ "CONSENT_REQUIRED" \in Actions
  BY DEF Actions
<1>5. 0 \in Levels /\ 1 \in Levels /\ 2 \in Levels /\ 3 \in Levels
  BY DEF Levels
<1>6. BlockLevel3 \in FileRule
  BY <1>1, <1>2, <1>3, <1>4, <1>5, ScopedIsRule DEF BlockLevel3, Ids, ShippedIds
<1>7. ConsentLevel3 \in FileRule
  BY <1>1, <1>2, <1>3, <1>4, <1>5, ScopedIsRule DEF ConsentLevel3, Ids, ShippedIds
<1>8. BlockLevel2 \in FileRule
  BY <1>1, <1>2, <1>3, <1>4, <1>5, ScopedIsRule DEF BlockLevel2, Ids, ShippedIds
<1>9. RedactLevel1 \in FileRule
  BY <1>1, <1>2, <1>3, <1>4, <1>5, ScopedIsRule DEF RedactLevel1, Ids, ShippedIds
<1>10. BlockHealth \in FileRule
  BY <1>1, <1>2, <1>3, <1>4, <1>5, ScopedIsRule DEF BlockHealth, Ids, ShippedIds
<1>11. BlockFinance \in FileRule
  BY <1>1, <1>2, <1>3, <1>4, <1>5, ScopedIsRule DEF BlockFinance, Ids, ShippedIds
<1>12. PermitLevel0 \in FileRule
  BY <1>1, <1>2, <1>3, <1>4, <1>5, ScopedIsRule DEF PermitLevel0, Ids, ShippedIds
<1>. QED  BY <1>6, <1>7, <1>8, <1>9, <1>10, <1>11, <1>12 DEF DefaultRules

(* The shipped rules alone let nothing of level 2 or 3 out without consent,  *)
(* to whichever provider and at whatever hour.                              *)
THEOREM DefaultsHold ==
    ASSUME NEW m \in Judged, m.level >= 2, NEW p, NEW h
    PROVE  Verdict(DefaultRules, m, p, h) \notin {"PERMIT", "REDACT"}
<1>1. m.level \in {2, 3}
  BY DEF Judged, Levels
<1>2. CASE Hits(DefaultRules, m, p, h) = {}
  BY <1>1, <1>2 DEF Verdict, LevelDefault
<1>3. CASE Hits(DefaultRules, m, p, h) # {}
  <2>1. PICK k \in Hits(DefaultRules, m, p, h) :
            Verdict(DefaultRules, m, p, h) = DefaultRules[k].action
    <3>1. DefaultRules \in Seq(Rule)
      BY DefaultsAreRules DEF FileRule
    <3>. QED  BY <1>3, <3>1, VerdictOfFirst
  <2>2. k \in 1..7 /\ m.level \in DefaultRules[k].min..DefaultRules[k].max
    BY <2>1, DefaultsByName DEF Hits, Matches, ConditionsMatch
  <2>3. RedactLevel1.max = 1 /\ PermitLevel0.max = 0
    BY DEF RedactLevel1, PermitLevel0, Scoped
  <2>4. k \notin {4, 7}
    <3>1. k = 4 => m.level \in DefaultRules[4].min..1
      BY <2>2, <2>3, DefaultsByName
    <3>2. k = 7 => m.level \in DefaultRules[7].min..0
      BY <2>2, <2>3, DefaultsByName
    <3>. QED  BY <1>1, <3>1, <3>2
  <2>5. \A r \in {BlockLevel3, ConsentLevel3, BlockLevel2, BlockHealth, BlockFinance} :
            r.action \in {"BLOCK", "CONSENT_REQUIRED"}
    BY DEF BlockLevel3, ConsentLevel3, BlockLevel2, BlockHealth, BlockFinance, Scoped
  <2>6. DefaultRules[k].action \in {"BLOCK", "CONSENT_REQUIRED"}
    BY <2>2, <2>4, <2>5, DefaultsByName
  <2>. QED  BY <2>1, <2>6
<1>. QED  BY <1>2, <1>3

(* The last rule with an id, where there is one.                            *)
LEMMA LastIsLast ==
    ASSUME NEW rs \in Seq(Rule), NEW id, HasId(rs, id)
    PROVE  /\ LastWithId(rs, id) \in 1..Len(rs) /\ rs[LastWithId(rs, id)].id = id
           /\ \A j \in 1..Len(rs) : rs[j].id = id => j <= LastWithId(rs, id)
<1>. DEFINE hits == {i \in 1..Len(rs) : rs[i].id = id}
            gaps == {Len(rs) - i : i \in hits}
<1>1. Len(rs) \in Nat /\ \A i \in hits : i \in 1..Len(rs)
  OBVIOUS
<1>2. \A i \in 1..Len(rs) : Len(rs) - i \in Nat
  BY <1>1
<1>3. gaps \subseteq Nat /\ gaps # {}
  <2>1. gaps \subseteq Nat
    BY <1>2
  <2>2. PICK i \in 1..Len(rs) : rs[i].id = id
    BY DEF HasId
  <2>3. Len(rs) - i \in gaps
    BY <2>2
  <2>. QED  BY <2>1, <2>3
<1>4. PICK least \in gaps : \A y \in gaps : least <= y
  <2>. HIDE DEF gaps
  <2>. QED  BY <1>3, LeastNat
<1>5. PICK i \in hits : Len(rs) - i = least
  BY <1>4
<1>6. \A j \in 1..Len(rs) : rs[j].id = id => j <= i
  <2>. SUFFICES ASSUME NEW j \in 1..Len(rs), rs[j].id = id PROVE j <= i
    OBVIOUS
  <2>1. Len(rs) - j \in gaps
    OBVIOUS
  <2>2. Len(rs) - i <= Len(rs) - j
    BY <1>4, <1>5, <2>1
  <2>. QED  BY <1>1, <1>5, <2>2
<1>. QED  BY <1>5, <1>6 DEF LastWithId

(* Loading changes nothing of the rules but one priority, which it raises.   *)
LEMMA NormalisedRaises ==
    ASSUME NEW rs \in Seq(FileRule)
    PROVE  /\ Normalised(rs) \in Seq(Rule) /\ Len(Normalised(rs)) = Len(rs)
           /\ \A i \in 1..Len(rs) :
                 \E n \in 0..MaxPriority + 1 :
                    /\ n >= rs[i].priority
                    /\ Normalised(rs)[i] = [rs[i] EXCEPT !.priority = n]
<1>1. /\ MaxPriority \in Nat /\ Len(rs) \in Nat /\ rs \in Seq(Rule)
      /\ \A i \in 1..Len(rs) : rs[i] \in FileRule /\ rs[i] \in Rule
  BY DEF MaxPriority, FileRule
<1>0. \A x \in 0..MaxPriority : x \in 0..MaxPriority + 1 /\ x >= x
  BY <1>1
<1>2. \A i \in 1..Len(rs) : /\ rs[i].priority \in 0..MaxPriority
                           /\ rs[i] = [rs[i] EXCEPT !.priority = rs[i].priority]
  <2>. SUFFICES ASSUME NEW i \in 1..Len(rs)
                PROVE  /\ rs[i].priority \in 0..MaxPriority
                       /\ rs[i] = [rs[i] EXCEPT !.priority = rs[i].priority]
    OBVIOUS
  <2>1. rs[i] \in Rule /\ rs[i].priority <= MaxPriority
    BY <1>1 DEF FileRule
  <2>2. rs[i].priority \in 0..MaxPriority + 1
    BY <2>1 DEF Rule
  <2>3. rs[i] = [rs[i] EXCEPT !.priority = rs[i].priority]
    <3>1. PICK r \in Rule : r = rs[i]
      BY <2>1
    <3>2. r = [r EXCEPT !.priority = r.priority]
      BY Zenon DEF Rule
    <3>. QED  BY <3>1, <3>2
  <2>. QED  BY <1>1, <2>1, <2>2, <2>3
<1>3. CASE Normalised(rs) = rs
  <2>. SUFFICES ASSUME NEW i \in 1..Len(rs)
                PROVE  \E n \in 0..MaxPriority + 1 :
                          /\ n >= rs[i].priority
                          /\ rs[i] = [rs[i] EXCEPT !.priority = n]
    BY <1>1, <1>3
  <2>1. rs[i].priority \in 0..MaxPriority + 1 /\ rs[i].priority >= rs[i].priority
    BY <1>0, <1>2
  <2>2. rs[i] = [rs[i] EXCEPT !.priority = rs[i].priority]
    BY <1>2
  <2>. QED  BY <2>1, <2>2
<1>4. CASE Normalised(rs) # rs
  <2>. DEFINE c == LastWithId(rs, "consent-level3")
              b == LastWithId(rs, "block-level3-cloud")
              n == rs[b].priority + 1
  <2>1. /\ HasId(rs, "consent-level3") /\ HasId(rs, "block-level3-cloud")
        /\ rs[c].priority <= rs[b].priority
        /\ Normalised(rs) = [rs EXCEPT ![c].priority = n]
    BY <1>4 DEF Normalised
  <2>2. c \in 1..Len(rs) /\ b \in 1..Len(rs)
    BY <1>1, <2>1, LastIsLast
  <2>3. rs[b].priority \in 0..MaxPriority /\ rs[c].priority \in 0..MaxPriority
    BY <1>2, <2>2
  <2>. HIDE DEF c, b
  <2>4. n \in 0..MaxPriority + 1 /\ n >= rs[c].priority
    BY <1>1, <2>1, <2>3
  <2>. HIDE DEF n
  <2>5. rs[c] \in Rule
    BY <1>1, <2>2
  <2>6. [rs[c] EXCEPT !.priority = n] \in Rule
    BY <2>4, <2>5 DEF Rule
  <2>7. [rs EXCEPT ![c].priority = n] = [rs EXCEPT ![c] = [rs[c] EXCEPT !.priority = n]]
    OBVIOUS
  <2>. DEFINE out == [rs EXCEPT ![c] = [rs[c] EXCEPT !.priority = n]]
  <2>8. out \in Seq(Rule) /\ Len(out) = Len(rs)
    BY <1>1, <2>2, <2>6
  <2>9. \A i \in 1..Len(rs) :
           out[i] = IF i = c THEN [rs[c] EXCEPT !.priority = n] ELSE rs[i]
    BY <1>1, <2>2
  <2>10. Normalised(rs) = out
    BY <2>1, <2>7
  <2>. HIDE DEF out
  <2>11. \A i \in 1..Len(rs) :
            \E m \in 0..MaxPriority + 1 :
               m >= rs[i].priority /\ out[i] = [rs[i] EXCEPT !.priority = m]
    <3>. SUFFICES ASSUME NEW i \in 1..Len(rs)
                  PROVE  \E m \in 0..MaxPriority + 1 :
                            m >= rs[i].priority /\ out[i] = [rs[i] EXCEPT !.priority = m]
      OBVIOUS
    <3>1. CASE i = c
      <4>1. out[i] = [rs[i] EXCEPT !.priority = n] /\ n >= rs[i].priority
        BY <2>4, <2>9, <3>1
      <4>. QED  BY <2>4, <4>1
    <3>2. CASE i # c
      <4>1. rs[i].priority \in 0..MaxPriority + 1 /\ rs[i].priority >= rs[i].priority
        BY <1>0, <1>2
      <4>2. out[i] = [rs[i] EXCEPT !.priority = rs[i].priority]
        BY <1>2, <2>9, <3>2
      <4>. QED  BY <4>1, <4>2
    <3>. QED  BY <3>1, <3>2
  <2>. QED  BY <2>8, <2>10, <2>11
<1>. QED  BY <1>3, <1>4

(* policies.py:266: loading raises the consent gate "so consent gates are    *)
(* reachable even with stale local policy files".  With one rule of each id, *)
(* whatever its priority was, the gate ends above the block, and where both  *)
(* match the block does not decide.                                         *)
THEOREM ConsentGateReachable ==
    ASSUME NEW rs \in Seq(FileRule), NEW c \in 1..Len(rs), NEW b \in 1..Len(rs),
           rs[c].id = "consent-level3", rs[b].id = "block-level3-cloud",
           \A i \in 1..Len(rs) : rs[i].id = "consent-level3" => i = c,
           \A i \in 1..Len(rs) : rs[i].id = "block-level3-cloud" => i = b
    PROVE  /\ Normalised(rs)[c].priority > Normalised(rs)[b].priority
           /\ \A m, p, h :
                 c \in Hits(Normalised(rs), m, p, h) =>
                 First(Normalised(rs), Hits(Normalised(rs), m, p, h)) # b
<1>1. /\ MaxPriority \in Nat /\ rs \in Seq(Rule) /\ b # c
      /\ \A i \in 1..Len(rs) : rs[i].priority \in Int
  <2>1. MaxPriority \in Nat /\ rs \in Seq(Rule) /\ b # c
    BY DEF MaxPriority, FileRule
  <2>2. \A r \in Rule : r.priority \in 0..MaxPriority + 1
    BY DEF Rule
  <2>3. \A x \in 0..MaxPriority + 1 : x \in Int
    BY <2>1
  <2>4. \A i \in 1..Len(rs) : rs[i] \in Rule
    BY <2>1
  <2>. QED  BY <2>1, <2>2, <2>3, <2>4
<1>2. HasId(rs, "consent-level3") /\ HasId(rs, "block-level3-cloud")
  BY DEF HasId
<1>3. LastWithId(rs, "consent-level3") = c /\ LastWithId(rs, "block-level3-cloud") = b
  BY <1>1, <1>2, LastIsLast
<1>4. Normalised(rs)[c].priority > Normalised(rs)[b].priority
  <2>1. CASE rs[c].priority <= rs[b].priority
    <3>1. Normalised(rs) = [rs EXCEPT ![c].priority = rs[b].priority + 1]
      BY <1>2, <1>3, <2>1 DEF Normalised
    <3>2. Normalised(rs)[b] = rs[b]
      BY <1>1, <3>1
    <3>3. Normalised(rs)[c] = [rs[c] EXCEPT !.priority = rs[b].priority + 1]
      BY <3>1
    <3>4. rs[c] \in Rule
      BY <1>1
    <3>5. Normalised(rs)[c].priority = rs[b].priority + 1
      BY <3>3, <3>4 DEF Rule
    <3>. QED  BY <1>1, <3>2, <3>5
  <2>2. CASE ~ (rs[c].priority <= rs[b].priority)
    <3>1. Normalised(rs) = rs
      BY <1>2, <1>3, <2>2 DEF Normalised
    <3>. QED  BY <1>1, <2>2, <3>1
  <2>. QED  BY <2>1, <2>2
<1>5. ASSUME NEW m, NEW p, NEW h, c \in Hits(Normalised(rs), m, p, h)
      PROVE  First(Normalised(rs), Hits(Normalised(rs), m, p, h)) # b
  <2>. DEFINE n == Normalised(rs)
              hits == Hits(n, m, p, h)
  <2>1. n \in Seq(Rule) /\ hits \in SUBSET (1..Len(n)) /\ c \in hits
    BY <1>5, NormalisedRaises DEF Hits
  <2>2. n[c].priority > n[b].priority
    BY <1>4
  <2>3. n[c].priority \in Int /\ n[b].priority \in Int
    <3>1. c \in 1..Len(n) /\ b \in 1..Len(n)
      BY NormalisedRaises
    <3>2. n[c] \in Rule /\ n[b] \in Rule
      BY <3>1, NormalisedRaises
    <3>3. \A r \in Rule : r.priority \in 0..MaxPriority + 1
      BY DEF Rule
    <3>4. \A x \in 0..MaxPriority + 1 : x \in Int
      BY <1>1
    <3>. QED  BY <3>2, <3>3, <3>4
  <2>. HIDE DEF n, hits
  <2>4. Before(n, First(n, hits), c)
    BY <2>1, FirstIsHit
  <2>5. First(n, hits) # b
    BY <2>2, <2>3, <2>4 DEF Before
  <2>. QED  BY <2>5 DEF n, hits
<1>. QED  BY <1>4, <1>5

-----------------------------------------------------------------------------
(* The gateway *)

Backs(a, p, m) ==
    \/ a.forProvider /\ a.provider = p
    \/ a.forTag \in TagsOf[m]

PrefsBacked ==
    \A k \in Keys : prefs[k] # Unset =>
        \E i \in 1..Len(receipts) : /\ receipts[i].decision = prefs[k]
                                    /\ Concerns(receipts[i], k)

NotYetFilled == \A q \in Chats : pc[q] \in {"new", "arrived"} => context[q] = {}

NotYetLogged ==
    \A q \in Chats : pc[q] \notin {"done", "settled"} => \A e \in auditLog : e.chat # q

IInv == TypeOK /\ PrefsBacked /\ NotYetFilled /\ NotYetLogged
        /\ ConsentBacked /\ AnsweredIsAudited

-----------------------------------------------------------------------------
(* Types. *)
LEMMA VerdictType ==
    ASSUME NEW rs \in Seq(Rule), NEW m \in Judged, NEW p, NEW h
    PROVE  Verdict(rs, m, p, h) \in Actions
<1>1. CASE Hits(rs, m, p, h) = {}
  BY <1>1 DEF Verdict, LevelDefault, Actions
<1>2. CASE Hits(rs, m, p, h) # {}
  <2>1. PICK k \in Hits(rs, m, p, h) : Verdict(rs, m, p, h) = rs[k].action
    BY <1>2, VerdictOfFirst
  <2>2. rs[k] \in Rule
    BY DEF Hits
  <2> QED BY <2>1, <2>2 DEF Rule
<1> QED BY <1>1, <1>2

LEMMA AsJudgedType == \A m \in Memories : AsJudged(m) \in Judged
BY GatewayAssumption DEF AsJudged, Judged

LEMMA NowForType ==
    ASSUME TypeOK, NEW q \in Chats
    PROVE  NowFor(q) \in Providers
<1>1. settings[view[q]] \in Configs
  BY DEF TypeOK
<1>2. PICK config \in Configs : config = settings[view[q]]
  BY <1>1
<1>3. config.provider \in Providers /\ config.keys \subseteq Providers
  BY GatewayAssumption
<1>4. Effective(config) \in Providers
  BY <1>3, RulesAssumption DEF Effective
<1> QED BY <1>2, <1>4 DEF NowFor

LEMMA LoadedType ==
    ASSUME NEW files \in RuleFiles
    PROVE  LoadPolicies(files) \in Seq(Rule)
<1>1. files \in Seq(FileRule)
  BY GatewayAssumption
<1> QED BY <1>1, DefaultsAreRules, NormalisedRaises DEF LoadPolicies

LEMMA PermittedType ==
    ASSUME NEW found \in SUBSET Memories, NEW verdict \in [found -> Actions],
           NEW answer \in [found -> Decisions \cup {Unset}]
    PROVE  /\ Permitted(verdict, answer) \subseteq Item
           /\ Unanswered(verdict, answer) \subseteq Memories
           /\ \A i \in Permitted(verdict, answer) :
                 /\ i.mem \in found /\ i.verdict = verdict[i.mem]
                 /\ i.verdict = "CONSENT_REQUIRED" => answer[i.mem] = Approval(i.form)
<1> DEFINE into == {x \in found : Form(verdict[x], answer[x]) # "out"}
           item(m) == [mem |-> m, form |-> Form(verdict[m], answer[m]), verdict |-> verdict[m]]
<1>1. Permitted(verdict, answer) = {item(m) : m \in into}
  BY DEF Permitted
<1>2. ASSUME NEW m \in into
      PROVE  /\ item(m) \in Item
             /\ item(m).verdict = "CONSENT_REQUIRED" => answer[m] = Approval(item(m).form)
  <2>1. /\ m \in Memories /\ verdict[m] \in Actions
        /\ Form(verdict[m], answer[m]) \in {"plain", "redacted", "out"}
        /\ Form(verdict[m], answer[m]) # "out"
    BY DEF Form
  <2>2. verdict[m] = "CONSENT_REQUIRED" => answer[m] = Approval(Form(verdict[m], answer[m]))
    BY <2>1 DEF Form, Approval
  <2> QED BY <2>1, <2>2 DEF Item, Forms
<1>3. Unanswered(verdict, answer) \subseteq Memories
  BY DEF Unanswered
<1> QED BY <1>1, <1>2, <1>3

-----------------------------------------------------------------------------
LEMMA InitInv == Init => IInv
<1> SUFFICES ASSUME Init PROVE IInv
  OBVIOUS
<1>1. TypeOK
  <2>1. PICK c \in Configs : settings = <<c>>
    BY DEF Init
  <2>2. settings \in Seq(Configs) /\ settings # <<>> /\ Len(settings) = 1
    BY <2>1
  <2>3. engine \in Seq(Rule)
    BY LoadedType DEF Init
  <2> QED BY <2>2, <2>3, RulesAssumption DEF Init, TypeOK
<1>2. PrefsBacked
  BY DEF Init, PrefsBacked
<1>3. NotYetFilled /\ NotYetLogged
  BY DEF Init, NotYetFilled, NotYetLogged
<1>4. ConsentBacked /\ AnsweredIsAudited
  BY DEF Init, ConsentBacked, AnsweredIsAudited
<1> QED BY <1>1, <1>2, <1>3, <1>4 DEF IInv

(* A chat that is given its settings and rules. *)
LEMMA ArriveInv ==
    ASSUME IInv, NEW q \in Chats, NEW streamed \in BOOLEAN, Arrive(q, streamed)
    PROVE  IInv'
<1> USE DEF IInv, Arrive, Goto, world, consent, prompt
<1>1. TypeOK'
  <2>1. Len(settings) \in 1..Len(settings)
    BY DEF TypeOK
  <2> QED BY <2>1 DEF TypeOK
<1>2. PrefsBacked' /\ ConsentBacked'
  BY DEF PrefsBacked, ConsentBacked, Concerns
<1>3. NotYetFilled' /\ NotYetLogged' /\ AnsweredIsAudited'
  BY DEF TypeOK, NotYetFilled, NotYetLogged, AnsweredIsAudited
<1> QED BY <1>1, <1>2, <1>3

(* What a remembered answer goes back to. *)
LEMMA RememberedBacked ==
    ASSUME TypeOK, PrefsBacked, NEW p \in Providers, NEW m \in Memories,
           NEW answer \in Remembered(p, m), answer # Unset
    PROVE  \E i \in 1..Len(receipts) : receipts[i].decision = answer /\ Backs(receipts[i], p, m)
<1>1. p \in Keys /\ TagsOf[m] \subseteq Keys /\ TagsOf[m] \subseteq Tags
  BY GatewayAssumption DEF Keys
<1>2. p \notin Tags /\ p # Unset /\ Unset \notin Tags /\ Providers \cap Tags = {}
  BY GatewayAssumption
<1>3. \A i \in 1..Len(receipts) : receipts[i] \in Answer
  BY DEF TypeOK
<1>4. CASE prefs[p] # Unset
  <2>1. answer = prefs[p]
    BY <1>4 DEF Remembered
  <2>2. PICK i \in 1..Len(receipts) : receipts[i].decision = prefs[p] /\ Concerns(receipts[i], p)
    BY <1>1, <1>4 DEF PrefsBacked
  <2>3. receipts[i].forTag # p
    BY <1>2, <1>3 DEF Answer
  <2> QED BY <2>1, <2>2, <2>3 DEF Concerns, Backs
<1>5. CASE prefs[p] = Unset
  <2>1. PICK t \in TagsOf[m] : prefs[t] # Unset /\ answer = prefs[t]
    BY <1>5 DEF Remembered
  <2>2. PICK i \in 1..Len(receipts) : receipts[i].decision = prefs[t] /\ Concerns(receipts[i], t)
    BY <1>1, <2>1 DEF PrefsBacked
  <2>3. receipts[i].provider # t
    BY <1>1, <1>2, <1>3 DEF Answer
  <2> QED BY <2>1, <2>2, <2>3 DEF Concerns, Backs
<1> QED BY <1>4, <1>5

(* A prompt that is put together: filled from what the user let out, and     *)
(* posted to the provider it was judged for.                                *)
LEMMA LegacyInv ==
    ASSUME IInv, NEW q \in Chats, NEW found \in SUBSET Memories, NEW hour \in Hours,
           Legacy(q, found, hour)
    PROVE  IInv'
<1> DEFINE verdict == [m \in found |-> Verdict(rules[q], AsJudged(m), NowFor(q), hour)]
<1>1. TypeOK /\ pc[q] = "arrived" /\ NowFor(q) \in Providers
  BY NowForType DEF IInv, Legacy
<1>2. PICK answer \in [found -> Decisions \cup {Unset}] :
        /\ \A m \in found : answer[m] \in Remembered(NowFor(q), m)
        /\ Enrich(q, verdict, answer)
  BY DEF Legacy
<1>3. verdict \in [found -> Actions]
  BY <1>1, VerdictType, AsJudgedType DEF TypeOK
<1> HIDE DEF verdict
<1>4. /\ provider' = [provider EXCEPT ![q] = NowFor(q)]
      /\ endpoint' = [endpoint EXCEPT ![q] = NowFor(q)]
      /\ context' = [context EXCEPT ![q] = Permitted(verdict, answer)]
      /\ withheld' = [withheld EXCEPT ![q] = Unanswered(verdict, answer)]
      /\ pending' = pending \cup Requests(q, Unanswered(verdict, answer), NowFor(q))
      /\ pc' = [pc EXCEPT ![q] = IF stream[q] THEN "prepared" ELSE "posted"]
      /\ UNCHANGED <<world, receipts, prefs, auditLog, request>>
  BY <1>2 DEF Enrich, Post, Goto, Endpoint
<1>5. /\ Permitted(verdict, answer) \subseteq Item
      /\ Unanswered(verdict, answer) \subseteq Memories
      /\ \A i \in Permitted(verdict, answer) :
            i.mem \in found /\ (i.verdict = "CONSENT_REQUIRED" => answer[i.mem] = Approval(i.form))
  BY <1>3, PermittedType
<1>6. TypeOK'
  <2>1. pending' \subseteq Ask
    BY <1>1, <1>4, <1>5 DEF TypeOK, Requests, Ask
  <2>2. context' \in [Chats -> SUBSET Item] /\ withheld' \in [Chats -> SUBSET Memories]
    BY <1>1, <1>4, <1>5 DEF TypeOK
  <2> QED BY <1>1, <1>4, <2>1, <2>2 DEF TypeOK, world, request
<1>7. /\ PrefsBacked'
      /\ pc'[q] \in {"prepared", "posted"} /\ context'[q] = Permitted(verdict, answer)
      /\ provider'[q] = NowFor(q)
      /\ \A c \in Chats : c # q => /\ pc'[c] = pc[c] /\ context'[c] = context[c]
                                   /\ provider'[c] = provider[c] /\ endpoint'[c] = endpoint[c]
  BY <1>1, <1>4 DEF IInv, TypeOK, PrefsBacked, Concerns
<1>8. NotYetFilled' /\ NotYetLogged'
  BY <1>1, <1>4, <1>7 DEF IInv, NotYetFilled, NotYetLogged
<1>9. AnsweredIsAudited'
  BY <1>1, <1>4, <1>7 DEF IInv, AnsweredIsAudited
<1>10. ConsentBacked'
  <2> SUFFICES ASSUME NEW c \in Chats, NEW i \in context'[c], i.verdict = "CONSENT_REQUIRED"
               PROVE  \E k \in 1..Len(receipts) :
                         receipts[k].decision = Approval(i.form)
                         /\ Backs(receipts[k], provider'[c], i.mem)
    BY <1>4 DEF ConsentBacked, Backs
  <2>1. CASE c # q
    BY <2>1, <1>7 DEF IInv, ConsentBacked, Backs
  <2>2. CASE c = q
    <3>1. /\ i.mem \in found /\ answer[i.mem] = Approval(i.form)
          /\ answer[i.mem] \in Remembered(NowFor(q), i.mem)
      BY <2>2, <1>2, <1>5, <1>7
    <3>2. Approval(i.form) # Unset
      BY GatewayAssumption DEF Approval, Decisions
    <3> QED BY <2>2, <3>1, <3>2, <1>1, <1>7, RememberedBacked DEF IInv
  <2> QED BY <2>1, <2>2
<1> QED BY <1>6, <1>7, <1>8, <1>9, <1>10 DEF IInv

LEMMA SwarmEnrichInv ==
    ASSUME IInv, NEW q \in Chats, SwarmEnrich(q)
    PROVE  IInv'
<1>1. TypeOK /\ pc[q] = "arrived" /\ NowFor(q) \in Providers
  BY NowForType DEF IInv, SwarmEnrich
<1>2. /\ provider' = [provider EXCEPT ![q] = NowFor(q)]
      /\ endpoint' = [endpoint EXCEPT ![q] = NowFor(q)]
      /\ pc' = [pc EXCEPT ![q] = IF stream[q] THEN "prepared" ELSE "posted"]
      /\ UNCHANGED <<world, consent, auditLog, request, context, withheld>>
  BY DEF SwarmEnrich, Post, Goto, Endpoint
<1>3. TypeOK'
  BY <1>1, <1>2 DEF TypeOK, world, consent, request
<1>4. /\ pc'[q] \in {"prepared", "posted"} /\ context[q] = {}
      /\ \A c \in Chats : c # q => pc'[c] = pc[c] /\ provider'[c] = provider[c]
                                   /\ endpoint'[c] = endpoint[c]
  BY <1>1, <1>2 DEF IInv, TypeOK, NotYetFilled
<1>5. PrefsBacked' /\ ConsentBacked'
  BY <1>2, <1>4 DEF IInv, PrefsBacked, ConsentBacked, Concerns, consent
<1>6. NotYetFilled' /\ NotYetLogged' /\ AnsweredIsAudited'
  BY <1>1, <1>2, <1>4 DEF IInv, NotYetFilled, NotYetLogged, AnsweredIsAudited
<1> QED BY <1>3, <1>5, <1>6 DEF IInv

(* Steps on the way of a chat that change neither its prompt nor the log.    *)
LEMMA OnTheWayInv ==
    ASSUME IInv, NEW q \in Chats,
           StreamStarts(q) \/ StreamAbandoned(q) \/ Refused(q) \/ Writeback(q)
    PROVE  IInv'
<1>1. TypeOK /\ endpoint[q] \in Providers
  BY DEF IInv, TypeOK
<1>2. /\ UNCHANGED <<world, receipts, prefs, auditLog, request, prompt>>
      /\ \/ /\ pending' = pending
            /\ pc[q] \in {"prepared", "posted"}
            /\ \/ pc' = [pc EXCEPT ![q] = "posted"]
               \/ pc' = [pc EXCEPT ![q] = "gone"]
               \/ pc' = [pc EXCEPT ![q] = "failed"]
         \/ /\ pending' = pending \cup Requests(q, {Candidate}, endpoint[q])
            /\ pc[q] = "done" /\ pc' = [pc EXCEPT ![q] = "settled"]
  BY DEF StreamStarts, StreamAbandoned, Refused, Writeback, Goto, consent
<1>3. TypeOK'
  <2>1. pending' \subseteq Ask
    BY <1>1, <1>2 DEF TypeOK, Requests, Ask
  <2> QED BY <1>1, <1>2, <2>1 DEF TypeOK, world, request, prompt
<1>4. PrefsBacked' /\ ConsentBacked'
  BY <1>2 DEF IInv, PrefsBacked, ConsentBacked, Concerns, prompt
<1>5. NotYetFilled' /\ NotYetLogged'
  BY <1>1, <1>2 DEF IInv, TypeOK, NotYetFilled, NotYetLogged, prompt
<1>6. AnsweredIsAudited'
  BY <1>1, <1>2 DEF IInv, TypeOK, AnsweredIsAudited, prompt
<1> QED BY <1>3, <1>4, <1>5, <1>6 DEF IInv

(* The answer, and the one entry about it. *)
LEMMA AnsweredInv ==
    ASSUME IInv, NEW q \in Chats, Answered(q)
    PROVE  IInv'
<1>1. /\ TypeOK /\ pc[q] = "posted" /\ pc' = [pc EXCEPT ![q] = "done"]
      /\ auditLog' = auditLog \cup {LogEntry(q)}
      /\ UNCHANGED <<world, consent, request, prompt>>
  BY DEF IInv, Answered, Goto
<1>2. /\ LogEntry(q).chat = q
      /\ LogEntry(q) \in [chat : Chats, to : Providers, mems : SUBSET Memories]
  <2>1. {i.mem : i \in context[q]} \subseteq Memories /\ endpoint[q] \in Providers
    BY <1>1 DEF TypeOK, Item
  <2> QED BY <2>1 DEF LogEntry
<1>3. TypeOK'
  BY <1>1, <1>2 DEF TypeOK, world, consent, request, prompt
<1>4. PrefsBacked' /\ ConsentBacked'
  BY <1>1 DEF IInv, PrefsBacked, ConsentBacked, Concerns, consent, prompt
<1>5. pc'[q] = "done" /\ \A c \in Chats : c # q => pc'[c] = pc[c]
  BY <1>1 DEF TypeOK
<1>6. NotYetFilled' /\ NotYetLogged'
  BY <1>1, <1>2, <1>5 DEF IInv, NotYetFilled, NotYetLogged, prompt
<1>7. AnsweredIsAudited'
  <2> SUFFICES ASSUME NEW c \in Chats, pc'[c] \in {"done", "settled"}
               PROVE  {e \in auditLog' : e.chat = c} = {LogEntry(c)}
    BY <1>1 DEF AnsweredIsAudited, LogEntry, prompt
  <2>1. CASE c = q
    <3>1. \A e \in auditLog : e.chat # q
      BY <1>1 DEF IInv, NotYetLogged
    <3> QED BY <2>1, <3>1, <1>1, <1>2
  <2>2. CASE c # q
    <3>1. {e \in auditLog : e.chat = c} = {LogEntry(c)}
      BY <2>2, <1>5 DEF IInv, AnsweredIsAudited, LogEntry
    <3> QED BY <2>2, <3>1, <1>1, <1>2
  <2> QED BY <2>1, <2>2
<1> QED BY <1>3, <1>4, <1>6, <1>7 DEF IInv

(* An answer of the user takes nothing from what was there, and is what a    *)
(* preference it sets goes back to.                                         *)
LEMMA RespondInv ==
    ASSUME IInv, NEW ask \in pending, NEW d \in Decisions, NEW p \in BOOLEAN,
           NEW g \in Tags \cup {Unset}, Respond(ask, d, p, g)
    PROVE  IInv'
<1> DEFINE a == [mem |-> ask.mem, provider |-> ask.provider, decision |-> d,
                 forProvider |-> p, forTag |-> g]
           n == Len(receipts)
<1>1. /\ TypeOK /\ pending' = pending \ {ask} /\ receipts' = Append(receipts, a)
      /\ prefs' = [k \in Keys |-> IF Concerns(a, k) THEN a.decision ELSE prefs[k]]
      /\ UNCHANGED <<world, auditLog, pc, request, prompt>>
  BY DEF IInv, Respond, Remember
<1>2. a \in Answer /\ a.decision = d
  BY <1>1 DEF TypeOK, Ask, Answer
<1> HIDE DEF a
<1>3. /\ receipts \in Seq(Answer) /\ n \in Nat
      /\ receipts' \in Seq(Answer) /\ Len(receipts') = n + 1 /\ receipts'[n + 1] = a
      /\ \A i \in 1..n : receipts'[i] = receipts[i] /\ i \in 1..n + 1
  BY <1>1, <1>2 DEF TypeOK
<1>4. TypeOK'
  <2>1. prefs' \in [Keys -> Decisions \cup {Unset}]
    BY <1>1, <1>2 DEF TypeOK
  <2> QED BY <1>1, <1>3, <2>1 DEF TypeOK, world, request, prompt
<1>5. PrefsBacked'
  <2> SUFFICES ASSUME NEW k \in Keys, prefs'[k] # Unset
               PROVE  \E i \in 1..n + 1 : receipts'[i].decision = prefs'[k]
                                          /\ Concerns(receipts'[i], k)
    BY <1>3 DEF PrefsBacked, Concerns
  <2>1. CASE Concerns(a, k)
    BY <2>1, <1>1, <1>2, <1>3
  <2>2. CASE ~Concerns(a, k)
    <3>1. prefs'[k] = prefs[k]
      BY <2>2, <1>1
    <3>2. PICK i \in 1..n : receipts[i].decision = prefs[k] /\ Concerns(receipts[i], k)
      BY <3>1 DEF IInv, PrefsBacked
    <3> QED BY <3>1, <3>2, <1>3
  <2> QED BY <2>1, <2>2
<1>6. ConsentBacked'
  <2> SUFFICES ASSUME NEW q \in Chats, NEW i \in context[q], i.verdict = "CONSENT_REQUIRED"
               PROVE  \E k \in 1..n + 1 : receipts'[k].decision = Approval(i.form)
                                          /\ Backs(receipts'[k], provider[q], i.mem)
    BY <1>1, <1>3 DEF ConsentBacked, Backs, prompt
  <2>1. PICK k \in 1..n : receipts[k].decision = Approval(i.form)
                          /\ Backs(receipts[k], provider[q], i.mem)
    BY DEF IInv, ConsentBacked, Backs
  <2> QED BY <2>1, <1>3
<1>7. NotYetFilled' /\ NotYetLogged' /\ AnsweredIsAudited'
  BY <1>1 DEF IInv, NotYetFilled, NotYetLogged, AnsweredIsAudited, prompt
<1> QED BY <1>4, <1>5, <1>6, <1>7 DEF IInv

(* Changes of the configuration and of the rules. *)
LEMMA ChangesInv ==
    ASSUME IInv,
           \/ \E config \in Configs : PutConfig(config)
           \/ \E files \in RuleFiles : PutPolicies(files)
           \/ UNCHANGED vars
    PROVE  IInv'
<1>1. TypeOK /\ UNCHANGED <<swarm, consent, auditLog, pc, request, prompt>>
  BY DEF IInv, PutConfig, PutPolicies, vars, world
<1>2. TypeOK'
  <2>1. CASE \E config \in Configs : PutConfig(config)
    <3>1. PICK config \in Configs :
              settings' = Append([settings EXCEPT ![Len(settings)] = config], config)
      BY <2>1 DEF PutConfig
    <3>2. settings' \in Seq(Configs) /\ Len(settings') = Len(settings) + 1
          /\ Len(settings) \in Nat /\ engine' = engine
      <4>1. settings \in Seq(Configs) /\ Len(settings) \in 1..Len(settings) /\ Len(settings) \in Nat
        BY <1>1 DEF TypeOK
      <4>2. /\ [settings EXCEPT ![Len(settings)] = config] \in Seq(Configs)
            /\ Len([settings EXCEPT ![Len(settings)] = config]) = Len(settings)
        BY <4>1, ExceptSeq
      <4>3. settings' \in Seq(Configs) /\ Len(settings') = Len(settings) + 1
        BY <4>1, <4>2, <3>1
      <4> QED BY <2>1, <4>1, <4>3 DEF PutConfig
    <3>3. view' \in [Chats -> 1..Len(settings')]
      BY <1>1, <3>2 DEF TypeOK, request
    <3>4. settings' # <<>>
      BY <3>2, <1>1 DEF TypeOK
    <3> QED BY <1>1, <3>2, <3>3, <3>4, <2>1 DEF TypeOK, PutConfig, consent, request, prompt
  <2>2. CASE \E files \in RuleFiles : PutPolicies(files)
    BY <1>1, <2>2, LoadedType DEF TypeOK, PutPolicies, consent, request, prompt
  <2>3. CASE UNCHANGED vars
    BY <1>1, <2>3 DEF TypeOK, vars, world, consent, request, prompt
  <2> QED BY <2>1, <2>2, <2>3
<1>3. PrefsBacked' /\ ConsentBacked'
  BY <1>1 DEF IInv, PrefsBacked, ConsentBacked, Concerns, consent, prompt
<1>4. NotYetFilled' /\ NotYetLogged' /\ AnsweredIsAudited'
  BY <1>1 DEF IInv, NotYetFilled, NotYetLogged, AnsweredIsAudited, prompt
<1> QED BY <1>2, <1>3, <1>4 DEF IInv

LEMMA NextInv == IInv /\ [Next]_vars => IInv'
<1> SUFFICES ASSUME IInv, [Next]_vars PROVE IInv'
  OBVIOUS
<1>1. CASE \E q \in Chats : Chat(q)
  BY <1>1, ArriveInv, LegacyInv, SwarmEnrichInv, OnTheWayInv, AnsweredInv DEF Chat
<1>2. CASE \E ask \in pending, d \in Decisions, p \in BOOLEAN, g \in Tags \cup {Unset} :
              Respond(ask, d, p, g)
  BY <1>2, RespondInv
<1>3. CASE \/ \E config \in Configs : PutConfig(config)
           \/ \E files \in RuleFiles : PutPolicies(files)
           \/ UNCHANGED vars
  BY <1>3, ChangesInv
<1> QED BY <1>1, <1>2, <1>3 DEF Next

(* Every variable of the gateway keeps its type, for any chats, memories,    *)
(* configurations and rules.                                                *)
THEOREM TypeCorrect == Spec => []TypeOK
<1>1. IInv => TypeOK
  BY DEF IInv
<1> QED BY <1>1, InitInv, NextInv, PTL DEF Spec

(* A memory behind the consent gate goes out only on an answer of the user,  *)
(* through any number of chats and answers (routes/proxy.py, firewall.py).  *)
THEOREM ConsentIsBacked == Spec => []ConsentBacked
<1>1. IInv => ConsentBacked
  BY DEF IInv
<1> QED BY <1>1, InitInv, NextInv, PTL DEF Spec

(* Every chat that was answered is logged once, with where it went and what  *)
(* it took along, through any changes of the configuration.                 *)
THEOREM EveryAnswerAudited == Spec => []AnsweredIsAudited
<1>1. IInv => AnsweredIsAudited
  BY DEF IInv
<1> QED BY <1>1, InitInv, NextInv, PTL DEF Spec

-----------------------------------------------------------------------------
(* The latest answer about a provider is the one that is remembered.        *)
LatestKept ==
    \A p \in Providers : \A k \in 1..Len(receipts) :
        LatestAbout(k, p) => prefs[p] = receipts[k].decision

LInv == IInv /\ LatestKept

LEMMA RespondKeepsLatest ==
    ASSUME LInv, NEW ask \in pending, NEW d \in Decisions, NEW f \in BOOLEAN,
           NEW g \in Tags \cup {Unset}, Respond(ask, d, f, g)
    PROVE  LatestKept'
<1> DEFINE a == [mem |-> ask.mem, provider |-> ask.provider, decision |-> d,
                 forProvider |-> f, forTag |-> g]
           n == Len(receipts)
<1>1. /\ TypeOK /\ receipts' = Append(receipts, a)
      /\ prefs' = [k \in Keys |-> IF Concerns(a, k) THEN a.decision ELSE prefs[k]]
  BY DEF LInv, IInv, Respond, Remember
<1>2. a \in Answer /\ a.decision = d /\ a.forTag \in Tags \cup {Unset}
  BY <1>1 DEF TypeOK, Ask, Answer
<1> HIDE DEF a
<1>3. /\ receipts \in Seq(Answer) /\ n \in Nat
      /\ Len(receipts') = n + 1 /\ receipts'[n + 1] = a
      /\ \A i \in 1..n : receipts'[i] = receipts[i]
  BY <1>1, <1>2 DEF TypeOK
<1> SUFFICES ASSUME NEW p \in Providers, NEW k \in 1..n + 1, About(receipts'[k], p),
                    \A j \in k+1..n + 1 : ~About(receipts'[j], p)
             PROVE  prefs'[p] = receipts'[k].decision
  BY <1>3 DEF LatestKept, LatestAbout, About
<1>4. p \in Keys /\ p \notin Tags \cup {Unset}
  BY GatewayAssumption DEF Keys
<1>5. Concerns(a, p) <=> About(a, p)
  BY <1>2, <1>4 DEF Concerns, About
<1>6. CASE k = n + 1
  BY <1>6, <1>1, <1>3, <1>4, <1>5
<1>7. CASE k # n + 1
  <2>1. k \in 1..n /\ n + 1 \in k+1..n + 1
    BY <1>3, <1>7
  <2>2. ~About(a, p)
    BY <2>1, <1>3
  <2>3. \A j \in k+1..n : j \in 1..n /\ j \in k+1..n + 1
    BY <2>1, <1>3
  <2>4. LatestAbout(k, p)
    BY <2>1, <2>3, <1>3 DEF LatestAbout
  <2>5. prefs[p] = receipts[k].decision
    BY <2>1, <2>4 DEF LInv, LatestKept
  <2> QED BY <2>1, <2>2, <2>5, <1>1, <1>3, <1>4, <1>5
<1> QED BY <1>6, <1>7

LEMMA NextKeepsLatest == LInv /\ [Next]_vars => LInv'
<1> SUFFICES ASSUME LInv, [Next]_vars PROVE LInv'
  OBVIOUS
<1>1. IInv'
  BY NextInv DEF LInv
<1>2. CASE UNCHANGED <<receipts, prefs>>
  BY <1>1, <1>2 DEF LInv, LatestKept, LatestAbout, About
<1>3. CASE \E ask \in pending, d \in Decisions, f \in BOOLEAN, g \in Tags \cup {Unset} :
              Respond(ask, d, f, g)
  BY <1>1, <1>3, RespondKeepsLatest DEF LInv
<1>4. CASE \E q \in Chats : Chat(q)
  <2>1. PICK q \in Chats : Chat(q)
    BY <1>4
  <2>2. ASSUME NEW found \in SUBSET Memories, NEW hour \in Hours, Legacy(q, found, hour)
        PROVE  UNCHANGED <<receipts, prefs>>
    BY <2>2 DEF Legacy, Enrich
  <2>3. UNCHANGED <<receipts, prefs>>
    BY <2>1, <2>2 DEF Chat, Arrive, SwarmEnrich, StreamStarts, StreamAbandoned, Answered,
                      Writeback, Refused, consent
  <2> QED BY <2>3, <1>2
<1>5. CASE \/ \E config \in Configs : PutConfig(config)
           \/ \E files \in RuleFiles : PutPolicies(files)
           \/ UNCHANGED vars
  BY <1>5, <1>2 DEF PutConfig, PutPolicies, vars, consent
<1> QED BY <1>3, <1>4, <1>5 DEF Next

(* What is put into a prompt follows the answer remembered last.            *)
LEMMA LegacyFollows ==
    ASSUME LInv, NEW q \in Chats, NEW found \in SUBSET Memories, NEW hour \in Hours,
           Legacy(q, found, hour), NEW c \in Chats, NEW i \in context'[c] \ context[c],
           i.verdict = "CONSENT_REQUIRED", NEW k \in 1..Len(receipts),
           LatestAbout(k, provider'[c])
    PROVE  receipts[k].decision = Approval(i.form)
<1> DEFINE verdict == [m \in found |-> Verdict(rules[q], AsJudged(m), NowFor(q), hour)]
<1>1. TypeOK /\ NowFor(q) \in Providers /\ LatestKept
  BY NowForType DEF LInv, IInv
<1>2. PICK answer \in [found -> Decisions \cup {Unset}] :
        /\ \A m \in found : answer[m] \in Remembered(NowFor(q), m)
        /\ Enrich(q, verdict, answer)
  BY DEF Legacy
<1>3. verdict \in [found -> Actions]
  BY <1>1, VerdictType, AsJudgedType DEF TypeOK
<1> HIDE DEF verdict
<1>4. /\ provider' = [provider EXCEPT ![q] = NowFor(q)]
      /\ context' = [context EXCEPT ![q] = Permitted(verdict, answer)]
  BY <1>2 DEF Enrich
<1>5. c = q /\ provider'[q] = NowFor(q) /\ i \in Permitted(verdict, answer)
  BY <1>1, <1>4 DEF TypeOK
<1>6. i.mem \in found /\ answer[i.mem] = Approval(i.form)
  <2>1. \A x \in Permitted(verdict, answer) :
           /\ x.mem \in found
           /\ x.verdict = "CONSENT_REQUIRED" => answer[x.mem] = Approval(x.form)
    BY <1>3, PermittedType
  <2> QED BY <1>5, <2>1
<1>7. prefs[NowFor(q)] = receipts[k].decision
  BY <1>1, <1>5 DEF LatestKept
<1>8. receipts[k].decision # Unset
  <2>1. receipts[k] \in Answer
    BY <1>1 DEF TypeOK
  <2> QED BY <2>1, GatewayAssumption DEF Answer
<1>9. answer[i.mem] = prefs[NowFor(q)]
  BY <1>2, <1>6, <1>7, <1>8 DEF Remembered
<1> QED BY <1>6, <1>7, <1>9

(* The answer the user gave last about a provider decides what the next chat *)
(* with it is told, through any chats and answers (storage.py:582,         *)
(* INSERT OR REPLACE INTO consent_preferences).                             *)
THEOREM LatestAnswerDecides == Spec => LatestAnswerFollowed
<1>1. Init => LInv
  BY InitInv DEF LInv, LatestKept, Init
<1>2. LInv /\ [Next]_vars => [\A q \in Chats : FollowsLatest(q)]_vars
  <2> SUFFICES ASSUME LInv, [Next]_vars, NEW c \in Chats PROVE FollowsLatest(c)
    OBVIOUS
  <2>1. CASE \E q \in Chats : Chat(q)
    <3>1. PICK q \in Chats : Chat(q)
      BY <2>1
    <3>2. CASE \E found \in SUBSET Memories, hour \in Hours : Legacy(q, found, hour)
      BY <3>2, LegacyFollows DEF FollowsLatest
    <3>3. CASE context' = context
      BY <3>3 DEF FollowsLatest
    <3> QED BY <3>1, <3>2, <3>3 DEF Chat, Arrive, SwarmEnrich, StreamStarts, StreamAbandoned,
                                    Answered, Writeback, Refused, prompt
  <2>2. CASE context' = context
    BY <2>2 DEF FollowsLatest
  <2> QED BY <2>1, <2>2 DEF Next, Respond, PutConfig, PutPolicies, vars, prompt
<1> QED BY <1>1, <1>2, NextKeepsLatest, PTL DEF Spec, LatestAnswerFollowed

-----------------------------------------------------------------------------
(* What stays home, as long as every rules file has the shipped block.      *)
BlockKept(files) == files = <<>> \/ \E k \in 1..Len(files) : files[k] = BlockLevel2

Guards(rs) ==
    \E b \in 1..Len(rs) : \E n \in 0..MaxPriority + 1 :
        n >= BlockLevel2.priority /\ rs[b] = [BlockLevel2 EXCEPT !.priority = n]

GivenGuards == Guards(engine) /\ \A q \in Chats : pc[q] # "new" => Guards(rules[q])

LetOut(rs, verdict, m, p) ==
    (p # Local /\ TextLevel[m] >= 2 /\ verdict \in {"PERMIT", "REDACT"}) =>
        \E k \in 1..Len(rs) :
            /\ rs[k].enabled /\ rs[k].action = verdict
            /\ rs[k].priority >= BlockLevel2.priority
            /\ ConditionsMatch(rs[k], AsJudged(m), p)

Held ==
    \A q \in Chats : \A i \in context[q] : LetOut(rules[q], i.verdict, i.mem, endpoint[q])

GInv == IInv /\ GivenGuards /\ Held

LEMMA LoadedGuards ==
    ASSUME NEW files \in RuleFiles, BlockKept(files)
    PROVE  Guards(LoadPolicies(files))
<1>1. files \in Seq(FileRule)
  BY GatewayAssumption
<1>2. ASSUME NEW rs \in Seq(FileRule), NEW b \in 1..Len(rs), rs[b] = BlockLevel2
      PROVE  Guards(Normalised(rs))
  <2>1. PICK n \in 0..MaxPriority + 1 :
            n >= BlockLevel2.priority /\ Normalised(rs)[b] = [BlockLevel2 EXCEPT !.priority = n]
    BY <1>2, NormalisedRaises
  <2> QED BY <2>1, NormalisedRaises DEF Guards
<1>3. CASE files = <<>>
  <2>1. LoadPolicies(files) = Normalised(DefaultRules) /\ 3 \in 1..Len(DefaultRules)
        /\ DefaultRules[3] = BlockLevel2
    BY <1>3, DefaultsByName DEF LoadPolicies
  <2> QED BY <2>1, <1>2, DefaultsAreRules
<1>4. CASE files # <<>>
  BY <1>1, <1>2, <1>4 DEF BlockKept, LoadPolicies
<1> QED BY <1>3, <1>4

(* What passes the block does so under a rule of at least its rank.         *)
LEMMA GuardedLetOut ==
    ASSUME NEW rs \in Seq(Rule), Guards(rs), NEW m \in Memories, NEW p, NEW h \in Hours
    PROVE  LetOut(rs, Verdict(rs, AsJudged(m), p, h), m, p)
<1> DEFINE verdict == Verdict(rs, AsJudged(m), p, h)
<1> SUFFICES ASSUME p # Local, TextLevel[m] >= 2, verdict \in {"PERMIT", "REDACT"}
             PROVE  \E k \in 1..Len(rs) :
                       /\ rs[k].enabled /\ rs[k].action = verdict
                       /\ rs[k].priority >= BlockLevel2.priority
                       /\ ConditionsMatch(rs[k], AsJudged(m), p)
  BY DEF LetOut
<1>1. PICK b \in 1..Len(rs) : \E n \in 0..MaxPriority + 1 :
          n >= BlockLevel2.priority /\ rs[b] = [BlockLevel2 EXCEPT !.priority = n]
  BY DEF Guards
<1>2. PICK n \in 0..MaxPriority + 1 :
          n >= BlockLevel2.priority /\ rs[b] = [BlockLevel2 EXCEPT !.priority = n]
  BY <1>1
<1>3. /\ rs[b].enabled /\ rs[b].action = "BLOCK" /\ rs[b].priority = n
      /\ rs[b].min = 2 /\ rs[b].max = 3 /\ rs[b].include = {} /\ rs[b].exclude = {}
      /\ rs[b].providerIs = {} /\ rs[b].providerNot = {Local}
      /\ rs[b].sourceIs = {} /\ rs[b].sourceNot = {} /\ rs[b].start = 0 /\ rs[b].end = 24
  BY <1>2 DEF BlockLevel2, Scoped
<1>4. AsJudged(m).level \in 2..3 /\ h \in 0..23
  BY GatewayAssumption DEF AsJudged, Levels
<1>5. ConditionsMatch(rs[b], AsJudged(m), p)
  BY <1>3, <1>4 DEF ConditionsMatch
<1>6. b \in Hits(rs, AsJudged(m), p, h)
  <2>1. rs[b].start <= h /\ h < rs[b].end
    BY <1>3, <1>4
  <2> QED BY <1>3, <1>5, <2>1 DEF Hits, Matches
<1>7. PICK k \in Hits(rs, AsJudged(m), p, h) :
          rs[k].action = verdict /\ rs[k].priority >= rs[b].priority
  <2>1. verdict # "BLOCK"
    OBVIOUS
  <2> QED BY <1>3, <1>6, <2>1, BlockHolds
<1>8. /\ k \in 1..Len(rs) /\ rs[k].enabled
      /\ ConditionsMatch(rs[k], AsJudged(m), p)
  BY DEF Hits, Matches
<1>9. rs[k].priority >= BlockLevel2.priority
  <2>1. rs[k] \in Rule
    BY <1>8
  <2>2. rs[k].priority \in 0..MaxPriority + 1
    BY <2>1 DEF Rule
  <2>3. BlockLevel2.priority = 80
    BY DEF BlockLevel2, Scoped
  <2>4. MaxPriority \in Nat
    BY DEF MaxPriority
  <2>5. \A x, y \in 0..MaxPriority + 1 : y >= 80 /\ x >= y => x >= 80
    BY <2>4
  <2> QED BY <1>2, <1>3, <1>7, <2>2, <2>3, <2>5
<1> QED BY <1>7, <1>8, <1>9

LEMMA InitGuarded ==
    ASSUME \A files \in RuleFiles : BlockKept(files), Init
    PROVE  GInv
<1>1. Guards(engine)
  BY LoadedGuards DEF Init
<1>2. GivenGuards /\ Held
  BY <1>1 DEF Init, GivenGuards, Held
<1> QED BY <1>2, InitInv DEF GInv

LEMMA NextGuarded ==
    ASSUME \A files \in RuleFiles : BlockKept(files), GInv, [Next]_vars
    PROVE  GInv'
<1>1. IInv /\ IInv' /\ TypeOK /\ GivenGuards /\ Held
  BY NextInv DEF GInv, IInv
<1>2. ASSUME NEW q \in Chats, NEW streamed \in BOOLEAN, Arrive(q, streamed)
      PROVE  GivenGuards' /\ Held'
  <2>1. /\ rules' = [rules EXCEPT ![q] = engine] /\ pc[q] = "new"
        /\ pc' = [pc EXCEPT ![q] = "arrived"]
        /\ engine' = engine /\ context' = context /\ endpoint' = endpoint
    BY <1>2 DEF Arrive, Goto, world, prompt
  <2>2. context[q] = {}
    BY <1>1, <2>1 DEF IInv, NotYetFilled
  <2>3. rules'[q] = engine /\ \A c \in Chats : c # q => rules'[c] = rules[c] /\ pc'[c] = pc[c]
    BY <1>1, <2>1 DEF TypeOK
  <2>4. GivenGuards'
    <3>1. Guards(rules'[q])
      BY <1>1, <2>3 DEF GivenGuards
    <3>2. \A c \in Chats : c # q /\ pc'[c] # "new" => Guards(rules'[c])
      BY <1>1, <2>3 DEF GivenGuards
    <3>3. \A c \in Chats : pc'[c] # "new" => Guards(rules'[c])
      BY <3>1, <3>2
    <3>4. Guards(engine')
      BY <1>1, <2>1 DEF GivenGuards
    <3> QED BY <3>3, <3>4 DEF GivenGuards, Guards
  <2>5. Held'
    BY <1>1, <2>1, <2>2, <2>3 DEF Held, LetOut
  <2> QED BY <2>4, <2>5
<1>3. ASSUME NEW q \in Chats, NEW found \in SUBSET Memories, NEW hour \in Hours,
             Legacy(q, found, hour)
      PROVE  GivenGuards' /\ Held'
  <2> DEFINE verdict == [m \in found |-> Verdict(rules[q], AsJudged(m), NowFor(q), hour)]
  <2>1. pc[q] = "arrived"
    BY <1>3 DEF Legacy
  <2>2. PICK answer \in [found -> Decisions \cup {Unset}] : Enrich(q, verdict, answer)
    BY <1>3 DEF Legacy
  <2>3. verdict \in [found -> Actions]
    BY <1>1, VerdictType, AsJudgedType DEF TypeOK
  <2>4. Guards(rules[q]) /\ rules[q] \in Seq(Rule)
    BY <1>1, <2>1 DEF GivenGuards, TypeOK
  <2>5. \A m \in found : LetOut(rules[q], verdict[m], m, NowFor(q))
    BY <2>4, GuardedLetOut
  <2> HIDE DEF verdict
  <2>6. /\ engine' = engine /\ rules' = rules
        /\ endpoint' = [endpoint EXCEPT ![q] = NowFor(q)]
        /\ context' = [context EXCEPT ![q] = Permitted(verdict, answer)]
        /\ pc' = [pc EXCEPT ![q] = IF stream[q] THEN "prepared" ELSE "posted"]
    BY <2>2 DEF Enrich, Post, Goto, Endpoint, world, request
  <2>7. \A i \in Permitted(verdict, answer) : i.mem \in found /\ i.verdict = verdict[i.mem]
    BY <2>3, PermittedType
  <2>8. /\ endpoint'[q] = NowFor(q) /\ context'[q] = Permitted(verdict, answer)
        /\ \A c \in Chats : c # q => endpoint'[c] = endpoint[c] /\ context'[c] = context[c]
                                     /\ pc'[c] = pc[c]
    BY <1>1, <2>6 DEF TypeOK
  <2>9. GivenGuards'
    <3>1. \A c \in Chats : pc'[c] # "new" => pc[c] # "new"
      BY <2>1, <2>8
    <3> QED BY <1>1, <2>6, <3>1 DEF GivenGuards, Guards
  <2>10. Held'
    <3> SUFFICES ASSUME NEW c \in Chats, NEW i \in context'[c]
                 PROVE  LetOut(rules[c], i.verdict, i.mem, endpoint'[c])
      BY <2>6 DEF Held, LetOut
    <3>1. CASE c = q
      BY <3>1, <2>5, <2>7, <2>8
    <3>2. CASE c # q
      BY <3>2, <1>1, <2>8 DEF Held
    <3> QED BY <3>1, <3>2
  <2> QED BY <2>9, <2>10
<1>4. ASSUME NEW q \in Chats, SwarmEnrich(q)
      PROVE  GivenGuards' /\ Held'
  <2>1. /\ engine' = engine /\ rules' = rules /\ context' = context /\ pc[q] = "arrived"
        /\ endpoint' = [endpoint EXCEPT ![q] = NowFor(q)]
        /\ pc' = [pc EXCEPT ![q] = IF stream[q] THEN "prepared" ELSE "posted"]
    BY <1>4 DEF SwarmEnrich, Post, Goto, Endpoint, world, request
  <2>2. context[q] = {} /\ \A c \in Chats : c # q => endpoint'[c] = endpoint[c] /\ pc'[c] = pc[c]
    BY <1>1, <2>1 DEF IInv, NotYetFilled, TypeOK
  <2>3. GivenGuards'
    <3>1. \A c \in Chats : pc'[c] # "new" => pc[c] # "new"
      BY <2>1, <2>2
    <3> QED BY <1>1, <2>1, <3>1 DEF GivenGuards, Guards
  <2>4. Held'
    <3>1. \A c \in Chats : \A i \in context[c] : endpoint'[c] = endpoint[c]
      BY <2>2
    <3> QED BY <1>1, <2>1, <3>1 DEF Held, LetOut
  <2> QED BY <2>3, <2>4
<1>5. ASSUME UNCHANGED <<engine, rules, context, endpoint>>,
             \A q \in Chats : pc'[q] # "new" => pc[q] # "new"
      PROVE  GivenGuards' /\ Held'
  BY <1>1, <1>5 DEF GivenGuards, Guards, Held, LetOut
<1>6. ASSUME NEW q \in Chats, \/ StreamStarts(q) \/ StreamAbandoned(q) \/ Answered(q)
                              \/ Writeback(q) \/ Refused(q)
      PROVE  GivenGuards' /\ Held'
  <2>1. UNCHANGED <<engine, rules, context, endpoint>>
    BY <1>6 DEF StreamStarts, StreamAbandoned, Answered, Writeback, Refused, world, request,
                prompt
  <2>2. pc[q] # "new" /\ \E to : pc' = [pc EXCEPT ![q] = to]
    BY <1>6 DEF StreamStarts, StreamAbandoned, Answered, Writeback, Refused, Goto
  <2>3. \A c \in Chats : pc'[c] # "new" => pc[c] # "new"
    BY <1>1, <2>2 DEF TypeOK
  <2> QED BY <2>1, <2>3, <1>5
<1>7. ASSUME NEW files \in RuleFiles, PutPolicies(files)
      PROVE  GivenGuards' /\ Held'
  <2>1. Guards(LoadPolicies(files))
    BY LoadedGuards
  <2>2. engine' = LoadPolicies(files) /\ UNCHANGED <<rules, context, endpoint, pc>>
    BY <1>7 DEF PutPolicies, request, prompt
  <2> QED BY <1>1, <2>1, <2>2 DEF GivenGuards, Guards, Held, LetOut
<1>8. ASSUME \/ \E ask \in pending, d \in Decisions, p \in BOOLEAN, g \in Tags \cup {Unset} :
                   Respond(ask, d, p, g)
             \/ \E config \in Configs : PutConfig(config)
             \/ UNCHANGED vars
      PROVE  GivenGuards' /\ Held'
  <2>1. UNCHANGED <<engine, rules, context, endpoint, pc>>
    BY <1>8 DEF Respond, PutConfig, vars, world, request, prompt
  <2> QED BY <2>1, <1>5
<1> QED BY <1>1, <1>2, <1>3, <1>4, <1>6, <1>7, <1>8 DEF Next, Chat, GInv

(* Without an answer nothing personal goes to the cloud but under a rule of  *)
(* at least the rank of the shipped block, whatever the user's own rules     *)
(* are, as long as that block is in every rules file (policies.py:240).     *)
THEOREM PersonalStaysHome ==
    ASSUME \A files \in RuleFiles : BlockKept(files)
    PROVE  Spec => []GuardedStaysHome
<1>1. Init => GInv
  BY InitGuarded
<1>2. GInv /\ [Next]_vars => GInv'
  BY NextGuarded
<1>3. GInv => GuardedStaysHome
  BY DEF GInv, Held, LetOut, GuardedStaysHome, Disclosed
<1> QED BY <1>1, <1>2, <1>3, PTL DEF Spec
=============================================================================
