--------------------------- MODULE PiiText_proofs ---------------------------
(***************************************************************************)
(* The loop that merges overlapping matches, redaction and its reversal,   *)
(* for texts of any length, any types and any finite set of matches.       *)
(*                                                                         *)
(* What is kept is apart because the loop sees the matches sorted by their *)
(* start: whatever is still to come starts no earlier than anything kept   *)
(* (Ahead), so that a replacement of the last one stays right of the one   *)
(* before it.  A level is never lost because each match that has been seen *)
(* is answered by a kept one at least as sensitive (Answered).             *)
(*                                                                         *)
(* Redaction cuts from the right: what is left of the next entity is as it *)
(* was (LeftAlone), so its offsets still hold.  For the way back, every    *)
(* placeholder but the blocked ones' belongs to one mapping, is whole and  *)
(* there once (Known, InOnePiece, Once), and every character comes after   *)
(* those it comes after in the original, a placeholder standing for what   *)
(* it replaced (InPlace).  A cut disturbs none of this (PiecesKept).       *)
(***************************************************************************)
EXTENDS PiiText, SequenceTheorems, TLAPS

PcValues == {"detect", "detected", "classified", "redact", "redacted",
             "unredact", "done"}

Shape ==
    /\ pc \in PcValues
    /\ engine \in {"regex", "presidio"}
    /\ found \subseteq Entities
    /\ rest \subseteq found
    /\ kept \in Seq(Entities)
    /\ pc # "detect" => rest = {}

Ahead == \A i \in 1..Len(kept), e \in rest : kept[i].start <= e.start

Answered ==
    \A e \in found \ rest : \E i \in 1..Len(kept) : Level(e) <= Level(kept[i])

IInv == Shape /\ Ahead /\ KeptApart /\ Answered /\ LevelOfAll

(* The types have levels, and entities are records of numbers.              *)
LEMMA EntityFields ==
    ASSUME NEW e \in Entities
    PROVE  /\ e.start \in Nat /\ e.end \in Int /\ e.start < e.end
           /\ Level(e) \in 0..3
BY LevelOfAssumption DEF Entities, Level

(* A text that has just come satisfies the invariant.                      *)
LEMMA InitInv == Init => IInv
<1> SUFFICES ASSUME Init PROVE IInv
  OBVIOUS
<1>1. found \subseteq Entities
  BY FindsAssumption DEF Init
<1>2. Shape
  BY <1>1 DEF Init, Shape, PcValues
<1>3. kept = <<>> /\ Len(kept) = 0 /\ rest = found /\ pc = "detect"
  BY DEF Init
<1> QED BY <1>2, <1>3 DEF IInv, Ahead, KeptApart, InOrder, Answered, LevelOfAll

(* Every step that leaves the detector's state alone, or has nothing left.  *)
LEMMA LoopUntouched ==
    ASSUME IInv, UNCHANGED <<engine, found, rest, kept>>,
           pc' \in PcValues, pc' # "detect" => rest = {},
           LevelOfAll'
    PROVE  IInv'
<1>1. Shape'
  BY DEF IInv, Shape
<1>2. Ahead' /\ KeptApart' /\ Answered'
  BY DEF IInv, Ahead, KeptApart, InOrder, Answered, Level
<1> QED BY <1>1, <1>2 DEF IInv

(* One round of the loop, whatever becomes of the match it looks at.        *)
LEMMA Round ==
    ASSUME IInv, NEW e \in rest, Next1(e)
    PROVE  /\ e \in Entities /\ \A f \in rest : e.start <= f.start
           /\ found' = found /\ rest' = rest \ {e} /\ engine' = engine
           /\ pc' = pc /\ pc = "detect"
           /\ kept' \in Seq(Entities) => Shape'
           /\ LevelOfAll'
<1>1. rest \subseteq Entities /\ e \in Entities
  BY DEF IInv, Shape
<1>2. \A f \in rest : e.start <= f.start
  <2> SUFFICES ASSUME NEW f \in rest PROVE e.start <= f.start
    OBVIOUS
  <2>1. ~(f.start < e.start)
    BY DEF Next1, Earlier
  <2>2. e.start \in Nat /\ f.start \in Nat
    BY <1>1, EntityFields
  <2> QED BY <2>1, <2>2
<1>3. /\ found' = found /\ rest' = rest \ {e} /\ engine' = engine
      /\ pc' = pc /\ pc = "detect"
  BY DEF Next1
<1>4. kept' \in Seq(Entities) => Shape'
  BY <1>3 DEF IInv, Shape
<1>5. LevelOfAll'
  BY <1>3 DEF LevelOfAll
<1> QED BY <1>1, <1>2, <1>3, <1>4, <1>5

(* A match beside the last one starts where that one has ended.            *)
LEMMA KeepBesideInv ==
    ASSUME IInv, NEW e \in rest, KeepBeside(e)
    PROVE  IInv'
<1> DEFINE n == Len(kept)
<1>1. Next1(e) /\ kept' = Append(kept, e) /\ (engine = "regex" => ~RunsIntoLast(e))
  BY DEF KeepBeside
<1>2. kept \in Seq(Entities) /\ n \in Nat /\ rest \subseteq Entities
  BY DEF IInv, Shape
<1>3. e \in Entities /\ kept' \in Seq(Entities) /\ Len(kept') = n + 1
      /\ kept'[n + 1] = e /\ \A i \in 1..n : kept'[i] = kept[i]
  BY <1>1, <1>2, Round
<1>4. Shape' /\ LevelOfAll'
  BY <1>1, <1>3, Round
<1>5. /\ found' = found /\ rest' = rest \ {e} /\ engine' = engine
      /\ \A f \in rest : e.start <= f.start
  BY <1>1, Round
<1>6. Ahead'
  <2> SUFFICES ASSUME NEW i \in 1..(n + 1), NEW f \in rest'
               PROVE  kept'[i].start <= f.start
    BY <1>3 DEF Ahead
  <2>1. CASE i = n + 1
    BY <2>1, <1>3, <1>5
  <2>2. CASE i # n + 1
    <3>1. i \in 1..n /\ f \in rest
      BY <2>2, <1>2, <1>5
    <3> QED BY <3>1, <1>3 DEF IInv, Ahead
  <2> QED BY <2>1, <2>2
<1>7. KeptApart'
  <2> SUFFICES ASSUME engine = "regex", NEW i \in 1..(n + 1), NEW j \in 1..(n + 1),
                      i < j
               PROVE  kept'[i].end <= kept'[j].start
    BY <1>3, <1>5 DEF KeptApart, InOrder
  <2>1. i \in 1..n
    BY <1>2
  <2>2. CASE j # n + 1
    <3>1. j \in 1..n
      BY <2>2, <1>2
    <3> QED BY <3>1, <2>1, <1>3 DEF IInv, KeptApart, InOrder
  <2>3. CASE j = n + 1
    <3>1. kept # <<>> /\ n \in 1..n
      BY <2>1, <1>2
    <3>2. kept[n] \in Entities /\ kept[i] \in Entities
      BY <3>1, <2>1, <1>2
    <3>3. kept[n].end <= e.start
      BY <3>1, <3>2, <1>1, <1>3, EntityFields DEF RunsIntoLast, LastKept
    <3>4. kept[i].end <= kept[n].end
      <4>1. CASE i = n
        BY <4>1, <3>2, EntityFields
      <4>2. CASE i # n
        <5>1. i < n
          BY <4>2, <2>1
        <5>2. kept[i].end <= kept[n].start
          BY <5>1, <2>1, <3>1 DEF IInv, KeptApart, InOrder
        <5> QED BY <5>2, <3>2, EntityFields
      <4> QED BY <4>1, <4>2
    <3> QED BY <3>2, <3>3, <3>4, <2>1, <2>3, <1>3, EntityFields
  <2> QED BY <2>2, <2>3
<1>8. Answered'
  <2> SUFFICES ASSUME NEW f \in found', f \notin rest'
               PROVE  \E i \in 1..(n + 1) : Level(f) <= Level(kept'[i])
    BY <1>3 DEF Answered, Level
  <2>1. CASE f = e
    <3>1. Level(f) <= Level(kept'[n + 1])
      BY <2>1, <1>3, EntityFields
    <3> QED BY <3>1, <1>2
  <2>2. CASE f # e
    <3>1. f \in found \ rest
      BY <2>2, <1>5
    <3>2. PICK i \in 1..n : Level(f) <= Level(kept[i])
      BY <3>1 DEF IInv, Answered
    <3> QED BY <3>2, <1>2, <1>3
  <2> QED BY <2>1, <2>2
<1> QED BY <1>4, <1>6, <1>7, <1>8 DEF IInv

(* A match in the place of the last one starts no earlier than it did.     *)
LEMMA KeepInsteadInv ==
    ASSUME IInv, NEW e \in rest, KeepInstead(e)
    PROVE  IInv'
<1> DEFINE n == Len(kept)
<1>1. /\ Next1(e) /\ kept' = [kept EXCEPT ![n] = e]
      /\ kept # <<>> /\ e.start < kept[n].end /\ Level(e) > Level(kept[n])
  BY DEF KeepInstead, RunsIntoLast, LastKept
<1>2. kept \in Seq(Entities) /\ n \in Nat /\ n \in 1..n /\ rest \subseteq Entities
  BY <1>1 DEF IInv, Shape
<1>3. e \in Entities /\ kept' \in Seq(Entities) /\ Len(kept') = n
      /\ kept'[n] = e /\ \A i \in 1..n : i # n => kept'[i] = kept[i]
  BY <1>1, <1>2, Round
<1>4. Shape' /\ LevelOfAll'
  BY <1>1, <1>3, Round
<1>5. /\ found' = found /\ rest' = rest \ {e} /\ engine' = engine
      /\ \A f \in rest : e.start <= f.start
  BY <1>1, Round
<1>6. Ahead'
  <2> SUFFICES ASSUME NEW i \in 1..n, NEW f \in rest'
               PROVE  kept'[i].start <= f.start
    BY <1>3 DEF Ahead
  <2>1. CASE i = n
    BY <2>1, <1>3, <1>5
  <2>2. CASE i # n
    BY <2>2, <1>3, <1>5 DEF IInv, Ahead
  <2> QED BY <2>1, <2>2
<1>7. KeptApart'
  <2> SUFFICES ASSUME engine = "regex", NEW i \in 1..n, NEW j \in 1..n, i < j
               PROVE  kept'[i].end <= kept'[j].start
    BY <1>3, <1>5 DEF KeptApart, InOrder
  <2>1. i # n /\ kept'[i] = kept[i] /\ kept[i].end <= kept[j].start
    BY <1>2, <1>3 DEF IInv, KeptApart, InOrder
  <2>2. CASE j # n
    BY <2>1, <2>2, <1>3
  <2>3. CASE j = n
    <3>1. kept[n].start <= e.start
      BY <1>2 DEF IInv, Ahead
    <3>2. kept[i] \in Entities /\ kept[n] \in Entities
      BY <1>2
    <3> QED BY <3>1, <3>2, <2>1, <2>3, <1>3, EntityFields
  <2> QED BY <2>2, <2>3
<1>8. Answered'
  <2> SUFFICES ASSUME NEW f \in found', f \notin rest'
               PROVE  \E i \in 1..n : Level(f) <= Level(kept'[i])
    BY <1>3 DEF Answered, Level
  <2>1. CASE f = e
    <3>1. Level(f) <= Level(kept'[n])
      BY <2>1, <1>3, EntityFields
    <3> QED BY <3>1, <1>2
  <2>2. CASE f # e
    <3>1. f \in found \ rest /\ f \in Entities
      BY <2>2, <1>5 DEF IInv, Shape
    <3>2. PICK i \in 1..n : Level(f) <= Level(kept[i])
      BY <3>1 DEF IInv, Answered
    <3>3. CASE i # n
      BY <3>2, <3>3, <1>3
    <3>4. CASE i = n
      <4>1. Level(f) \in 0..3 /\ Level(e) \in 0..3 /\ Level(kept[n]) \in 0..3
        BY <3>1, <1>2, <1>3, EntityFields
      <4>2. Level(f) <= Level(kept'[n])
        BY <4>1, <3>2, <3>4, <1>1, <1>3
      <4> QED BY <4>2, <1>2
    <3> QED BY <3>3, <3>4
  <2> QED BY <2>1, <2>2
<1> QED BY <1>4, <1>6, <1>7, <1>8 DEF IInv

(* A match left out is answered by the last one kept.                      *)
LEMMA LeaveOutInv ==
    ASSUME IInv, NEW e \in rest, LeaveOut(e)
    PROVE  IInv'
<1> DEFINE n == Len(kept)
<1>1. /\ Next1(e) /\ kept' = kept
      /\ kept # <<>> /\ Level(e) <= Level(kept[n])
  BY DEF LeaveOut, RunsIntoLast, LastKept
<1>2. kept \in Seq(Entities) /\ n \in 1..n
  BY <1>1 DEF IInv, Shape
<1>3. Shape' /\ LevelOfAll'
  BY <1>1, <1>2, Round
<1>4. found' = found /\ rest' = rest \ {e} /\ engine' = engine
  BY <1>1, Round
<1>5. Ahead' /\ KeptApart'
  BY <1>1, <1>4 DEF IInv, Ahead, KeptApart, InOrder
<1>6. Answered'
  <2> SUFFICES ASSUME NEW f \in found', f \notin rest'
               PROVE  \E i \in 1..n : Level(f) <= Level(kept[i])
    BY <1>1 DEF Answered, Level
  <2>1. CASE f = e
    BY <2>1, <1>1, <1>2
  <2>2. CASE f # e
    BY <2>2, <1>4 DEF IInv, Answered
  <2> QED BY <2>1, <2>2
<1> QED BY <1>3, <1>5, <1>6 DEF IInv

(* The levels a text gets its own from have a highest one.                  *)
LEMMA LargestOfLevels ==
    ASSUME NEW S \in SUBSET (0..3), S # {}
    PROVE  Largest(S) \in S /\ \A m \in S : m <= Largest(S)
<1>1. \E n \in S : \A m \in S : m <= n
  <2>1. CASE 3 \in S
    BY <2>1
  <2>2. CASE 3 \notin S /\ 2 \in S
    BY <2>2
  <2>3. CASE 3 \notin S /\ 2 \notin S /\ 1 \in S
    BY <2>3
  <2>4. CASE 3 \notin S /\ 2 \notin S /\ 1 \notin S
    <3>1. \A m \in S : m = 0
      BY <2>4
    <3>2. PICK n \in S : TRUE
      OBVIOUS
    <3>3. n = 0 /\ \A m \in S : m <= n
      BY <3>1
    <3> QED BY <3>3
  <2> QED BY <2>1, <2>2, <2>3, <2>4
<1> QED BY <1>1 DEF Largest

(* The level taken is the highest of the kept ones or higher.              *)
LEMMA ClassifyInv ==
    ASSUME IInv, NEW user \in SUBSET (0..3), NEW words \in 0..3,
           Classify(user, words)
    PROVE  IInv'
<1> DEFINE all == user \cup KeptLevels \cup ({words} \ {0})
<1>1. /\ pc = "detected" /\ pc' = "classified" /\ level' = Classified(user, words)
      /\ UNCHANGED <<engine, found, rest, kept>>
  BY DEF Classify
<1>2. rest = {} /\ kept \in Seq(Entities) /\ found \subseteq Entities
  BY <1>1 DEF IInv, Shape
<1>3. LevelOfAll'
  <2> SUFFICES ASSUME NEW e \in found PROVE Level(e) <= level'
    BY <1>1 DEF LevelOfAll, Level
  <2>1. PICK i \in 1..Len(kept) : Level(e) <= Level(kept[i])
    BY <1>2 DEF IInv, Answered
  <2>2. Level(kept[i]) \in KeptLevels
    BY DEF KeptLevels, KeptSet
  <2>3. KeptLevels \subseteq 0..3
    BY <1>2, EntityFields DEF KeptLevels, KeptSet
  <2>4. all \in SUBSET (0..3) /\ all # {} /\ Level(kept[i]) \in all
    BY <2>2, <2>3
  <2>5. level' = Largest(all)
    BY <2>4, <1>1 DEF Classified
  <2>6. Level(kept[i]) <= level' /\ level' \in 0..3
    BY <2>4, <2>5, LargestOfLevels
  <2>7. Level(e) \in 0..3 /\ Level(kept[i]) \in 0..3
    BY <1>2, EntityFields
  <2> QED BY <2>1, <2>6, <2>7
<1> QED BY <1>1, <1>2, <1>3, LoopUntouched DEF PcValues

(* The redactor and unredact leave what the detector found alone.           *)
LEMMA RedactorSteps ==
    ASSUME IInv,
           \/ Detected
           \/ \E min \in Thresholds, filter \in Filters,
                 s \in {"numbered", "typed"} : Redact(min, filter, s)
           \/ \E e \in todo : Replace(e)
           \/ PutBack \/ NextMapping \/ Unredacted
    PROVE  IInv'
<1>1. UNCHANGED <<engine, found, rest, kept>>
  BY DEF Detected, Redact, Replace, PutBack, NextMapping, Unredacted
<1>2. pc' \in PcValues /\ pc' # "classified"
  BY DEF Detected, Redact, Replace, PutBack, NextMapping, Unredacted, PcValues
<1>3. rest = {}
  BY DEF Detected, Redact, Replace, PutBack, NextMapping, Unredacted, IInv, Shape
<1>4. LevelOfAll'
  BY <1>2 DEF LevelOfAll
<1> QED BY <1>1, <1>2, <1>3, <1>4, LoopUntouched

(* Every step keeps the invariant.                                         *)
LEMMA NextInv == IInv /\ [Next]_vars => IInv'
<1> SUFFICES ASSUME IInv, [Next]_vars PROVE IInv'
  OBVIOUS
<1>1. CASE \E e \in rest : KeepBeside(e) \/ KeepInstead(e) \/ LeaveOut(e)
  BY <1>1, KeepBesideInv, KeepInsteadInv, LeaveOutInv
<1>2. CASE \E user \in SUBSET (0..3), words \in 0..3 : Classify(user, words)
  BY <1>2, ClassifyInv
<1>3. CASE \/ Detected
           \/ \E min \in Thresholds, filter \in Filters,
                 s \in {"numbered", "typed"} : Redact(min, filter, s)
           \/ \E e \in todo : Replace(e)
           \/ PutBack \/ NextMapping \/ Unredacted
  BY <1>3, RedactorSteps
<1>4. CASE UNCHANGED vars
  <2>1. Shape' /\ Ahead' /\ KeptApart' /\ Answered' /\ LevelOfAll'
    BY <1>4 DEF vars, IInv, Shape, Ahead, KeptApart, InOrder, Answered,
                LevelOfAll, Level
  <2> QED BY <2>1 DEF IInv
<1> QED BY <1>1, <1>2, <1>3, <1>4 DEF Next

(* The matches the pattern detector keeps never overlap and are in order,   *)
(* so the redactor's offsets hold (detector.py:300).                        *)
THEOREM MatchesApart == Spec => []KeptApart
<1>1. IInv => KeptApart
  BY DEF IInv
<1> QED BY <1>1, InitInv, NextInv, PTL DEF Spec

(* Merging costs no sensitivity: the level of a text is at least that of     *)
(* every match in it, kept or not (detector.py:315, classifier.py:307).     *)
THEOREM LevelOfEveryMatch == Spec => []LevelOfAll
<1>1. IInv => LevelOfAll
  BY DEF IInv
<1> QED BY <1>1, InitInv, NextInv, PTL DEF Spec
-----------------------------------------------------------------------------
(* The redactor and unredact.                                               *)

Chars == ({"text"} \cup Types) \X Nat \X Nat
Span(e) == SubSeq(Original, e.start + 1, e.end)
Records == [type : Types, number : Nat, original : Seq(Chars)]
Mappings == {mappings[q] : q \in 1..Len(mappings)}

Sorts ==
    /\ InOrder(kept) => text \in Seq(Chars)
    /\ mappings \in Seq(Records)
    /\ chosen \subseteq KeptSet /\ todo \subseteq chosen
    /\ counts \in [Types -> Nat]
    /\ pc \in {"detect", "detected", "classified"} =>
           text = Original /\ mappings = <<>> /\ chosen = {}
    /\ pc # "redact" => todo = {}

\* What the loop has not reached is where it was.
LeftAlone ==
    \A e \in todo : /\ e.end <= Len(text)
                    /\ \A i \in 1..e.end : text[i] = Original[i]

\* m is the mapping of e; c is a character of the placeholder of m.
MappingOf(m, e) == ~IsBlocked(e) /\ m.type = e.type /\ m.original = Span(e)
IsPart(c, m) == c[1] = m.type /\ c[2] = m.number

Replaced == chosen \ todo

\* Each mapping is that of one entity, and has a number of its own.
OneEach ==
    /\ \A m \in Mappings : /\ \E e \in Replaced : MappingOf(m, e)
                           /\ m.number \in 1..counts[m.type]
    /\ \A m, n \in Mappings :
          m # n => /\ m.original # n.original
                   /\ m.type # n.type \/ m.number # n.number
    /\ \A q, r \in 1..Len(mappings) : q # r => mappings[q] # mappings[r]

\* Every placeholder is a blocked one or that of a mapping,
Known(t, M) ==
    \A i \in 1..Len(t) :
        \/ FromText(t[i]) \/ t[i][2] = 0
        \/ \E m \in M : IsPart(t[i], m)

\* in one piece,
InOnePiece(t, M) ==
    \A i \in 1..Len(t), m \in M :
        IsPart(t[i], m) =>
            /\ t[i][3] \in 1..PlaceholderLen
            /\ i - t[i][3] \in 0..(Len(t) - PlaceholderLen)
            /\ \A k \in 1..PlaceholderLen :
                  t[i - t[i][3] + k] = <<m.type, m.number, k>>

\* and there once.
Once(t, M) ==
    \A i, j \in 1..Len(t), m \in M :
        IsPart(t[i], m) /\ IsPart(t[j], m) => i - t[i][3] = j - t[j][3]

\* The part of the original a character stands for, if the entities D are
\* replaced.
Place(c, M, D) ==
    IF FromText(c) THEN {<<c[3] - 1, c[3]>>}
    ELSE {<<e.start, e.end>> :
             e \in {f \in D : \E m \in M : IsPart(c, m) /\ MappingOf(m, f)}}
SameWord(c, d) == ~FromText(c) /\ c[1] = d[1] /\ c[2] = d[2]

InPlace(t, M, D) ==
    \A i, j \in 1..Len(t) : i < j =>
        \A u \in Place(t[i], M, D), v \in Place(t[j], M, D) :
            u[2] <= v[1] \/ SameWord(t[i], t[j])

\* Those of D that are still out of the text.
Gone(t, M, D) ==
    {e \in D :
        \/ IsBlocked(e)
        \/ \E m \in M, i \in 1..Len(t) : MappingOf(m, e) /\ IsPart(t[i], m)}

Numbered ==
    /\ OneEach
    /\ Known(text, Mappings)
    /\ InOnePiece(text, Mappings) /\ Once(text, Mappings)
    /\ InPlace(text, Mappings, Replaced)

RedactInv ==
    InOrder(kept) =>
        /\ pc \in {"redact", "redacted"} =>
              ReadsWithout(text, Replaced) /\ LeftAlone
        /\ style = "numbered" =>
              /\ Numbered
              /\ pc \in {"redact", "redacted"} =>
                    Replaced \subseteq Gone(text, Mappings, Replaced)
              /\ pc \in {"unredact", "done"} =>
                    ReadsWithout(text, Gone(text, Mappings, Replaced))
              /\ pc = "done" => mappings = <<>>

RInv == Sorts /\ RedactInv

(* The parts of a triple.                                                  *)
LEMMA Triple ==
    ASSUME NEW c, NEW x, NEW y, NEW z, c = <<x, y, z>>
    PROVE  c[1] = x /\ c[2] = y /\ c[3] = z
OBVIOUS

(* Characters have three parts.                                             *)
LEMMA CharFields ==
    ASSUME NEW c \in Chars
    PROVE  /\ c[1] \in {"text"} \cup Types /\ c[2] \in Nat /\ c[3] \in Nat
           /\ c = <<c[1], c[2], c[3]>>
BY DEF Chars

(* The characters of the original.                                          *)
LEMMA Letters ==
    /\ Original \in Seq(Chars) /\ Len(Original) = Length /\ Length \in Nat
    /\ \A n \in 1..Length : /\ Original[n] = <<"text", 0, n>> /\ Original[n] \in Chars
                            /\ FromText(Original[n]) /\ Original[n][3] = n
<1>1. \A n \in 1..Length : Original[n] = <<"text", 0, n>> /\ <<"text", 0, n>> \in Chars
  BY TextAssumption DEF Original, Chars
<1>2. Original = [n \in 1..Length |-> <<"text", 0, n>>]
  BY DEF Original
<1>3. Original \in [1..Length -> Chars]
  BY <1>1, <1>2
<1> HIDE DEF Original
<1>4. Original \in Seq(Chars) /\ Len(Original) = Length
  BY <1>3, TextAssumption
<1>5. ASSUME NEW n \in 1..Length PROVE Original[n][1] = "text" /\ Original[n][3] = n
  <2>1. Original[n] = <<"text", 0, n>>
    BY <1>1
  <2> QED BY ONLY <2>1, Triple
<1>6. \A n \in 1..Length : Original[n] \in Chars
  BY <1>1
<1>7. \A n \in 1..Length : FromText(Original[n])
  BY <1>5 DEF FromText
<1> QED BY <1>1, <1>4, <1>5, <1>6, <1>7, TextAssumption

(* The characters of a placeholder.                                         *)
LEMMA Holders ==
    ASSUME NEW t \in Types, NEW n \in Nat
    PROVE  /\ Placeholder(t, n) \in Seq(Chars)
           /\ Len(Placeholder(t, n)) = PlaceholderLen
           /\ \A k \in 1..PlaceholderLen :
                 /\ Placeholder(t, n)[k] = <<t, n, k>>
                 /\ ~FromText(Placeholder(t, n)[k])
<1> DEFINE p == Placeholder(t, n)
<1>1. p = [k \in 1..PlaceholderLen |-> <<t, n, k>>]
  BY DEF Placeholder
<1>2. \A k \in 1..PlaceholderLen : <<t, n, k>> \in Chars /\ t # "text"
  BY TextAssumption DEF Chars
<1> HIDE DEF p
<1>3. p \in [1..PlaceholderLen -> Chars] /\ \A k \in 1..PlaceholderLen : p[k] = <<t, n, k>>
  BY <1>1, <1>2
<1>4. p \in Seq(Chars) /\ Len(p) = PlaceholderLen
  BY <1>3, TextAssumption
<1>5. \A k \in 1..PlaceholderLen : p[k][1] = t
  BY <1>3, Triple
<1>6. \A k \in 1..PlaceholderLen : ~FromText(p[k])
  BY <1>2, <1>5 DEF FromText
<1>7. /\ p \in Seq(Chars) /\ Len(p) = PlaceholderLen
      /\ \A k \in 1..PlaceholderLen : p[k] = <<t, n, k>> /\ ~FromText(p[k])
  BY <1>3, <1>4, <1>6
<1> QED BY <1>7 DEF p

(* The characters an entity spans.                                          *)
LEMMA Spans ==
    ASSUME NEW e \in Entities
    PROVE  /\ e.start \in 0..(Length - 1) /\ e.end \in 1..Length /\ e.start < e.end
           /\ Span(e) \in Seq(Chars) /\ Len(Span(e)) = e.end - e.start
           /\ \A k \in 1..(e.end - e.start) : Span(e)[k] = Original[e.start + k]
<1>1. e.start \in 0..(Length - 1) /\ e.end \in 1..Length /\ e.start < e.end
  BY DEF Entities
<1>2. e.start + 1 \in Int /\ e.end \in Int /\ Length \in Nat
  BY <1>1, Letters
<1>3. \A i \in (e.start + 1)..e.end : Original[i] \in Chars
  BY <1>1, <1>2, Letters
<1>4. /\ Span(e) \in Seq(Chars)
      /\ Len(Span(e)) = IF e.start + 1 <= e.end THEN e.end - (e.start + 1) + 1 ELSE 0
      /\ \A k \in 1..(e.end - (e.start + 1) + 1) :
            Span(e)[k] = Original[(e.start + 1) + k - 1]
  BY <1>2, <1>3, SubSeqProperties DEF Span
<1>5. Len(Span(e)) = e.end - e.start
  BY <1>1, <1>2, <1>4
<1>6. ASSUME NEW k \in 1..(e.end - e.start) PROVE Span(e)[k] = Original[e.start + k]
  <2>1. k \in 1..(e.end - (e.start + 1) + 1) /\ (e.start + 1) + k - 1 = e.start + k
    BY <1>1, <1>2
  <2> QED BY <2>1, <1>4
<1> QED BY <1>1, <1>4, <1>5, <1>6

(* What is kept in order is apart, and one span is that of one entity.      *)
LEMMA Apart ==
    ASSUME kept \in Seq(Entities), InOrder(kept), NEW e \in KeptSet, NEW f \in KeptSet
    PROVE  /\ e \in Entities
           /\ e = f \/ e.end <= f.start \/ f.end <= e.start
           /\ Span(e) = Span(f) => e = f
<1>1. PICK i \in 1..Len(kept), j \in 1..Len(kept) : e = kept[i] /\ f = kept[j]
  BY DEF KeptSet
<1>2. e \in Entities /\ f \in Entities
  BY <1>1
<1>3. e = f \/ e.end <= f.start \/ f.end <= e.start
  <2>1. CASE i = j
    BY <2>1, <1>1
  <2>2. CASE i < j
    BY <2>2, <1>1 DEF InOrder
  <2>3. CASE j < i
    BY <2>3, <1>1 DEF InOrder
  <2> QED BY <2>1, <2>2, <2>3
<1>4. ASSUME Span(e) = Span(f) PROVE e = f
  <2>0. /\ e.start \in 0..(Length - 1) /\ e.end \in 1..Length /\ e.start < e.end
        /\ f.start \in 0..(Length - 1) /\ f.end \in 1..Length /\ f.start < f.end
    BY <1>2, Spans
  <2>1. 1 \in 1..(e.end - e.start) /\ 1 \in 1..(f.end - f.start)
        /\ e.start \in Nat /\ f.start \in Nat /\ e.end \in Nat /\ f.end \in Nat
    BY <2>0, Letters
  <2>2. Original[e.start + 1] = Original[f.start + 1]
    <3>1. Span(e)[1] = Original[e.start + 1]
      BY <2>1, <1>2, Spans
    <3>2. Span(f)[1] = Original[f.start + 1]
      BY <2>1, <1>2, Spans
    <3> QED BY <3>1, <3>2, <1>4
  <2>3. e.start + 1 \in 1..Length /\ f.start + 1 \in 1..Length
    BY <2>0, Letters
  <2>4. e.start + 1 = f.start + 1
    <3>1. Original[e.start + 1][3] = e.start + 1 /\ Original[f.start + 1][3] = f.start + 1
      BY <2>3, Letters
    <3> QED BY <3>1, <2>2
  <2>5. e.start = f.start
    BY <2>4, <2>1
  <2> QED BY <2>0, <2>1, <2>5, <1>3
<1> QED BY <1>2, <1>3, <1>4

\* r is s with p in the place of what is after a, up to b.
IsCut(r, s, a, b, p) ==
    /\ s \in Seq(Chars) /\ p \in Seq(Chars) /\ r \in Seq(Chars)
    /\ a \in 0..Len(s) /\ b \in a..Len(s)
    /\ Len(r) = Len(s) + (Len(p) - (b - a))
    /\ \A i \in 1..a : r[i] = s[i]
    /\ \A k \in 1..Len(p) : r[a + k] = p[k]
    /\ \A i \in (b + 1)..Len(s) : r[i + (Len(p) - (b - a))] = s[i]

(* What a cut makes of a sequence of characters.                           *)
LEMMA Cutting ==
    ASSUME NEW s \in Seq(Chars), NEW p \in Seq(Chars),
           NEW a \in 0..Len(s), NEW b \in a..Len(s)
    PROVE  IsCut(SubSeq(s, 1, a) \o p \o SubSeq(s, b + 1, Len(s)), s, a, b, p)
<1> DEFINE u == SubSeq(s, 1, a)
           v == SubSeq(s, b + 1, Len(s))
           w == u \o p
           r == w \o v
<1>0. a \in Nat /\ b \in Nat /\ Len(s) \in Nat /\ Len(p) \in Nat /\ a <= b /\ b <= Len(s)
  OBVIOUS
<1>1. u \in Seq(Chars) /\ Len(u) = a /\ \A i \in 1..a : u[i] = s[i]
  <2>1. \A i \in 1..a : s[i] \in Chars
    BY <1>0
  <2>2. /\ u \in Seq(Chars) /\ Len(u) = IF 1 <= a THEN a - 1 + 1 ELSE 0
        /\ \A i \in 1..(a - 1 + 1) : u[i] = s[1 + i - 1]
    BY <1>0, <2>1, SubSeqProperties
  <2> HIDE DEF u
  <2>3. Len(u) = a
    BY <1>0, <2>2
  <2>4. \A i \in 1..a : i \in 1..(a - 1 + 1) /\ 1 + i - 1 = i
    BY <1>0
  <2> QED BY <2>2, <2>3, <2>4
<1>2. /\ v \in Seq(Chars) /\ Len(v) = Len(s) - b
      /\ \A i \in (b + 1)..Len(s) : v[i - b] = s[i]
  <2>1. \A i \in (b + 1)..Len(s) : s[i] \in Chars
    BY <1>0
  <2>2. /\ v \in Seq(Chars)
        /\ Len(v) = IF b + 1 <= Len(s) THEN Len(s) - (b + 1) + 1 ELSE 0
        /\ \A i \in 1..(Len(s) - (b + 1) + 1) : v[i] = s[(b + 1) + i - 1]
    BY <1>0, <2>1, SubSeqProperties
  <2> HIDE DEF v
  <2>3. Len(v) = Len(s) - b
    BY <1>0, <2>2
  <2>4. ASSUME NEW i \in (b + 1)..Len(s) PROVE v[i - b] = s[i]
    <3>1. i - b \in 1..(Len(s) - (b + 1) + 1) /\ (b + 1) + (i - b) - 1 = i
      BY <1>0
    <3> QED BY <3>1, <2>2
  <2> QED BY <2>2, <2>3, <2>4
<1> HIDE DEF u, v
<1>3. /\ w \in Seq(Chars) /\ Len(w) = a + Len(p)
      /\ \A i \in 1..(a + Len(p)) : w[i] = IF i <= a THEN u[i] ELSE p[i - a]
  BY <1>1, ConcatProperties
<1> HIDE DEF w
<1>4. /\ r \in Seq(Chars) /\ Len(r) = a + Len(p) + (Len(s) - b)
      /\ \A i \in 1..(a + Len(p) + (Len(s) - b)) :
            r[i] = IF i <= a + Len(p) THEN w[i] ELSE v[i - (a + Len(p))]
  <2>1. /\ r \in Seq(Chars) /\ Len(r) = Len(w) + Len(v)
        /\ \A i \in 1..(Len(w) + Len(v)) :
              r[i] = IF i <= Len(w) THEN w[i] ELSE v[i - Len(w)]
    BY <1>2, <1>3, ConcatProperties
  <2> HIDE DEF r
  <2> QED BY <2>1, <1>2, <1>3
<1> HIDE DEF r
<1>5. \A i \in 1..a : r[i] = s[i]
  BY <1>0, <1>1, <1>3, <1>4
<1>6. ASSUME NEW k \in 1..Len(p) PROVE r[a + k] = p[k]
  <2>1. a + k \in 1..(a + Len(p)) /\ a + k \in 1..(a + Len(p) + (Len(s) - b))
        /\ ~(a + k <= a) /\ (a + k) - a = k
    BY <1>0
  <2> QED BY <2>1, <1>3, <1>4
<1>7. ASSUME NEW i \in (b + 1)..Len(s) PROVE r[i + (Len(p) - (b - a))] = s[i]
  <2> DEFINE j == i + (Len(p) - (b - a))
  <2>1. j \in 1..(a + Len(p) + (Len(s) - b)) /\ ~(j <= a + Len(p)) /\ j - (a + Len(p)) = i - b
    BY <1>0
  <2> HIDE DEF j
  <2>2. r[j] = v[i - b]
    BY <2>1, <1>4
  <2> QED BY <2>2, <1>2 DEF j
<1>8. Len(r) = Len(s) + (Len(p) - (b - a))
  BY <1>0, <1>4
<1> QED BY <1>4, <1>5, <1>6, <1>7, <1>8 DEF IsCut, r, w, u, v

(* Where a character of the cut text comes from.                            *)
LEMMA Origin ==
    ASSUME NEW r, NEW s, NEW a, NEW b, NEW p, IsCut(r, s, a, b, p),
           NEW j \in 1..Len(r)
    PROVE  \/ j \in 1..a /\ j \in 1..Len(s) /\ r[j] = s[j]
           \/ j - a \in 1..Len(p) /\ r[j] = p[j - a]
           \/ /\ j - (Len(p) - (b - a)) \in (b + 1)..Len(s)
              /\ j - (Len(p) - (b - a)) \in 1..Len(s)
              /\ r[j] = s[j - (Len(p) - (b - a))]
<1>1. a \in Nat /\ b \in Nat /\ Len(s) \in Nat /\ Len(p) \in Nat /\ a <= b /\ b <= Len(s)
      /\ Len(r) = Len(s) + (Len(p) - (b - a))
  BY DEF IsCut
<1> DEFINE d == Len(p) - (b - a)
<1>2. CASE j <= a
  BY <1>1, <1>2 DEF IsCut
<1>3. CASE a < j /\ j <= a + Len(p)
  <2>1. j - a \in 1..Len(p) /\ a + (j - a) = j
    BY <1>1, <1>3
  <2>2. r[a + (j - a)] = p[j - a]
    BY <2>1 DEF IsCut
  <2> QED BY <2>1, <2>2
<1>4. CASE a + Len(p) < j
  <2>1. j - d \in (b + 1)..Len(s) /\ j - d \in 1..Len(s) /\ (j - d) + d = j
    BY <1>1, <1>4
  <2>2. r[(j - d) + d] = s[j - d]
    BY <2>1 DEF IsCut
  <2> QED BY <2>1, <2>2
<1> QED BY <1>1, <1>2, <1>3, <1>4

(* A placeholder that a cut does not touch lies on one side of it.          *)
LEMMA OnOneSide ==
    ASSUME NEW r, NEW s, NEW a, NEW b, NEW p, IsCut(r, s, a, b, p), a < b,
           NEW M, InOnePiece(s, M),
           \A i \in (a + 1)..b, m \in M : ~IsPart(s[i], m),
           \A k \in 1..Len(p), m \in M : ~IsPart(p[k], m),
           NEW m \in M, NEW j \in 1..Len(r), IsPart(r[j], m)
    PROVE  \E i \in 1..Len(s) :
              /\ r[j] = s[i]
              /\ \/ i = j /\ i - s[i][3] + PlaceholderLen <= a
                 \/ i = j - (Len(p) - (b - a)) /\ b <= i - s[i][3]
<1> DEFINE d == Len(p) - (b - a)
           Pl == PlaceholderLen
<1>1. a \in Nat /\ b \in Nat /\ Len(s) \in Nat /\ Len(p) \in Nat /\ b <= Len(s)
      /\ Pl \in Nat /\ Pl > 0
  BY TextAssumption DEF IsCut
<1>2. ASSUME NEW i \in 1..Len(s), IsPart(s[i], m)
      PROVE  /\ s[i][3] \in 1..Pl /\ i - s[i][3] \in 0..(Len(s) - Pl)
             /\ \A n \in (i - s[i][3] + 1)..(i - s[i][3] + Pl) : IsPart(s[n], m)
  <2> DEFINE c == i - s[i][3]
  <2>1. /\ s[i][3] \in 1..Pl /\ c \in 0..(Len(s) - Pl)
        /\ \A k \in 1..Pl : s[c + k] = <<m.type, m.number, k>>
    BY <1>2 DEF InOnePiece
  <2> HIDE DEF c
  <2>2. ASSUME NEW n \in (c + 1)..(c + Pl) PROVE IsPart(s[n], m)
    <3>1. n - c \in 1..Pl /\ c + (n - c) = n
      BY <1>1, <2>1
    <3>2. s[n] = <<m.type, m.number, n - c>>
      BY <3>1, <2>1
    <3>3. s[n][1] = m.type /\ s[n][2] = m.number
      BY ONLY <3>2, Triple
    <3> QED BY <3>3 DEF IsPart
  <2>3. \A n \in (c + 1)..(c + Pl) : IsPart(s[n], m)
    BY <2>2
  <2> QED BY <2>1, <2>3 DEF c
<1>3. CASE j \in 1..a /\ j \in 1..Len(s) /\ r[j] = s[j]
  <2> DEFINE c == j - s[j][3]
  <2>1. /\ s[j][3] \in 1..Pl /\ c \in 0..(Len(s) - Pl)
        /\ \A n \in (c + 1)..(c + Pl) : IsPart(s[n], m)
    BY <1>2, <1>3
  <2>2. c < j
    BY <2>1, <1>3
  <2> HIDE DEF c
  <2>3. c + Pl <= a
    <3> SUFFICES ASSUME a < c + Pl PROVE FALSE
      BY <1>1, <2>1
    <3>1. a + 1 \in (c + 1)..(c + Pl) /\ a + 1 \in (a + 1)..b
      BY <1>1, <1>3, <2>1, <2>2
    <3> QED BY <3>1, <2>1
  <2> QED BY <2>3, <1>3 DEF c
<1>4. CASE j - d \in (b + 1)..Len(s) /\ j - d \in 1..Len(s) /\ r[j] = s[j - d]
  <2> DEFINE i == j - d
             c == i - s[i][3]
  <2>1. i \in (b + 1)..Len(s) /\ i \in 1..Len(s) /\ r[j] = s[i]
    BY <1>4
  <2> HIDE DEF i
  <2>2. /\ s[i][3] \in 1..Pl /\ c \in 0..(Len(s) - Pl)
        /\ \A n \in (c + 1)..(c + Pl) : IsPart(s[n], m)
    BY <1>2, <2>1
  <2>3. i <= c + Pl
    BY <2>1, <2>2, <1>1
  <2> HIDE DEF c
  <2>4. b <= c
    <3> SUFFICES ASSUME c < b PROVE FALSE
      BY <1>1, <2>2
    <3>1. b \in (c + 1)..(c + Pl) /\ b \in (a + 1)..b
      BY <1>1, <2>1, <2>2, <2>3
    <3> QED BY <3>1, <2>2
  <2> QED BY <2>1, <2>4 DEF c, i
<1>5. ~(j - a \in 1..Len(p) /\ r[j] = p[j - a])
  OBVIOUS
<1> QED BY <1>3, <1>4, <1>5, Origin

(* Such a placeholder stays whole and stays the only one.                   *)
LEMMA PiecesKept ==
    ASSUME NEW r, NEW s, NEW a, NEW b, NEW p, IsCut(r, s, a, b, p), a < b,
           NEW M, InOnePiece(s, M), Once(s, M),
           \A i \in (a + 1)..b, m \in M : ~IsPart(s[i], m),
           \A k \in 1..Len(p), m \in M : ~IsPart(p[k], m)
    PROVE  InOnePiece(r, M) /\ Once(r, M)
<1> DEFINE d == Len(p) - (b - a)
           Pl == PlaceholderLen
<1>1. a \in Nat /\ b \in Nat /\ Len(s) \in Nat /\ Len(p) \in Nat /\ b <= Len(s)
      /\ Pl \in Nat /\ Pl > 0 /\ Len(r) = Len(s) + d /\ d \in Int /\ 0 <= b + d
  BY TextAssumption DEF IsCut
<1>2. InOnePiece(r, M)
  <2> SUFFICES ASSUME NEW j \in 1..Len(r), NEW m \in M, IsPart(r[j], m)
               PROVE  /\ r[j][3] \in 1..Pl /\ j - r[j][3] \in 0..(Len(r) - Pl)
                      /\ \A k \in 1..Pl : r[j - r[j][3] + k] = <<m.type, m.number, k>>
    BY DEF InOnePiece
  <2>1. PICK i \in 1..Len(s) :
              /\ r[j] = s[i]
              /\ \/ i = j /\ i - s[i][3] + Pl <= a
                 \/ i = j - d /\ b <= i - s[i][3]
    BY OnOneSide
  <2> DEFINE n == s[i][3]
             c == i - n
  <2>2. /\ n \in 1..Pl /\ c \in 0..(Len(s) - Pl)
        /\ \A k \in 1..Pl : s[c + k] = <<m.type, m.number, k>>
    BY <2>1 DEF InOnePiece
  <2>3. CASE i = j /\ c + Pl <= a
    <3>1. r[j][3] = n /\ j - r[j][3] = c
      BY <2>1, <2>3
    <3> HIDE DEF c, n
    <3>2. c \in 0..(Len(r) - Pl)
      BY <1>1, <2>2, <2>3
    <3>3. ASSUME NEW k \in 1..Pl PROVE r[c + k] = s[c + k]
      <4>1. c + k \in 1..a
        BY <1>1, <2>2, <2>3
      <4> QED BY <4>1 DEF IsCut
    <3> QED BY <2>2, <3>1, <3>2, <3>3
  <2>4. CASE i = j - d /\ b <= c
    <3>0. r[j][3] = n
      BY <2>1
    <3>1. j - n = c + d
      <4>1. i \in Int /\ d \in Int /\ j \in Int /\ n \in Int /\ i = j - d /\ c = i - n
        BY <1>1, <2>2, <2>4
      <4> HIDE DEF c, n, d
      <4> QED BY <4>1
    <3> HIDE DEF c, n
    <3>2. c + d \in 0..(Len(r) - Pl)
      <4>1. c \in 0..(Len(s) - Pl) /\ b <= c
        BY <2>2, <2>4
      <4> HIDE DEF d
      <4> QED BY <1>1, <4>1
    <3>3. ASSUME NEW k \in 1..Pl PROVE r[(c + d) + k] = s[c + k]
      <4>1. c + k \in (b + 1)..Len(s) /\ (c + k) + d = (c + d) + k
        BY <1>1, <2>2, <2>4
      <4>2. r[(c + k) + d] = s[c + k]
        BY <4>1 DEF IsCut
      <4> QED BY <4>1, <4>2
    <3> QED BY <2>2, <3>0, <3>1, <3>2, <3>3
  <2> QED BY <2>1, <2>3, <2>4
<1>3. Once(r, M)
  <2> SUFFICES ASSUME NEW j \in 1..Len(r), NEW l \in 1..Len(r), NEW m \in M,
                      IsPart(r[j], m), IsPart(r[l], m)
               PROVE  j - r[j][3] = l - r[l][3]
    BY DEF Once
  <2>1. PICK i \in 1..Len(s) :
              /\ r[j] = s[i]
              /\ \/ i = j /\ i - s[i][3] + Pl <= a
                 \/ i = j - d /\ b <= i - s[i][3]
    BY OnOneSide
  <2>2. PICK h \in 1..Len(s) :
              /\ r[l] = s[h]
              /\ \/ h = l /\ h - s[h][3] + Pl <= a
                 \/ h = l - d /\ b <= h - s[h][3]
    BY OnOneSide
  <2>3. i - s[i][3] = h - s[h][3] /\ s[i][3] \in 1..Pl /\ s[h][3] \in 1..Pl
    BY <2>1, <2>2 DEF Once, InOnePiece
  <2> DEFINE x == s[i][3]
             y == s[h][3]
  <2>4. r[j][3] = x /\ r[l][3] = y
    BY <2>1, <2>2
  <2>5. /\ i - x = h - y /\ x \in 1..Pl /\ y \in 1..Pl
        /\ (i = j /\ i - x + Pl <= a) \/ (i = j - d /\ b <= i - x)
        /\ (h = l /\ h - y + Pl <= a) \/ (h = l - d /\ b <= h - y)
        /\ i \in Int /\ h \in Int /\ j \in Int /\ l \in Int /\ d \in Int
    BY <1>1, <2>1, <2>2, <2>3
  <2> HIDE DEF x, y, d
  <2>6. x \in Int /\ y \in Int /\ Pl \in Nat /\ Pl > 0 /\ a \in Nat /\ b \in Nat /\ a < b
    BY <1>1, <2>5
  <2>7. (i = j /\ h = l) \/ (i = j - d /\ h = l - d)
    BY ONLY <2>5, <2>6
  <2>8. j - x = l - y
    BY ONLY <2>5, <2>6, <2>7
  <2> QED BY <2>4, <2>8
<1> QED BY <1>2, <1>3

(* What a text reads as, one character at a time.                           *)
LEMMA Reads ==
    ASSUME NEW t \in Seq(Chars), NEW S
    PROVE  ReadsWithout(t, S) <=>
              /\ \A i \in InText(t) : \E n \in 1..Length :
                    t[i] = Original[n] /\ \A e \in S : ~Covers(e, n)
              /\ \A n \in 1..Length : (\A e \in S : ~Covers(e, n)) =>
                    \E i \in 1..Len(t) : t[i] = Original[n]
              /\ \A i, j \in InText(t) : i < j => t[i][3] < t[j][3]
<1> DEFINE Open == {m \in 1..Length : \A e \in S : ~Covers(e, m)}
           L == {t[i] : i \in InText(t)}
           R == {Original[n] : n \in Open}
           A == \A i \in InText(t) : \E n \in Open : t[i] = Original[n]
           B == \A n \in Open : \E i \in 1..Len(t) : t[i] = Original[n]
<1>1. L = R => A /\ B
  <2> SUFFICES ASSUME L = R PROVE A /\ B
    OBVIOUS
  <2>1. A
    OBVIOUS
  <2>2. ASSUME NEW n \in Open PROVE \E i \in 1..Len(t) : t[i] = Original[n]
    <3>1. Original[n] \in L
      OBVIOUS
    <3> QED BY <3>1 DEF InText
  <2> QED BY <2>1, <2>2
<1>2. A /\ B => L = R
  <2> SUFFICES ASSUME A, B PROVE L = R
    OBVIOUS
  <2>1. L \subseteq R
    OBVIOUS
  <2>2. ASSUME NEW n \in Open PROVE Original[n] \in L
    <3>1. PICK i \in 1..Len(t) : t[i] = Original[n]
      OBVIOUS
    <3>2. FromText(t[i])
      BY <3>1, Letters
    <3> QED BY <3>1, <3>2 DEF InText
  <2> QED BY <2>1, <2>2
<1>3. A <=> \A i \in InText(t) : \E n \in 1..Length :
                t[i] = Original[n] /\ \A e \in S : ~Covers(e, n)
  OBVIOUS
<1>4. B <=> \A n \in 1..Length : (\A e \in S : ~Covers(e, n)) =>
                \E i \in 1..Len(t) : t[i] = Original[n]
  OBVIOUS
<1>5. ReadsWithout(t, S) <=>
          L = R /\ \A i, j \in InText(t) : i < j => t[i][3] < t[j][3]
  BY DEF ReadsWithout
<1> HIDE DEF A, B, L, R
<1> QED BY <1>1, <1>2, <1>3, <1>4, <1>5

-----------------------------------------------------------------------------
(* The redactor's loop.                                                     *)

(* One round of it: what is cut out, and where.                             *)
LEMMA ReplaceFacts ==
    ASSUME IInv, RInv, InOrder(kept), NEW e \in todo, Replace(e)
    PROVE  /\ e \in Entities /\ e \in chosen /\ e \in KeptSet /\ e.type \in Types
           /\ kept \in Seq(Entities) /\ chosen \subseteq KeptSet
           /\ todo \subseteq chosen /\ todo' = todo \ {e} /\ UNCHANGED <<kept, chosen, style>>
           /\ pc = "redact" /\ pc' \in {"redact", "redacted"}
           /\ NumberOf(e) \in Nat
           /\ e.start \in Nat /\ e.end \in Nat /\ e.start < e.end
           /\ e.end <= Len(text) /\ \A i \in 1..e.end : text[i] = Original[i]
           /\ IsCut(text', text, e.start, e.end, Placeholder(e.type, NumberOf(e)))
           /\ \A f \in todo' : f.end <= e.start
<1>1. /\ pc = "redact" /\ pc' \in {"redact", "redacted"} /\ todo' = todo \ {e}
      /\ UNCHANGED <<kept, chosen, style>> /\ Rightmost(e)
      /\ text' = Cut(text, e, Placeholder(e.type, NumberOf(e)))
  BY DEF Replace
<1>2. kept \in Seq(Entities) /\ e \in chosen /\ chosen \subseteq KeptSet /\ todo \subseteq chosen
      /\ text \in Seq(Chars) /\ counts \in [Types -> Nat] /\ LeftAlone
  BY <1>1 DEF IInv, Shape, RInv, Sorts, RedactInv
<1>3. e \in Entities /\ e.type \in Types
  BY <1>2, Apart DEF Entities
<1>4. NumberOf(e) \in Nat
  BY <1>2, <1>3 DEF NumberOf
<1>5. e.start \in Nat /\ e.end \in Nat /\ e.start < e.end
  BY <1>3, Spans, Letters
<1>6. e.end <= Len(text) /\ \A i \in 1..e.end : text[i] = Original[i]
  BY <1>2 DEF LeftAlone
<1>7. IsCut(text', text, e.start, e.end, Placeholder(e.type, NumberOf(e)))
  <2>1. e.start \in 0..Len(text) /\ e.end \in e.start..Len(text)
    BY <1>2, <1>5, <1>6
  <2> QED BY <2>1, <1>1, <1>2, <1>3, <1>4, Holders, Cutting DEF Cut
<1>8. ASSUME NEW f \in todo' PROVE f.end <= e.start
  <2>1. f \in todo /\ f # e /\ f.start <= e.start /\ f \in KeptSet /\ e \in KeptSet
    BY <1>1, <1>2 DEF Rightmost
  <2>2. f \in Entities /\ (f.end <= e.start \/ e.end <= f.start)
    BY <2>1, <1>2, Apart
  <2>3. f.start \in Nat
    BY <2>2, Spans, Letters
  <2> QED BY <2>1, <2>2, <2>3, <1>5
<1> QED BY <1>1, <1>2, <1>3, <1>4, <1>5, <1>6, <1>7, <1>8

(* What is left of the text after a round.                                  *)
LEMMA ReplaceReads ==
    ASSUME IInv, RInv, InOrder(kept), NEW e \in todo, Replace(e)
    PROVE  ReadsWithout(text', Replaced') /\ LeftAlone'
<1> DEFINE a == e.start
           b == e.end
           p == Placeholder(e.type, NumberOf(e))
           d == Len(p) - (b - a)
           S == Replaced
           T == Replaced'
<1>1. /\ text \in Seq(Chars) /\ text' \in Seq(Chars) /\ IsCut(text', text, a, b, p)
      /\ a \in Nat /\ b \in Nat /\ a < b /\ b <= Len(text) /\ b <= Length
      /\ e \in Entities /\ p \in Seq(Chars)
  BY ReplaceFacts, Spans, Letters DEF IsCut
<1>2. T = S \cup {e}
  BY ReplaceFacts DEF Replaced
<1>3. /\ \A i \in InText(text) : \E n \in 1..Length :
            text[i] = Original[n] /\ \A f \in S : ~Covers(f, n)
      /\ \A n \in 1..Length : (\A f \in S : ~Covers(f, n)) =>
            \E i \in 1..Len(text) : text[i] = Original[n]
      /\ \A i, j \in InText(text) : i < j => text[i][3] < text[j][3]
  <2>1. ReadsWithout(text, S)
    BY ReplaceFacts DEF RInv, RedactInv
  <2> QED BY <1>1, <2>1, Reads
<1>4. \A i \in 1..b : /\ text[i] = Original[i] /\ text[i][3] = i
                      /\ i \in InText(text) /\ i \in 1..Length
  <2> SUFFICES ASSUME NEW i \in 1..b
               PROVE  /\ text[i] = Original[i] /\ text[i][3] = i
                      /\ i \in InText(text) /\ i \in 1..Length
    OBVIOUS
  <2>1. text[i] = Original[i] /\ i \in 1..Length /\ i \in 1..Len(text)
    BY <1>1, ReplaceFacts, Letters
  <2> QED BY <2>1, Letters DEF InText
<1>5. \A k \in 1..Len(p) : ~FromText(p[k])
  BY ReplaceFacts, Holders
\* Where the letters of the cut text were.
<1>6. ASSUME NEW j \in InText(text')
      PROVE  \E i \in InText(text) :
                /\ text'[j] = text[i]
                /\ (i = j /\ i <= a) \/ (i = j - d /\ b < i)
  <2>1. j \in 1..Len(text') /\ FromText(text'[j])
    BY DEF InText
  <2>2. \/ j \in 1..a /\ j \in 1..Len(text) /\ text'[j] = text[j]
        \/ j - a \in 1..Len(p) /\ text'[j] = p[j - a]
        \/ /\ j - d \in (b + 1)..Len(text) /\ j - d \in 1..Len(text)
           /\ text'[j] = text[j - d]
    BY <1>1, <2>1, Origin
  <2>3. ~(j - a \in 1..Len(p) /\ text'[j] = p[j - a])
    BY <2>1, <1>5
  <2>4. CASE j \in 1..a /\ j \in 1..Len(text) /\ text'[j] = text[j]
    BY <2>1, <2>4 DEF InText
  <2>5. CASE /\ j - d \in (b + 1)..Len(text) /\ j - d \in 1..Len(text)
             /\ text'[j] = text[j - d]
    <3> DEFINE i == j - d
    <3>1. i \in (b + 1)..Len(text) /\ i \in 1..Len(text) /\ text'[j] = text[i]
      BY <2>5
    <3> HIDE DEF i
    <3>2. i \in InText(text) /\ b < i
      BY <1>1, <2>1, <3>1 DEF InText
    <3> QED BY <3>1, <3>2 DEF i
  <2> QED BY <2>2, <2>3, <2>4, <2>5
<1>7. ASSUME NEW j \in InText(text')
      PROVE  \E n \in 1..Length : text'[j] = Original[n] /\ \A f \in T : ~Covers(f, n)
  <2>1. PICK i \in InText(text) : /\ text'[j] = text[i]
                                  /\ (i = j /\ i <= a) \/ (i = j - d /\ b < i)
    BY <1>6
  <2>2. PICK n \in 1..Length : text[i] = Original[n] /\ \A f \in S : ~Covers(f, n)
    BY <1>3
  <2>3. text[i][3] = n /\ i \in Nat /\ i >= 1
    BY <2>2, Letters DEF InText
  <2>4. ~Covers(e, n)
    <3>1. CASE i <= a
      <4>1. i \in 1..b
        BY <1>1, <2>3, <3>1
      <4>2. n = i
        BY <4>1, <2>3, <1>4
      <4> QED BY <4>2, <3>1, <1>1 DEF Covers
    <3>2. CASE b < i
      <4>1. b \in InText(text) /\ text[b][3] = b
        BY <1>1, <1>4
      <4>2. b < n
        BY <4>1, <3>2, <2>3, <1>3
      <4> QED BY <4>2, <1>1 DEF Covers
    <3> QED BY <2>1, <3>1, <3>2
  <2> QED BY <2>1, <2>2, <2>4, <1>2
<1>8. ASSUME NEW n \in 1..Length, \A f \in T : ~Covers(f, n)
      PROVE  \E j \in 1..Len(text') : text'[j] = Original[n]
  <2>1. ~Covers(e, n) /\ \A f \in S : ~Covers(f, n)
    BY <1>2, <1>8
  <2>2. PICK i \in 1..Len(text) : text[i] = Original[n]
    BY <2>1, <1>3
  <2>3. CASE i <= a
    <3>1. i \in 1..a /\ i \in 1..Len(text')
      BY <2>3, <1>1 DEF IsCut
    <3>2. text'[i] = text[i]
      BY <3>1, <1>1 DEF IsCut
    <3> QED BY <3>1, <3>2, <2>2
  <2>4. CASE a < i /\ i <= b
    <3>1. i \in 1..b
      BY <2>4, <1>1
    <3>2. text[i][3] = i /\ text[i][3] = n
      BY <3>1, <1>4, <2>2, Letters
    <3> QED BY <3>2, <2>1, <2>4 DEF Covers
  <2>5. CASE b < i
    <3>1. i \in (b + 1)..Len(text)
      BY <2>5, <1>1
    <3>2. i + d \in 1..Len(text')
      BY <3>1, <1>1 DEF IsCut
    <3>3. text'[i + d] = text[i]
      BY <3>1, <1>1 DEF IsCut
    <3> QED BY <3>2, <3>3, <2>2
  <2> QED BY <2>3, <2>4, <2>5, <1>1
<1>9. ASSUME NEW j \in InText(text'), NEW l \in InText(text'), j < l
      PROVE  text'[j][3] < text'[l][3]
  <2>1. PICK i \in InText(text) : /\ text'[j] = text[i]
                                  /\ (i = j /\ i <= a) \/ (i = j - d /\ b < i)
    BY <1>6
  <2>2. PICK h \in InText(text) : /\ text'[l] = text[h]
                                  /\ (h = l /\ h <= a) \/ (h = l - d /\ b < h)
    BY <1>6
  <2>3. /\ i \in Int /\ h \in Int /\ j \in Int /\ l \in Int /\ d \in Int
        /\ a \in Nat /\ b \in Nat /\ a < b
        \* What is on the left before is on the left after.
        /\ i <= a => j <= a
    BY <2>1, <2>2, <1>1 DEF InText
  <2>4. i < h
    <3> HIDE DEF d, a, b
    <3>1. CASE i = j /\ i <= a
      BY <3>1, <2>2, <2>3, <1>9
    <3>2. CASE i = j - d /\ b < i
      <4>1. ~(h = l /\ h <= a)
        <5> SUFFICES ASSUME h = l, h <= a PROVE FALSE
          OBVIOUS
        <5>1. Len(p) \in Nat /\ d = Len(p) - (b - a)
          BY <1>1 DEF d
        <5>2. j = i + d /\ a < j
          BY <5>1, <3>2, <2>3
        <5> QED BY <5>2, <2>3, <1>9
      <4> QED BY <4>1, <3>2, <2>2, <2>3, <1>9
    <3> QED BY <2>1, <3>1, <3>2
  <2> QED BY <2>1, <2>2, <2>4, <1>3
<1>10. ReadsWithout(text', T)
  BY <1>1, <1>7, <1>8, <1>9, Reads
<1>11. LeftAlone'
  <2> SUFFICES ASSUME NEW f \in todo'
               PROVE  f.end <= Len(text') /\ \A i \in 1..f.end : text'[i] = Original[i]
    BY DEF LeftAlone, Original
  <2>1. f.end <= a /\ f \in Entities
    BY ReplaceFacts, Apart
  <2>2. f.end \in Nat
    BY <2>1, Spans, Letters
  <2>3. a <= Len(text')
    BY <1>1 DEF IsCut
  <2>4. ASSUME NEW i \in 1..f.end PROVE text'[i] = Original[i]
    <3>1. i \in 1..a /\ i \in 1..b
      BY <2>1, <2>2, <1>1
    <3>2. text'[i] = text[i]
      BY <3>1, <1>1 DEF IsCut
    <3> QED BY <3>1, <3>2, <1>4
  <2> QED BY <2>1, <2>2, <2>3, <2>4, <1>1
<1> QED BY <1>10, <1>11

\* The mappings of a list, none of which is listed twice.
Listed(s) == {s[i] : i \in 1..Len(s)}
NoneTwice(s) == \A i, j \in 1..Len(s) : i # j => s[i] # s[j]

(* A mapping put before the others.                                        *)
LEMMA Prepended ==
    ASSUME NEW s \in Seq(Records), NEW m \in Records,
           NoneTwice(s), m \notin Listed(s)
    PROVE  /\ <<m>> \o s \in Seq(Records)
           /\ Listed(<<m>> \o s) = Listed(s) \cup {m}
           /\ NoneTwice(<<m>> \o s)
<1> DEFINE r == <<m>> \o s
<1>0. Len(s) \in Nat
  OBVIOUS
<1>1. <<m>> \in Seq(Records) /\ Len(<<m>>) = 1 /\ <<m>>[1] = m
  OBVIOUS
<1>2. /\ r \in Seq(Records) /\ Len(r) = 1 + Len(s)
      /\ \A i \in 1..(1 + Len(s)) : r[i] = IF i <= 1 THEN <<m>>[i] ELSE s[i - 1]
  BY <1>1, ConcatProperties
<1> HIDE DEF r
<1>3. r[1] = m /\ 1 \in 1..Len(r)
  BY <1>0, <1>1, <1>2
<1>4. ASSUME NEW i \in 1..Len(r), i # 1 PROVE i - 1 \in 1..Len(s) /\ r[i] = s[i - 1]
  BY <1>0, <1>2, <1>4
<1>5. ASSUME NEW i \in 1..Len(s) PROVE i + 1 \in 1..Len(r) /\ r[i + 1] = s[i]
  <2>1. i + 1 \in 1..Len(r) /\ i + 1 # 1 /\ (i + 1) - 1 = i
    BY <1>0, <1>2
  <2> QED BY <2>1, <1>4
<1>6. Listed(r) = Listed(s) \cup {m}
  <2>1. ASSUME NEW i \in 1..Len(r) PROVE r[i] \in Listed(s) \cup {m}
    BY <1>3, <1>4 DEF Listed
  <2>2. ASSUME NEW i \in 1..Len(s) PROVE s[i] \in Listed(r)
    BY <1>5 DEF Listed
  <2>3. m \in Listed(r)
    BY <1>3 DEF Listed
  <2> QED BY <2>1, <2>2, <2>3 DEF Listed
<1>7. NoneTwice(r)
  <2> SUFFICES ASSUME NEW i \in 1..Len(r), NEW j \in 1..Len(r), i # j PROVE r[i] # r[j]
    BY DEF NoneTwice
  <2>1. CASE i = 1
    <3>1. r[j] \in Listed(s)
      BY <2>1, <1>4 DEF Listed
    <3> QED BY <3>1, <2>1, <1>3
  <2>2. CASE j = 1
    <3>1. r[i] \in Listed(s)
      BY <2>2, <1>4 DEF Listed
    <3> QED BY <3>1, <2>2, <1>3
  <2>3. CASE i # 1 /\ j # 1
    <3>1. i - 1 # j - 1
      BY <1>2
    <3> QED BY <3>1, <2>3, <1>4 DEF NoneTwice
  <2> QED BY <2>1, <2>2, <2>3
<1> QED BY <1>2, <1>6, <1>7 DEF r

(* The first mapping taken away.                                           *)
LEMMA Dropped ==
    ASSUME NEW s \in Seq(Records), NoneTwice(s), s # <<>>
    PROVE  /\ Head(s) \in Listed(s) /\ Tail(s) \in Seq(Records)
           /\ Listed(Tail(s)) = Listed(s) \ {Head(s)}
           /\ NoneTwice(Tail(s))
<1> DEFINE r == Tail(s)
<1>0. Len(s) \in Nat /\ Len(s) >= 1 /\ Head(s) = s[1]
  OBVIOUS
<1>1. /\ r \in Seq(Records) /\ Len(r) = Len(s) - 1
      /\ \A i \in 1..(Len(s) - 1) : r[i] = s[i + 1]
  BY HeadTailProperties
<1> HIDE DEF r
<1>2. ASSUME NEW i \in 1..Len(r) PROVE i + 1 \in 1..Len(s) /\ i + 1 # 1 /\ r[i] = s[i + 1]
  BY <1>0, <1>1
<1>3. ASSUME NEW i \in 1..Len(s), i # 1 PROVE i - 1 \in 1..Len(r) /\ r[i - 1] = s[i]
  <2>1. i - 1 \in 1..Len(r) /\ (i - 1) + 1 = i
    BY <1>0, <1>1, <1>3
  <2> QED BY <2>1, <1>2
<1>4. 1 \in 1..Len(s) /\ \A i \in 1..Len(s) : i # 1 => s[i] # Head(s)
  BY <1>0 DEF NoneTwice
<1>5. Listed(r) = Listed(s) \ {Head(s)}
  <2>1. ASSUME NEW i \in 1..Len(r) PROVE r[i] \in Listed(s) /\ r[i] # Head(s)
    BY <1>2, <1>4 DEF Listed
  <2>2. ASSUME NEW i \in 1..Len(s), s[i] # Head(s) PROVE s[i] \in Listed(r)
    BY <2>2, <1>0, <1>3 DEF Listed
  <2> QED BY <2>1, <2>2 DEF Listed
<1>6. NoneTwice(r)
  <2> SUFFICES ASSUME NEW i \in 1..Len(r), NEW j \in 1..Len(r), i # j PROVE r[i] # r[j]
    BY DEF NoneTwice
  <2>1. i + 1 # j + 1
    OBVIOUS
  <2> QED BY <2>1, <1>2 DEF NoneTwice
<1> QED BY <1>0, <1>1, <1>4, <1>5, <1>6 DEF r, Listed

(* What a round adds to the mappings.                                       *)
LEMMA ReplaceMaps ==
    ASSUME IInv, RInv, InOrder(kept), NEW e \in todo, Replace(e), style = "numbered"
    PROVE  LET m == [type |-> e.type, number |-> NumberOf(e), original |-> Span(e)]
           IN  /\ IsBlocked(e) => NumberOf(e) = 0 /\ Mappings' = Mappings
               /\ ~IsBlocked(e) => /\ NumberOf(e) = counts[e.type] + 1
                                   /\ Mappings' = Mappings \cup {m}
                                   /\ MappingOf(m, e)
               /\ \A n \in Mappings : /\ n.type \in Types /\ n.number \in 1..counts[n.type]
                                      /\ n.type # e.type \/ n.number # NumberOf(e)
               /\ OneEach'
<1> DEFINE m == [type |-> e.type, number |-> NumberOf(e), original |-> Span(e)]
<1>1. /\ mappings \in Seq(Records) /\ counts \in [Types -> Nat] /\ OneEach
      /\ e \in Entities /\ e \in KeptSet /\ e.type \in Types /\ NumberOf(e) \in Nat
      /\ chosen \subseteq KeptSet /\ kept \in Seq(Entities)
  BY ReplaceFacts DEF RInv, Sorts, RedactInv, Numbered
<1>2. /\ Mappings = Listed(mappings) /\ Mappings' = Listed(mappings') /\ NoneTwice(mappings)
      /\ Mappings \subseteq Records
  BY <1>1 DEF Mappings, Listed, NoneTwice, OneEach
<1>3. /\ counts' = [counts EXCEPT ![e.type] = IF IsBlocked(e) THEN counts[e.type] ELSE NumberOf(e)]
      /\ IsBlocked(e) => mappings' = mappings
      /\ ~IsBlocked(e) => mappings' = <<m>> \o mappings
  BY DEF Replace, Span
<1>4. /\ IsBlocked(e) => NumberOf(e) = 0
      /\ ~IsBlocked(e) => NumberOf(e) = counts[e.type] + 1
  BY DEF NumberOf
<1>5. \A n \in Mappings : /\ n.type \in Types /\ n.number \in 1..counts[n.type]
                          /\ n.type # e.type \/ n.number # NumberOf(e)
  <2> SUFFICES ASSUME NEW n \in Mappings
               PROVE  /\ n.type \in Types /\ n.number \in 1..counts[n.type]
                      /\ n.type # e.type \/ n.number # NumberOf(e)
    OBVIOUS
  <2>1. n.type \in Types /\ n.number \in 1..counts[n.type]
    BY <1>1, <1>2 DEF Records, OneEach
  <2>2. counts[n.type] \in Nat /\ counts[e.type] \in Nat
    BY <2>1, <1>1
  <2>3. n.type = e.type => n.number # NumberOf(e)
    BY <2>1, <2>2, <1>4
  <2> QED BY <2>1, <2>3
<1>6. m \in Records /\ m.type = e.type /\ m.number = NumberOf(e) /\ m.original = Span(e)
  BY <1>1, Spans DEF Records
<1> HIDE DEF m
<1>7. ~IsBlocked(e) => MappingOf(m, e)
  BY <1>6 DEF MappingOf
<1>8. \A n \in Mappings : n.original # m.original /\ (n.type # m.type \/ n.number # m.number)
  <2> SUFFICES ASSUME NEW n \in Mappings PROVE n.original # m.original
    BY <1>5, <1>6
  <2>1. PICK f \in Replaced : MappingOf(n, f)
    BY <1>1 DEF OneEach
  <2>2. f # e /\ f \in KeptSet
    BY <2>1, <1>1 DEF Replaced
  <2>3. Span(f) # Span(e)
    BY <2>2, <1>1, Apart DEF RInv
  <2> QED BY <2>1, <2>3, <1>6 DEF MappingOf
<1>9. ~IsBlocked(e) => Mappings' = Mappings \cup {m} /\ NoneTwice(mappings')
  BY <1>2, <1>3, <1>1, <1>6, <1>8, Prepended
<1>10. IsBlocked(e) => Mappings' = Mappings /\ NoneTwice(mappings')
  BY <1>2, <1>3
<1>11. OneEach'
  <2>0. Replaced' = Replaced \cup {e}
    BY ReplaceFacts DEF Replaced
  <2>1. \A t \in Types : counts'[t] \in Nat /\ counts[t] \in Nat /\ counts[t] <= counts'[t]
    <3> SUFFICES ASSUME NEW t \in Types
                 PROVE  counts'[t] \in Nat /\ counts[t] \in Nat /\ counts[t] <= counts'[t]
      OBVIOUS
    <3>1. CASE t = e.type
      <4>1. counts'[t] = IF IsBlocked(e) THEN counts[e.type] ELSE NumberOf(e)
        BY <3>1, <1>1, <1>3
      <4> QED BY <4>1, <3>1, <1>1, <1>4
    <3>2. CASE t # e.type
      BY <3>2, <1>1, <1>3
    <3> QED BY <3>1, <3>2
  <2>2. ASSUME NEW n \in Mappings'
        PROVE  (\E f \in Replaced' : MappingOf(n, f)) /\ n.number \in 1..counts'[n.type]
    <3>1. CASE n \in Mappings
      <4>1. \E f \in Replaced : MappingOf(n, f)
        BY <3>1, <1>1 DEF OneEach
      <4>2. n.number \in 1..counts[n.type] /\ n.type \in Types
        BY <3>1, <1>5
      <4>3. n.number \in 1..counts'[n.type]
        BY <4>2, <2>1
      <4> QED BY <4>1, <4>3, <2>0
    <3>2. CASE n = m /\ ~IsBlocked(e)
      <4>1. counts'[e.type] = NumberOf(e)
        BY <3>2, <1>1, <1>3
      <4>2. n.number = NumberOf(e) /\ n.type = e.type /\ counts[e.type] \in Nat
        BY <3>2, <1>6, <1>1
      <4>3. n.number \in 1..counts'[n.type]
        BY <4>1, <4>2, <3>2, <1>4
      <4> QED BY <4>3, <3>2, <1>7, <2>0
    <3> QED BY <3>1, <3>2, <1>9, <1>10
  <2>3. ASSUME NEW n \in Mappings', NEW o \in Mappings', n # o
        PROVE  n.original # o.original /\ (n.type # o.type \/ n.number # o.number)
    <3>1. CASE n \in Mappings /\ o \in Mappings
      BY <3>1, <2>3, <1>1 DEF OneEach
    <3>2. CASE n = m /\ o \in Mappings
      BY <3>2, <1>8
    <3>3. CASE n \in Mappings /\ o = m
      BY <3>3, <1>8
    <3> QED BY <3>1, <3>2, <3>3, <2>3, <1>9, <1>10
  <2>4. NoneTwice(mappings')
    BY <1>9, <1>10
  <2> QED BY <2>2, <2>3, <2>4 DEF OneEach, NoneTwice
<1> QED BY <1>4, <1>5, <1>7, <1>9, <1>10, <1>11 DEF m

(* The mappings tell the placeholders apart after a round as before.        *)
LEMMA ReplaceNumbered ==
    ASSUME IInv, RInv, InOrder(kept), NEW e \in todo, Replace(e), style = "numbered"
    PROVE  Numbered' /\ Replaced' \subseteq Gone(text', Mappings', Replaced')
<1> DEFINE a == e.start
           b == e.end
           x == NumberOf(e)
           p == Placeholder(e.type, x)
           d == Len(p) - (b - a)
           m == [type |-> e.type, number |-> x, original |-> Span(e)]
           M == Mappings
           N == Mappings'
           S == Replaced
           T == Replaced'
<1>1. /\ text \in Seq(Chars) /\ text' \in Seq(Chars) /\ IsCut(text', text, a, b, p)
      /\ a \in Nat /\ b \in Nat /\ a < b /\ b <= Len(text) /\ b \in 1..Length
      /\ e \in Entities /\ p \in Seq(Chars) /\ x \in Nat /\ e.type \in Types
      /\ Len(p) = PlaceholderLen /\ PlaceholderLen \in Nat /\ PlaceholderLen > 0
      /\ kept \in Seq(Entities) /\ chosen \subseteq KeptSet
  <2>1. /\ IsCut(text', text, a, b, p) /\ a \in Nat /\ b \in Nat /\ a < b /\ b <= Len(text)
        /\ e \in Entities /\ x \in Nat /\ e.type \in Types
        /\ kept \in Seq(Entities) /\ chosen \subseteq KeptSet
    BY ReplaceFacts
  <2>2. text \in Seq(Chars) /\ text' \in Seq(Chars) /\ p \in Seq(Chars)
    BY <2>1 DEF IsCut
  <2>3. b \in 1..Length
    BY <2>1, Spans
  <2>4. Len(p) = PlaceholderLen /\ PlaceholderLen \in Nat /\ PlaceholderLen > 0
    BY <2>1, Holders, TextAssumption
  <2> QED BY <2>1, <2>2, <2>3, <2>4
<1>2. /\ T = S \cup {e} /\ e \notin S /\ S \subseteq KeptSet /\ e \in KeptSet
  BY ReplaceFacts DEF Replaced
<1>3. /\ OneEach /\ Known(text, M) /\ InOnePiece(text, M) /\ Once(text, M)
      /\ InPlace(text, M, S) /\ S \subseteq Gone(text, M, S)
  BY ReplaceFacts DEF RInv, RedactInv, Numbered
<1>4. /\ IsBlocked(e) => x = 0 /\ N = M
      /\ ~IsBlocked(e) => x = counts[e.type] + 1 /\ N = M \cup {m} /\ MappingOf(m, e)
      /\ \A n \in M : /\ n.type \in Types /\ n.number \in 1..counts[n.type]
                      /\ n.type # e.type \/ n.number # x
      /\ OneEach'
  BY ReplaceMaps
<1>5. m.type = e.type /\ m.number = x
  OBVIOUS
<1> HIDE DEF m
<1>6. \A i \in 1..b : text[i] = Original[i] /\ FromText(text[i]) /\ text[i][3] = i
  BY <1>1, ReplaceFacts, Letters
<1>7. ASSUME NEW k \in 1..Len(p)
      PROVE  p[k] = <<e.type, x, k>> /\ p[k][1] = e.type /\ p[k][2] = x /\ p[k][3] = k
             /\ ~FromText(p[k])
  <2>1. p[k] = <<e.type, x, k>> /\ ~FromText(p[k])
    BY <1>1, Holders
  <2>2. p[k][1] = e.type /\ p[k][2] = x /\ p[k][3] = k
    BY ONLY <2>1, Triple
  <2> QED BY <2>1, <2>2
<1>8. \A k \in 1..Len(p), n \in M : ~IsPart(p[k], n)
  BY <1>4, <1>7 DEF IsPart
<1>9. \A c, n : FromText(c) /\ n \in M => ~IsPart(c, n)
  BY <1>4, TextAssumption DEF FromText, IsPart
<1>10. \A i \in (a + 1)..b, n \in M : ~IsPart(text[i], n)
  <2>1. \A i \in (a + 1)..b : i \in 1..b
    BY <1>1
  <2> QED BY <2>1, <1>6, <1>9
<1>11. InOnePiece(text', M) /\ Once(text', M)
  BY <1>1, <1>3, <1>8, <1>10, PiecesKept
\* A number given out now is on no placeholder yet.
<1>12. ~IsBlocked(e) => \A i \in 1..Len(text) : ~IsPart(text[i], m)
  <2> SUFFICES ASSUME ~IsBlocked(e), NEW i \in 1..Len(text), IsPart(text[i], m) PROVE FALSE
    OBVIOUS
  <2>1. text[i][1] = e.type /\ text[i][2] = x
    BY <1>5 DEF IsPart
  <2>2. counts[e.type] \in Nat
    BY <1>1 DEF RInv, Sorts
  <2>3. ~FromText(text[i]) /\ text[i][2] # 0
    BY <2>1, <2>2, <1>1, <1>4, TextAssumption DEF FromText
  <2>4. PICK n \in M : IsPart(text[i], n)
    BY <2>3, <1>3 DEF Known
  <2> QED BY <2>1, <2>4, <1>4 DEF IsPart
<1>13. ASSUME NEW j \in 1..Len(text')
       PROVE  \/ j \in 1..a /\ j \in 1..Len(text) /\ text'[j] = text[j]
              \/ j - a \in 1..Len(p) /\ text'[j] = p[j - a]
              \/ /\ j - d \in (b + 1)..Len(text) /\ j - d \in 1..Len(text)
                 /\ text'[j] = text[j - d]
  <2>1. IsCut(text', text, a, b, p) /\ j \in 1..Len(text')
    BY <1>1
  <2> QED BY ONLY <2>1, Origin
<1>14. Known(text', N)
  <2> SUFFICES ASSUME NEW j \in 1..Len(text'), ~FromText(text'[j]), text'[j][2] # 0
               PROVE  \E n \in N : IsPart(text'[j], n)
    BY DEF Known
  <2>1. M \subseteq N
    BY <1>4
  <2>2. ASSUME NEW i \in 1..Len(text), text'[j] = text[i]
        PROVE  \E n \in N : IsPart(text'[j], n)
    BY <2>1, <2>2, <1>3 DEF Known
  <2>3. ASSUME NEW k \in 1..Len(p), text'[j] = p[k]
        PROVE  \E n \in N : IsPart(text'[j], n)
    <3>1. text'[j][1] = e.type /\ text'[j][2] = x
      BY <2>3, <1>7
    <3>2. m \in N
      BY <3>1, <1>4
    <3> QED BY <3>1, <3>2, <1>5 DEF IsPart
  <2> QED BY <2>2, <2>3, <1>13
\* Where the placeholder of the new mapping is.
<1>15. ASSUME ~IsBlocked(e), NEW j \in 1..Len(text'), IsPart(text'[j], m)
       PROVE  j - a \in 1..Len(p) /\ text'[j] = p[j - a] /\ j - text'[j][3] = a
  <2>1. j - a \in 1..Len(p) /\ text'[j] = p[j - a]
    BY <1>12, <1>13, <1>15
  <2>2. text'[j][3] = j - a
    BY <2>1, <1>7
  <2> QED BY <2>1, <2>2, <1>1
<1>16. InOnePiece(text', N)
  <2> SUFFICES ASSUME NEW j \in 1..Len(text'), NEW n \in N, IsPart(text'[j], n)
               PROVE  /\ text'[j][3] \in 1..PlaceholderLen
                      /\ j - text'[j][3] \in 0..(Len(text') - PlaceholderLen)
                      /\ \A k \in 1..PlaceholderLen :
                            text'[j - text'[j][3] + k] = <<n.type, n.number, k>>
    BY DEF InOnePiece
  <2>1. CASE n \in M
    BY <2>1, <1>11 DEF InOnePiece
  <2>2. CASE n = m /\ ~IsBlocked(e)
    <3>1. j - a \in 1..Len(p) /\ text'[j] = p[j - a] /\ j - text'[j][3] = a
      BY <2>2, <1>15
    <3>2. text'[j][3] \in 1..PlaceholderLen
      BY <3>1, <1>1, <1>7
    <3>3. a \in 0..(Len(text') - PlaceholderLen)
      BY <1>1 DEF IsCut
    <3>4. ASSUME NEW k \in 1..PlaceholderLen PROVE text'[a + k] = <<n.type, n.number, k>>
      <4>1. text'[a + k] = p[k]
        BY <1>1 DEF IsCut
      <4> QED BY <4>1, <1>1, <1>5, <1>7, <2>2
    <3> QED BY <3>1, <3>2, <3>3, <3>4
  <2> QED BY <2>1, <2>2, <1>4
<1>17. Once(text', N)
  <2> SUFFICES ASSUME NEW j \in 1..Len(text'), NEW l \in 1..Len(text'), NEW n \in N,
                      IsPart(text'[j], n), IsPart(text'[l], n)
               PROVE  j - text'[j][3] = l - text'[l][3]
    BY DEF Once
  <2>1. CASE n \in M
    BY <2>1, <1>11 DEF Once
  <2>2. CASE n = m /\ ~IsBlocked(e)
    BY <2>2, <1>15
  <2> QED BY <2>1, <2>2, <1>4
\* What the characters of the new text stand for.
<1>18. ASSUME NEW n \in M, MappingOf(n, e) PROVE FALSE
  <2>1. PICK f \in S : MappingOf(n, f)
    BY <1>3 DEF OneEach
  <2>2. Span(f) = Span(e) /\ f \in KeptSet
    BY <2>1, <1>2, <1>18 DEF MappingOf
  <2> QED BY <2>2, <1>1, <1>2, Apart
<1>19. ASSUME NEW i \in 1..Len(text) PROVE Place(text[i], N, T) \subseteq Place(text[i], M, S)
  <2>1. CASE FromText(text[i])
    BY <2>1 DEF Place
  <2>2. CASE ~FromText(text[i])
    <3>1. ASSUME NEW f \in T, NEW n \in N, IsPart(text[i], n), MappingOf(n, f)
          PROVE  f \in S /\ n \in M
      <4>1. n \in M
        BY <3>1, <1>4, <1>12
      <4> QED BY <4>1, <3>1, <1>2, <1>18
    <3> QED BY <2>2, <3>1 DEF Place
  <2> QED BY <2>1, <2>2
<1>20. ASSUME NEW k \in 1..Len(p), NEW u \in Place(p[k], N, T)
       PROVE  u = <<a, b>>
  <2>1. PICK f \in T : (\E n \in N : IsPart(p[k], n) /\ MappingOf(n, f)) /\ u = <<f.start, f.end>>
    BY <1>7 DEF Place
  <2>2. PICK n \in N : IsPart(p[k], n) /\ MappingOf(n, f)
    BY <2>1
  <2>3. n = m /\ ~IsBlocked(e)
    BY <2>2, <1>4, <1>8
  <2>4. Span(f) = Span(e) /\ f \in KeptSet
    BY <2>2, <2>3, <1>2, <1>4 DEF MappingOf
  <2>5. f = e
    BY <2>4, <1>1, <1>2, Apart
  <2> QED BY <2>1, <2>5
<1>21. Place(text[b], M, S) = {<<b - 1, b>>} /\ ~SameWord(text[b], text[b])
  BY <1>1, <1>6 DEF Place, SameWord
<1>22. InPlace(text', N, T)
  <2> SUFFICES ASSUME NEW j \in 1..Len(text'), NEW l \in 1..Len(text'), j < l,
                      NEW u \in Place(text'[j], N, T), NEW v \in Place(text'[l], N, T)
               PROVE  u[2] <= v[1] \/ SameWord(text'[j], text'[l])
    BY DEF InPlace
  <2>1. ASSUME NEW i \in 1..Len(text), NEW h \in 1..Len(text), i < h,
               text'[j] = text[i], text'[l] = text[h]
        PROVE  u[2] <= v[1] \/ SameWord(text'[j], text'[l])
    BY <2>1, <1>3, <1>19 DEF InPlace
  <2>2. CASE j \in 1..a /\ j \in 1..Len(text) /\ text'[j] = text[j]
    <3>1. CASE l \in 1..a /\ l \in 1..Len(text) /\ text'[l] = text[l]
      BY <2>1, <2>2, <3>1
    <3>2. CASE l - a \in 1..Len(p) /\ text'[l] = p[l - a]
      <4>1. v = <<a, b>>
        BY <3>2, <1>20
      <4>2. v[1] = a
        BY <4>1
      <4>3. j \in 1..b
        BY <2>2, <1>1
      <4>4. Place(text[j], M, S) = {<<j - 1, j>>}
        BY <4>3, <1>6 DEF Place
      <4>5. u = <<j - 1, j>>
        BY <4>4, <2>2, <1>19
      <4>6. u[2] = j
        BY <4>5
      <4> QED BY <4>2, <4>6, <2>2
    <3>3. CASE /\ l - d \in (b + 1)..Len(text) /\ l - d \in 1..Len(text)
               /\ text'[l] = text[l - d]
      <4>1. j < l - d
        BY <2>2, <3>3, <1>1
      <4> QED BY <4>1, <2>1, <2>2, <3>3
    <3> QED BY <3>1, <3>2, <3>3, <1>13
  <2>3. CASE j - a \in 1..Len(p) /\ text'[j] = p[j - a]
    <3>1. CASE l \in 1..a
      BY <3>1, <2>3, <1>1
    <3>2. CASE l - a \in 1..Len(p) /\ text'[l] = p[l - a]
      BY <2>3, <3>2, <1>7 DEF SameWord
    <3>3. CASE /\ l - d \in (b + 1)..Len(text) /\ l - d \in 1..Len(text)
               /\ text'[l] = text[l - d]
      <4> DEFINE h == l - d
      <4>1. h \in (b + 1)..Len(text) /\ h \in 1..Len(text) /\ text'[l] = text[h]
        BY <3>3
      <4> HIDE DEF h
      <4>2. v \in Place(text[h], M, S) /\ <<b - 1, b>> \in Place(text[b], M, S)
            /\ b \in 1..Len(text) /\ b < h
        <5>1. v \in Place(text[h], M, S)
          BY <4>1, <1>19
        <5>2. b \in 1..Len(text) /\ b < h
          BY <4>1, <1>1
        <5> QED BY <5>1, <5>2, <1>21
      <4>3. <<b - 1, b>>[2] <= v[1] \/ SameWord(text[b], text[h])
        BY <4>1, <4>2, <1>3 DEF InPlace
      <4>4. b <= v[1]
        <5>1. b \in 1..b
          BY <1>1
        <5>2. ~SameWord(text[b], text[h])
          BY <5>1, <1>6 DEF SameWord
        <5>3. <<b - 1, b>>[2] = b
          OBVIOUS
        <5> QED BY <4>3, <5>2, <5>3
      <4>5. u = <<a, b>>
        BY <2>3, <1>20
      <4> QED BY <4>4, <4>5
    <3> QED BY <3>1, <3>2, <3>3, <1>13
  <2>4. CASE /\ j - d \in (b + 1)..Len(text) /\ j - d \in 1..Len(text)
             /\ text'[j] = text[j - d]
    <3>0. l \notin 1..a /\ ~(l - a \in 1..Len(p))
      BY <2>4, <1>1
    <3>1. CASE /\ l - d \in (b + 1)..Len(text) /\ l - d \in 1..Len(text)
               /\ text'[l] = text[l - d]
      <4>1. j - d < l - d
        BY <1>1
      <4> QED BY <4>1, <2>1, <2>4, <3>1
    <3> QED BY <3>0, <3>1, <1>13
  <2> QED BY <2>2, <2>3, <2>4, <1>13
<1>23. T \subseteq Gone(text', N, T)
  <2> SUFFICES ASSUME NEW f \in T, ~IsBlocked(f)
               PROVE  \E n \in N, j \in 1..Len(text') : MappingOf(n, f) /\ IsPart(text'[j], n)
    BY DEF Gone
  <2>1. CASE f = e
    <3>1. 1 \in 1..Len(p) /\ a + 1 \in 1..Len(text') /\ text'[a + 1] = p[1]
      <4>1. 1 \in 1..Len(p) /\ a + 1 \in 1..Len(text')
        BY <1>1 DEF IsCut
      <4>2. text'[a + 1] = p[1]
        BY <4>1, <1>1 DEF IsCut
      <4> QED BY <4>1, <4>2
    <3>2. IsPart(text'[a + 1], m)
      BY <3>1, <1>5, <1>7 DEF IsPart
    <3> QED BY <2>1, <3>1, <3>2, <1>4
  <2>2. CASE f \in S
    <3>1. PICK n \in M, i \in 1..Len(text) : MappingOf(n, f) /\ IsPart(text[i], n)
      BY <2>2, <1>3 DEF Gone
    <3>2. i \notin 1..b
      BY <3>1, <1>6, <1>9
    <3>3. i \in (b + 1)..Len(text) /\ i + d \in 1..Len(text')
      BY <3>2, <1>1 DEF IsCut
    <3>4. text'[i + d] = text[i]
      BY <3>3, <1>1 DEF IsCut
    <3>5. n \in N
      BY <1>4
    <3> QED BY <3>1, <3>3, <3>4, <3>5
  <2> QED BY <2>1, <2>2, <1>2
<1> QED BY <1>4, <1>14, <1>16, <1>17, <1>22, <1>23 DEF Numbered

-----------------------------------------------------------------------------
(* unredact                                                                 *)

(* A placeholder occurs where its characters stand one after the other.     *)
LEMMA Occurrence ==
    ASSUME text \in Seq(Chars), NEW m \in Records
    PROVE  \A i : i \in Occurrences(m) <=>
              /\ i \in 1..(Len(text) - PlaceholderLen + 1)
              /\ \A k \in 1..PlaceholderLen : text[i - 1 + k] = <<m.type, m.number, k>>
<1> DEFINE p == Placeholder(m.type, m.number)
           Pl == PlaceholderLen
<1>1. /\ m.type \in Types /\ m.number \in Nat /\ Pl \in Nat /\ Pl > 0
      /\ Len(text) \in Nat
  BY TextAssumption DEF Records
<1>2. /\ p \in Seq(Chars) /\ Len(p) = Pl
      /\ \A k \in 1..Pl : p[k] = <<m.type, m.number, k>>
  BY <1>1, Holders
<1> HIDE DEF p
<1> SUFFICES ASSUME NEW i \in 1..(Len(text) - Pl + 1)
             PROVE  SubSeq(text, i, i + Pl - 1) = p <=>
                        \A k \in 1..Pl : text[i - 1 + k] = <<m.type, m.number, k>>
  BY DEF Occurrences, p
<1> DEFINE s == SubSeq(text, i, i + Pl - 1)
<1>3. /\ s \in Seq(Chars) /\ Len(s) = Pl
      /\ \A k \in 1..Pl : s[k] = text[i - 1 + k]
  <2>1. i \in Int /\ i + Pl - 1 \in Int
    BY <1>1
  <2>2. \A n \in i..(i + Pl - 1) : text[n] \in Chars
    <3>1. \A n \in i..(i + Pl - 1) : n \in 1..Len(text)
      BY <1>1
    <3> QED BY <3>1
  <2>3. /\ s \in Seq(Chars)
        /\ Len(s) = IF i <= i + Pl - 1 THEN (i + Pl - 1) - i + 1 ELSE 0
        /\ \A k \in 1..((i + Pl - 1) - i + 1) : s[k] = text[i + k - 1]
    BY <2>1, <2>2, SubSeqProperties
  <2> HIDE DEF s
  <2>4. Len(s) = Pl
    BY <2>3, <1>1
  <2>5. ASSUME NEW k \in 1..Pl PROVE s[k] = text[i - 1 + k]
    <3>1. k \in 1..((i + Pl - 1) - i + 1) /\ i + k - 1 = i - 1 + k
      BY <1>1
    <3> QED BY <3>1, <2>3
  <2> QED BY <2>3, <2>4, <2>5
<1> HIDE DEF s
<1>4. ASSUME s = p PROVE \A k \in 1..Pl : text[i - 1 + k] = <<m.type, m.number, k>>
  BY <1>2, <1>3, <1>4
<1>5. ASSUME \A k \in 1..Pl : text[i - 1 + k] = <<m.type, m.number, k>> PROVE s = p
  <2>1. \A k \in 1..Len(s) : s[k] = p[k]
    BY <1>2, <1>3, <1>5
  <2> QED BY <2>1, <1>2, <1>3, SeqEqual
<1> QED BY <1>4, <1>5 DEF s

(* When unredact begins, everything chosen is out of the text.              *)
LEMMA StillOut ==
    ASSUME RInv, InOrder(kept), style = "numbered", pc \in {"redacted", "unredact"}
    PROVE  /\ ReadsWithout(text, Gone(text, Mappings, Replaced))
           /\ Numbered
<1>1. Gone(text, Mappings, Replaced) \subseteq Replaced
  BY DEF Gone
<1>2. CASE pc = "redacted"
  <2>1. Replaced \subseteq Gone(text, Mappings, Replaced) /\ ReadsWithout(text, Replaced)
    BY <1>2 DEF RInv, RedactInv
  <2>2. Replaced = Gone(text, Mappings, Replaced)
    BY <1>1, <2>1
  <2> QED BY <2>1, <2>2 DEF RInv, RedactInv
<1>3. CASE pc = "unredact"
  BY <1>3 DEF RInv, RedactInv
<1> QED BY <1>2, <1>3

(* Putting one original back: where, and what is there.                     *)
LEMMA PutBackCuts ==
    ASSUME RInv, InOrder(kept), PutBack
    PROVE  \E a \in Nat :
              /\ Head(mappings) \in Mappings /\ Head(mappings) \in Records
              /\ a + PlaceholderLen <= Len(text)
              /\ IsCut(text', text, a, a + PlaceholderLen, Head(mappings).original)
              /\ \A k \in 1..PlaceholderLen :
                    text[a + k] = <<Head(mappings).type, Head(mappings).number, k>>
<1> DEFINE m == Head(mappings)
           Pl == PlaceholderLen
<1>1. text \in Seq(Chars) /\ mappings \in Seq(Records) /\ mappings # <<>>
      /\ Pl \in Nat /\ Pl > 0
  BY TextAssumption DEF RInv, Sorts, PutBack
<1>2. m \in Records /\ m \in Mappings
  BY <1>1 DEF Mappings
<1>3. PICK i \in Occurrences(m) :
          text' = SubSeq(text, 1, i - 1) \o m.original \o SubSeq(text, i + Pl, Len(text))
  BY DEF PutBack
<1> HIDE DEF m
<1>4. /\ i \in 1..(Len(text) - Pl + 1)
      /\ \A k \in 1..Pl : text[i - 1 + k] = <<m.type, m.number, k>>
  BY <1>1, <1>2, <1>3, Occurrence
<1>5. /\ i - 1 \in 0..Len(text) /\ i - 1 + Pl \in (i - 1)..Len(text) /\ i - 1 \in Nat
      /\ i - 1 + Pl <= Len(text) /\ i - 1 + Pl + 1 = i + Pl
  BY <1>1, <1>4
<1>6. m.original \in Seq(Chars)
  BY <1>2 DEF Records
<1>7. IsCut(text', text, i - 1, i - 1 + Pl, m.original)
  BY <1>1, <1>3, <1>5, <1>6, Cutting
<1> QED BY <1>2, <1>4, <1>5, <1>7 DEF m

(* Letters in their places come in their order.                             *)
LEMMA LettersInPlace ==
    ASSUME NEW t \in Seq(Chars), NEW M, NEW D, InPlace(t, M, D),
           NEW j \in InText(t), NEW l \in InText(t), j < l
    PROVE  t[j][3] < t[l][3]
<1>1. /\ j \in 1..Len(t) /\ l \in 1..Len(t) /\ FromText(t[j]) /\ FromText(t[l])
      /\ t[j] \in Chars /\ t[l] \in Chars
  BY DEF InText
<1> DEFINE x == t[j][3]
           y == t[l][3]
<1>2. <<x - 1, x>> \in Place(t[j], M, D) /\ <<y - 1, y>> \in Place(t[l], M, D)
  BY <1>1 DEF Place
<1>3. <<x - 1, x>>[2] <= <<y - 1, y>>[1] \/ SameWord(t[j], t[l])
  BY <1>1, <1>2 DEF InPlace
<1>4. x \in Nat /\ y \in Nat /\ ~SameWord(t[j], t[l])
  BY <1>1, CharFields DEF SameWord
<1> HIDE DEF x, y
<1>5. x <= y - 1
  BY <1>3, <1>4
<1>6. x < y
  BY <1>4, <1>5
<1> QED BY <1>6 DEF x, y

(* What was put back is in its own place, and everything else stays.        *)
LEMMA PutBackNumbered ==
    ASSUME IInv, RInv, InOrder(kept), style = "numbered", PutBack
    PROVE  Numbered' /\ ReadsWithout(text', Gone(text', Mappings', Replaced'))
<1> DEFINE m == Head(mappings)
           Pl == PlaceholderLen
           M == Mappings
           D == Replaced
           G == Gone(text, M, D)
           H == Gone(text', M, D)
<1>1. /\ mappings' = mappings /\ Mappings' = M /\ Replaced' = D /\ counts' = counts
      /\ chosen \subseteq KeptSet /\ kept \in Seq(Entities) /\ M \subseteq Records
      /\ Pl \in Nat /\ Pl > 0
  BY TextAssumption DEF PutBack, Mappings, Replaced, RInv, Sorts, IInv, Shape
<1>2. /\ ReadsWithout(text, G) /\ OneEach /\ Known(text, M) /\ InOnePiece(text, M)
      /\ Once(text, M) /\ InPlace(text, M, D)
  BY StillOut DEF Numbered, PutBack
<1>3. PICK a \in Nat :
              /\ m \in M /\ m \in Records
              /\ a + Pl <= Len(text)
              /\ IsCut(text', text, a, a + Pl, m.original)
              /\ \A k \in 1..Pl : text[a + k] = <<m.type, m.number, k>>
  BY PutBackCuts
<1> DEFINE b == a + Pl
<1>4. PICK e \in D : MappingOf(m, e)
  BY <1>2, <1>3 DEF OneEach
<1> HIDE DEF m
<1> DEFINE w == e.end - e.start
           d == w - (b - a)
<1>5. /\ e \in Entities /\ e \in KeptSet /\ m.original = Span(e) /\ ~IsBlocked(e)
      /\ D \subseteq KeptSet
  BY <1>1, <1>4, Apart DEF MappingOf, Replaced
<1>6. /\ e.start \in 0..(Length - 1) /\ e.end \in 1..Length /\ e.start < e.end
      /\ e.start \in Nat /\ e.end \in Nat /\ w \in Nat /\ w > 0 /\ Length \in Nat
      /\ Len(m.original) = w
      /\ \A k \in 1..w : m.original[k] = Original[e.start + k]
  <2>1. /\ e.start \in 0..(Length - 1) /\ e.end \in 1..Length /\ e.start < e.end
        /\ Len(Span(e)) = w /\ Length \in Nat
        /\ \A k \in 1..w : Span(e)[k] = Original[e.start + k]
    BY <1>5, Spans, Letters
  <2>2. e.start \in Nat /\ e.end \in Nat /\ w \in Nat /\ w > 0
    BY <2>1
  <2> HIDE DEF w
  <2> QED BY <2>1, <2>2, <1>5
<1>7. /\ text \in Seq(Chars) /\ text' \in Seq(Chars) /\ IsCut(text', text, a, b, m.original)
      /\ a \in Nat /\ b \in Nat /\ a < b /\ b <= Len(text) /\ Len(text) \in Nat
      /\ Len(text') = Len(text) + d
  <2>1. IsCut(text', text, a, b, m.original)
    BY <1>3
  <2>2. /\ text \in Seq(Chars) /\ text' \in Seq(Chars)
        /\ Len(text') = Len(text) + (Len(m.original) - (b - a))
    BY ONLY <2>1 DEF IsCut
  <2>3. Len(text) \in Nat
    BY ONLY <2>2
  <2>4. b \in Nat /\ a < b /\ b <= Len(text)
    BY ONLY <1>1, <1>3, a \in Nat
  <2>5. Len(text') = Len(text) + d
    BY ONLY <2>2, <1>6
  <2> QED BY ONLY <2>1, <2>2, <2>3, <2>4, <2>5, a \in Nat
<1>8. ASSUME NEW k \in 1..w
      PROVE  /\ m.original[k] = Original[e.start + k] /\ e.start + k \in 1..Length
             /\ FromText(m.original[k]) /\ m.original[k][3] = e.start + k
             /\ a + k \in 1..Len(text') /\ text'[a + k] = m.original[k]
  <2>1. e.start + k \in 1..Length /\ a + k \in 1..Len(text')
    <3>1. e.start + k \in 1..Length
      BY <1>6
    <3>2. Len(text') = Len(text) + (w - (b - a)) /\ w \in Nat
      BY <1>6, <1>7
    <3> HIDE DEF w
    <3>3. a + k \in 1..Len(text')
      BY <3>2, <1>7
    <3> QED BY <3>1, <3>3
  <2>2. text'[a + k] = m.original[k]
    BY <1>6, <1>7 DEF IsCut
  <2> QED BY <2>1, <2>2, <1>6, Letters
\* The characters cut out are the placeholder, and it is nowhere else.
<1>9. ASSUME NEW i \in (a + 1)..b
      PROVE  /\ text[i] = <<m.type, m.number, i - a>> /\ IsPart(text[i], m)
             /\ text[i][3] = i - a /\ ~FromText(text[i]) /\ i \in 1..Len(text)
  <2>1. i - a \in 1..Pl /\ a + (i - a) = i /\ i \in 1..Len(text)
    BY <1>1, <1>7
  <2>2. text[i] = <<m.type, m.number, i - a>>
    BY <2>1, <1>3
  <2>3. text[i][1] = m.type /\ text[i][2] = m.number /\ text[i][3] = i - a
    BY ONLY <2>2, Triple
  <2>4. m.type \in Types
    BY <1>3 DEF Records
  <2> QED BY <2>1, <2>2, <2>3, <2>4, TextAssumption DEF IsPart, FromText
<1>10. ASSUME NEW i \in 1..Len(text), IsPart(text[i], m) PROVE i \in (a + 1)..b
  <2>1. a + 1 \in (a + 1)..b /\ a + 1 \in 1..Len(text)
    BY <1>7
  <2>2. text[a + 1][3] = (a + 1) - a /\ IsPart(text[a + 1], m)
    BY <2>1, <1>9
  <2>3. i - text[i][3] = (a + 1) - text[a + 1][3] /\ text[i][3] \in 1..Pl
    BY <2>1, <2>2, <1>2, <1>3, <1>10 DEF Once, InOnePiece
  <2> QED BY <2>2, <2>3, <1>1, <1>7
<1>11. ASSUME NEW n \in M, n # m, NEW c, IsPart(c, m), IsPart(c, n) PROVE FALSE
  BY <1>2, <1>3, <1>11 DEF OneEach, IsPart
<1>12. \A c, n : FromText(c) /\ n \in M => ~IsPart(c, n)
  BY <1>1, TextAssumption DEF FromText, IsPart, Records
<1>13. ASSUME NEW j \in 1..Len(text')
       PROVE  \/ j \in 1..a /\ j \in 1..Len(text) /\ text'[j] = text[j]
              \/ j - a \in 1..w /\ text'[j] = m.original[j - a]
              \/ /\ j - d \in (b + 1)..Len(text) /\ j - d \in 1..Len(text)
                 /\ text'[j] = text[j - d]
  <2>1. IsCut(text', text, a, b, m.original) /\ Len(m.original) = w
    BY <1>6, <1>7
  <2> QED BY <2>1, Origin
<1>14. ASSUME NEW i \in 1..Len(text), i \notin (a + 1)..b
       PROVE  \E j \in 1..Len(text') : text'[j] = text[i]
  <2>1. CASE i \in 1..a
    <3>1. i \in 1..Len(text') /\ text'[i] = text[i]
      BY <2>1, <1>6, <1>7 DEF IsCut
    <3> QED BY <3>1
  <2>2. CASE i \in (b + 1)..Len(text)
    <3>1. i + d \in 1..Len(text')
      BY <2>2, <1>6, <1>7
    <3>2. text'[i + d] = text[i]
      BY <2>2, <1>6, <1>7 DEF IsCut
    <3> QED BY <3>1, <3>2
  <2> QED BY <2>1, <2>2, <1>7, <1>14
<1>15. ASSUME NEW j \in 1..Len(text') PROVE ~IsPart(text'[j], m)
  <2> SUFFICES ASSUME IsPart(text'[j], m) PROVE FALSE
    OBVIOUS
  <2>1. CASE j \in 1..a /\ j \in 1..Len(text) /\ text'[j] = text[j]
    <3>1. j \in (a + 1)..b
      BY <2>1, <1>10
    <3> QED BY <3>1, <2>1, <1>7
  <2>2. CASE j - a \in 1..w /\ text'[j] = m.original[j - a]
    BY <2>2, <1>3, <1>8, <1>12
  <2>3. CASE /\ j - d \in (b + 1)..Len(text) /\ j - d \in 1..Len(text)
             /\ text'[j] = text[j - d]
    <3> DEFINE i == j - d
    <3>1. i \in (b + 1)..Len(text) /\ i \in 1..Len(text) /\ text'[j] = text[i]
      BY <2>3
    <3> HIDE DEF i
    <3>2. i \in (a + 1)..b
      BY <3>1, <1>10
    <3> QED BY <3>1, <3>2, <1>7
  <2> QED BY <2>1, <2>2, <2>3, <1>13
\* The other placeholders.
<1>16. InOnePiece(text', M) /\ Once(text', M)
  <2> DEFINE N == M \ {m}
  <2>1. InOnePiece(text, N) /\ Once(text, N)
    BY <1>2 DEF InOnePiece, Once
  <2>2. \A i \in (a + 1)..b, n \in N : ~IsPart(text[i], n)
    BY <1>9, <1>11
  <2>3. \A k \in 1..Len(m.original), n \in N : ~IsPart(m.original[k], n)
    BY <1>6, <1>8, <1>12
  <2>4. InOnePiece(text', N) /\ Once(text', N)
    BY <2>1, <2>2, <2>3, <1>7, PiecesKept
  <2>5. \A j \in 1..Len(text'), n \in M : IsPart(text'[j], n) => n \in N
    BY <1>15
  <2> QED BY <2>4, <2>5 DEF InOnePiece, Once
<1>17. Known(text', M)
  <2> SUFFICES ASSUME NEW j \in 1..Len(text'), ~FromText(text'[j]), text'[j][2] # 0
               PROVE  \E n \in M : IsPart(text'[j], n)
    BY DEF Known
  <2>1. ASSUME NEW i \in 1..Len(text), text'[j] = text[i]
        PROVE  \E n \in M : IsPart(text'[j], n)
    BY <2>1, <1>2 DEF Known
  <2>2. ~(j - a \in 1..w /\ text'[j] = m.original[j - a])
    BY <1>8
  <2> QED BY <2>1, <2>2, <1>13
<1>18. <<e.start, e.end>> \in Place(text[a + 1], M, D)
       /\ <<e.start, e.end>> \in Place(text[b], M, D)
       /\ a + 1 \in (a + 1)..b /\ b \in (a + 1)..b
  <2>1. a + 1 \in (a + 1)..b /\ b \in (a + 1)..b
    BY <1>7
  <2>2. ASSUME NEW i \in (a + 1)..b PROVE <<e.start, e.end>> \in Place(text[i], M, D)
    <3>1. ~FromText(text[i]) /\ IsPart(text[i], m) /\ MappingOf(m, e) /\ m \in M /\ e \in D
      BY <1>3, <1>4, <1>9
    <3> QED BY <3>1 DEF Place
  <2> QED BY <2>1, <2>2
<1>19. ASSUME NEW i \in 1..Len(text), i \notin (a + 1)..b, NEW h \in (a + 1)..b
       PROVE  ~SameWord(text[i], text[h]) /\ ~SameWord(text[h], text[i])
  <2>1. ~IsPart(text[i], m) /\ IsPart(text[h], m)
    BY <1>9, <1>10, <1>19
  <2> QED BY <2>1 DEF SameWord, IsPart
<1>20. ASSUME NEW k \in 1..w, NEW u \in Place(m.original[k], M, D)
       PROVE  u = <<(e.start + k) - 1, e.start + k>>
  <2> DEFINE x == m.original[k][3]
             y == e.start + k
  <2>1. u = <<x - 1, x>>
    BY <1>8 DEF Place
  <2>2. x = y
    BY <1>8
  <2> HIDE DEF x, y
  <2>3. u = <<y - 1, y>>
    BY ONLY <2>1, <2>2
  <2> QED BY <2>3 DEF y
<1>21. InPlace(text', M, D)
  <2> SUFFICES ASSUME NEW j \in 1..Len(text'), NEW l \in 1..Len(text'), j < l,
                      NEW u \in Place(text'[j], M, D), NEW v \in Place(text'[l], M, D)
               PROVE  u[2] <= v[1] \/ SameWord(text'[j], text'[l])
    BY DEF InPlace
  <2>1. ASSUME NEW i \in 1..Len(text), NEW h \in 1..Len(text), i < h,
               text'[j] = text[i], text'[l] = text[h]
        PROVE  u[2] <= v[1] \/ SameWord(text'[j], text'[l])
    BY <2>1, <1>2 DEF InPlace
  <2>2. CASE j \in 1..a /\ j \in 1..Len(text) /\ text'[j] = text[j]
    <3>1. CASE l \in 1..a /\ l \in 1..Len(text) /\ text'[l] = text[l]
      BY <2>1, <2>2, <3>1
    <3>2. CASE l - a \in 1..w /\ text'[l] = m.original[l - a]
      <4>1. j < a + 1 /\ a + 1 \in 1..Len(text) /\ j \notin (a + 1)..b
        BY <2>2, <1>7
      <4>2. u[2] <= <<e.start, e.end>>[1] \/ SameWord(text[j], text[a + 1])
        BY <4>1, <2>2, <1>2, <1>18 DEF InPlace
      <4>3. u[2] <= e.start
        BY <4>1, <4>2, <2>2, <1>18, <1>19
      <4> DEFINE k == l - a
      <4>4. k \in 1..w /\ v = <<(e.start + k) - 1, e.start + k>>
        BY <3>2, <1>20
      <4> HIDE DEF k
      <4>5. v[1] = (e.start + k) - 1
        BY <4>4
      <4>6. e.start <= v[1]
        BY <4>4, <4>5, <1>6
      <4>7. u[2] \in Int
        <5>1. CASE FromText(text[j])
          <6>1. u = <<text[j][3] - 1, text[j][3]>> /\ text[j] \in Chars
            BY <5>1, <2>2, <1>7 DEF Place
          <6>2. u[2] = text[j][3] /\ text[j][3] \in Nat
            BY <6>1, CharFields
          <6> QED BY <6>2
        <5>2. CASE ~FromText(text[j])
          <6>1. PICK f \in D : u = <<f.start, f.end>>
            BY <5>2, <2>2 DEF Place
          <6>2. f.end \in Int /\ u[2] = f.end
            BY <6>1, <1>1, <1>5, Apart, Spans
          <6> QED BY <6>2
        <5> QED BY <5>1, <5>2
      <4> QED BY <4>3, <4>5, <4>6, <4>7, <4>4, <1>6
    <3>3. CASE /\ l - d \in (b + 1)..Len(text) /\ l - d \in 1..Len(text)
               /\ text'[l] = text[l - d]
      <4>1. j < l - d
        BY <2>2, <3>3, <1>7
      <4> QED BY <4>1, <2>1, <2>2, <3>3
    <3> QED BY <3>1, <3>2, <3>3, <1>13
  <2>3. CASE j - a \in 1..w /\ text'[j] = m.original[j - a]
    <3> DEFINE k == j - a
    <3>0. k \in 1..w /\ u = <<(e.start + k) - 1, e.start + k>> /\ u[2] = e.start + k
      BY <2>3, <1>20
    <3>1. CASE l \in 1..a
      BY <3>1, <2>3, <1>7
    <3>2. CASE l - a \in 1..w /\ text'[l] = m.original[l - a]
      <4> DEFINE n == l - a
      <4>1. n \in 1..w /\ v = <<(e.start + n) - 1, e.start + n>> /\ v[1] = (e.start + n) - 1
        BY <3>2, <1>20
      <4>2. k < n
        BY <2>3, <3>2, <1>7
      <4> HIDE DEF k, n
      <4> QED BY <3>0, <4>1, <4>2, <1>6
    <3>3. CASE /\ l - d \in (b + 1)..Len(text) /\ l - d \in 1..Len(text)
               /\ text'[l] = text[l - d]
      <4> DEFINE h == l - d
      <4>1. h \in (b + 1)..Len(text) /\ h \in 1..Len(text) /\ text'[l] = text[h]
        BY <3>3
      <4> HIDE DEF h
      <4>2. b < h /\ b \in 1..Len(text) /\ h \notin (a + 1)..b
        BY <4>1, <1>7
      <4>3. <<e.start, e.end>>[2] <= v[1] \/ SameWord(text[b], text[h])
        BY <4>1, <4>2, <1>2, <1>18 DEF InPlace
      <4>4. e.end <= v[1]
        BY <4>1, <4>2, <4>3, <1>18, <1>19
      <4> HIDE DEF k
      <4>5. u[2] <= e.end
        BY <3>0, <1>6
      <4>6. v[1] \in Int
        <5>1. CASE FromText(text[h])
          <6>1. v = <<text[h][3] - 1, text[h][3]>> /\ text[h] \in Chars
            BY <5>1, <4>1, <1>7 DEF Place
          <6>2. v[1] = text[h][3] - 1 /\ text[h][3] \in Nat
            BY <6>1, CharFields
          <6> QED BY <6>2
        <5>2. CASE ~FromText(text[h])
          <6>1. PICK f \in D : v = <<f.start, f.end>>
            BY <5>2, <4>1 DEF Place
          <6>2. f.start \in Int /\ v[1] = f.start
            BY <6>1, <1>1, <1>5, Apart, Spans
          <6> QED BY <6>2
        <5> QED BY <5>1, <5>2
      <4> QED BY <3>0, <4>4, <4>5, <4>6, <1>6
    <3> QED BY <3>1, <3>2, <3>3, <1>13
  <2>4. CASE /\ j - d \in (b + 1)..Len(text) /\ j - d \in 1..Len(text)
             /\ text'[j] = text[j - d]
    <3>0. l \notin 1..a /\ ~(l - a \in 1..w)
      <4>1. j \in Int /\ l \in Int /\ j < l /\ w \in Nat /\ a \in Nat /\ b \in Nat
            /\ b + 1 <= j - (w - (b - a))
        BY <2>4, <1>6, <1>7
      <4> HIDE DEF w, b
      <4>2. a + w < l
        BY ONLY <4>1
      <4> QED BY <4>1, <4>2
    <3>1. CASE /\ l - d \in (b + 1)..Len(text) /\ l - d \in 1..Len(text)
               /\ text'[l] = text[l - d]
      <4>1. j - d < l - d
        BY <1>6, <1>7
      <4> QED BY <4>1, <2>1, <2>4, <3>1
    <3> QED BY <3>0, <3>1, <1>13
  <2> QED BY <2>2, <2>3, <2>4, <1>13
<1>22. OneEach'
  <2>1. OneEach' <=> OneEach
    BY <1>1 DEF OneEach
  <2> QED BY <2>1, <1>2
<1>23. Numbered'
  BY <1>1, <1>16, <1>17, <1>21, <1>22 DEF Numbered
\* What is out of the text now.
<1>24. H \subseteq G /\ e \notin H
  <2>1. ASSUME NEW f \in H PROVE f \in G /\ f # e
    <3>1. CASE IsBlocked(f)
      BY <3>1, <2>1, <1>5 DEF Gone
    <3>2. CASE ~IsBlocked(f)
      <4>1. PICK n \in M, j \in 1..Len(text') : MappingOf(n, f) /\ IsPart(text'[j], n)
        BY <2>1, <3>2 DEF Gone
      <4>2. n # m
        BY <4>1, <1>15
      <4>3. f # e
        BY <4>1, <4>2, <1>2, <1>3, <1>4 DEF OneEach, MappingOf
      <4>4. \E i \in 1..Len(text) : text'[j] = text[i]
        <5>1. ~(j - a \in 1..w /\ text'[j] = m.original[j - a])
          BY <4>1, <1>8, <1>12
        <5> QED BY <5>1, <1>13
      <4> QED BY <4>1, <4>3, <4>4, <2>1 DEF Gone
    <3> QED BY <3>1, <3>2
  <2> QED BY <2>1
<1>25. ASSUME NEW f \in G, f # e PROVE f \in H
  <2>1. CASE IsBlocked(f)
    BY <2>1, <1>25 DEF Gone
  <2>2. CASE ~IsBlocked(f)
    <3>1. PICK n \in M, i \in 1..Len(text) : MappingOf(n, f) /\ IsPart(text[i], n)
      BY <1>25, <2>2 DEF Gone
    <3>2. f \in KeptSet
      BY <1>1, <1>25 DEF Gone, Replaced
    <3>3. n # m
      BY <3>1, <3>2, <1>1, <1>5, <1>25, Apart DEF MappingOf
    <3>4. i \notin (a + 1)..b
      BY <3>1, <3>3, <1>9, <1>11
    <3>5. PICK j \in 1..Len(text') : text'[j] = text[i]
      BY <3>4, <1>14
    <3> QED BY <3>1, <3>5, <1>25 DEF Gone
  <2> QED BY <2>1, <2>2
<1>26. /\ \A i \in InText(text) : \E n \in 1..Length :
             text[i] = Original[n] /\ \A f \in G : ~Covers(f, n)
       /\ \A n \in 1..Length : (\A f \in G : ~Covers(f, n)) =>
             \E i \in 1..Len(text) : text[i] = Original[n]
  BY <1>2, <1>7, Reads
<1>27. ASSUME NEW j \in InText(text')
       PROVE  \E n \in 1..Length : text'[j] = Original[n] /\ \A f \in H : ~Covers(f, n)
  <2>1. j \in 1..Len(text') /\ FromText(text'[j])
    BY DEF InText
  <2>2. ASSUME NEW i \in 1..Len(text), text'[j] = text[i]
        PROVE  \E n \in 1..Length : text'[j] = Original[n] /\ \A f \in H : ~Covers(f, n)
    <3>1. i \in InText(text)
      BY <2>1, <2>2 DEF InText
    <3> QED BY <3>1, <2>2, <1>24, <1>26
  <2>3. CASE j - a \in 1..w /\ text'[j] = m.original[j - a]
    <3> DEFINE k == j - a
    <3>1. k \in 1..w /\ text'[j] = m.original[k]
      BY <2>3
    <3> HIDE DEF k
    <3>2. text'[j] = Original[e.start + k] /\ e.start + k \in 1..Length
      BY <3>1, <1>8
    <3>3. ASSUME NEW f \in H PROVE ~Covers(f, e.start + k)
      <4>1. f \in KeptSet /\ f # e
        BY <1>1, <1>24 DEF Gone, Replaced
      <4>2. f \in Entities /\ (f.end <= e.start \/ e.end <= f.start)
        BY <4>1, <1>1, <1>5, Apart
      <4>3. f.end \in Nat /\ f.start \in Nat /\ e.start + k <= e.end /\ e.start < e.start + k
        BY <4>2, <3>1, <1>6, Spans
      <4> QED BY <4>2, <4>3, <1>6, <3>1 DEF Covers
    <3> QED BY <3>2, <3>3
  <2> QED BY <2>1, <2>2, <2>3, <1>13
<1>28. ASSUME NEW n \in 1..Length, \A f \in H : ~Covers(f, n)
       PROVE  \E j \in 1..Len(text') : text'[j] = Original[n]
  <2>1. CASE Covers(e, n)
    <3> DEFINE k == n - e.start
    <3>1. k \in 1..w /\ e.start + k = n
      BY <2>1, <1>6 DEF Covers
    <3> HIDE DEF k
    <3> QED BY <3>1, <1>8
  <2>2. CASE ~Covers(e, n)
    <3>1. \A f \in G : ~Covers(f, n)
      BY <2>2, <1>25, <1>28
    <3>2. PICK i \in 1..Len(text) : text[i] = Original[n]
      BY <3>1, <1>26
    <3>3. FromText(text[i])
      BY <3>2, Letters
    <3>4. i \notin (a + 1)..b
      BY <3>3, <1>9
    <3> QED BY <3>2, <3>4, <1>14
  <2> QED BY <2>1, <2>2
<1>29. ASSUME NEW j \in InText(text'), NEW l \in InText(text'), j < l
       PROVE  text'[j][3] < text'[l][3]
  BY <1>29, <1>21, <1>7, LettersInPlace
<1>30. ReadsWithout(text', H)
  BY <1>7, <1>27, <1>28, <1>29, Reads
<1> QED BY <1>1, <1>23, <1>30

(* A mapping is passed over once its placeholder is nowhere in the text.    *)
LEMMA NextMappingNumbered ==
    ASSUME IInv, RInv, InOrder(kept), style = "numbered", NextMapping
    PROVE  Numbered' /\ ReadsWithout(text', Gone(text', Mappings', Replaced'))
<1> DEFINE m == Head(mappings)
           M == Mappings
           N == Mappings'
           D == Replaced
<1>1. /\ mappings' = Tail(mappings) /\ mappings # <<>> /\ Occurrences(m) = {}
      /\ UNCHANGED <<text, chosen, todo, counts>> /\ Replaced' = D
      /\ mappings \in Seq(Records) /\ text \in Seq(Chars)
  BY DEF NextMapping, Replaced, RInv, Sorts
<1>2. /\ ReadsWithout(text, Gone(text, M, D)) /\ OneEach /\ Known(text, M)
      /\ InOnePiece(text, M) /\ Once(text, M) /\ InPlace(text, M, D)
  BY StillOut DEF Numbered, NextMapping
<1>3. M = Listed(mappings) /\ N = Listed(mappings') /\ NoneTwice(mappings)
  BY <1>2 DEF Mappings, Listed, NoneTwice, OneEach
<1>4. m \in M /\ m \in Records /\ N = M \ {m} /\ NoneTwice(mappings')
  <2>1. m \in M /\ N = M \ {m} /\ NoneTwice(mappings')
    BY <1>1, <1>3, Dropped
  <2>2. m \in Records
    BY <1>1
  <2> QED BY <2>1, <2>2
<1> HIDE DEF m
<1>5. ASSUME NEW i \in 1..Len(text), IsPart(text[i], m) PROVE FALSE
  <2> DEFINE c == i - text[i][3]
  <2>1. /\ c \in 0..(Len(text) - PlaceholderLen)
        /\ \A k \in 1..PlaceholderLen : text[c + k] = <<m.type, m.number, k>>
    BY <1>2, <1>4, <1>5 DEF InOnePiece
  <2> HIDE DEF c
  <2>2. c + 1 \in 1..(Len(text) - PlaceholderLen + 1) /\ (c + 1) - 1 = c
    BY <2>1, <1>1, TextAssumption
  <2>3. c + 1 \in Occurrences(m)
    BY <2>1, <2>2, <1>1, <1>4, Occurrence
  <2> QED BY <2>3, <1>1
<1>6. OneEach'
  <2>1. \A n \in N : (\E f \in D : MappingOf(n, f)) /\ n.number \in 1..counts[n.type]
    BY <1>2, <1>4 DEF OneEach
  <2>2. \A n, o \in N : n # o => /\ n.original # o.original
                                 /\ n.type # o.type \/ n.number # o.number
    BY <1>2, <1>4 DEF OneEach
  <2>3. \A q, r \in 1..Len(mappings') : q # r => mappings'[q] # mappings'[r]
    BY <1>4 DEF NoneTwice
  <2> QED BY <2>1, <2>2, <2>3, <1>1 DEF OneEach
<1>7. Known(text, N)
  BY <1>2, <1>4, <1>5 DEF Known
<1>8. InOnePiece(text, N) /\ Once(text, N)
  BY <1>2, <1>4 DEF InOnePiece, Once
<1>9. \A c : Place(c, N, D) \subseteq Place(c, M, D)
  BY <1>4 DEF Place
<1>10. InPlace(text, N, D)
  BY <1>2, <1>9 DEF InPlace
<1>11. Gone(text, N, D) = Gone(text, M, D)
  BY <1>4, <1>5 DEF Gone
<1>12. text' = text /\ Replaced' = D
  BY <1>1
<1> QED BY <1>2, <1>6, <1>7, <1>8, <1>10, <1>11, <1>12 DEF Numbered

-----------------------------------------------------------------------------
(* All of it.                                                               *)

(* The original reads as itself.                                            *)
LEMMA NothingReplaced ==
    /\ ReadsWithout(Original, {})
    /\ Known(Original, {}) /\ InOnePiece(Original, {}) /\ Once(Original, {})
    /\ \A D : InPlace(Original, {}, D)
<1>1. /\ Original \in Seq(Chars) /\ Len(Original) = Length /\ Length \in Nat
      /\ \A n \in 1..Length : FromText(Original[n]) /\ Original[n][3] = n
  BY Letters
<1>2. InText(Original) = 1..Length
  BY <1>1 DEF InText
<1>3. ReadsWithout(Original, {})
  BY <1>1, <1>2, Reads
<1>4. ASSUME NEW D PROVE InPlace(Original, {}, D)
  <2> SUFFICES ASSUME NEW i \in 1..Length, NEW j \in 1..Length, i < j,
                      NEW u \in Place(Original[i], {}, D),
                      NEW v \in Place(Original[j], {}, D)
               PROVE  u[2] <= v[1]
    BY <1>1 DEF InPlace
  <2>1. u = <<Original[i][3] - 1, Original[i][3]>> /\ v = <<Original[j][3] - 1, Original[j][3]>>
    BY <1>1 DEF Place
  <2>2. u[2] = Original[i][3] /\ v[1] = Original[j][3] - 1
    BY <2>1
  <2>3. u[2] = i /\ v[1] = j - 1
    BY <2>2, <1>1
  <2> QED BY <2>3
<1>5. Known(Original, {}) /\ InOnePiece(Original, {}) /\ Once(Original, {})
  BY <1>1 DEF Known, InOnePiece, Once
<1> QED BY <1>3, <1>4, <1>5

(* Before the redactor begins there is nothing to show.                     *)
LEMMA BeforeRedaction ==
    ASSUME text' = Original, mappings' = <<>>, chosen' = {}, todo' = {},
           pc' \in {"detect", "detected", "classified"}
    PROVE  RedactInv'
<1>1. Mappings' = {} /\ Replaced' = {}
  BY DEF Mappings, Replaced
<1>2. OneEach'
  BY <1>1 DEF OneEach
<1>3. Numbered'
  BY <1>1, <1>2, NothingReplaced DEF Numbered
<1> QED BY <1>3 DEF RedactInv

(* A text that has just come satisfies the invariant.                      *)
LEMMA RInit == Init => RInv
<1> SUFFICES ASSUME Init PROVE RInv
  OBVIOUS
<1>1. /\ text = Original /\ mappings = <<>> /\ chosen = {} /\ todo = {}
      /\ pc = "detect" /\ counts \in [Types -> Nat]
  BY DEF Init
<1>2. Mappings = {} /\ Replaced = {}
  BY <1>1 DEF Mappings, Replaced
<1>3. OneEach
  BY <1>1, <1>2 DEF OneEach
<1>4. Numbered
  BY <1>1, <1>2, <1>3, NothingReplaced DEF Numbered
<1>5. Sorts
  BY <1>1, Letters DEF Sorts
<1> QED BY <1>1, <1>4, <1>5 DEF RInv, RedactInv

(* Detection and the level of the text leave the text alone.                *)
LEMMA EarlySteps ==
    ASSUME IInv, RInv,
           \/ \E e \in rest : KeepBeside(e) \/ KeepInstead(e) \/ LeaveOut(e)
           \/ Detected
           \/ \E user \in SUBSET (0..3), words \in 0..3 : Classify(user, words)
    PROVE  RInv'
<1>1. /\ pc \in {"detect", "detected"} /\ pc' \in {"detect", "detected", "classified"}
      /\ UNCHANGED <<text, mappings, chosen, todo, counts>>
  BY DEF KeepBeside, KeepInstead, LeaveOut, Next1, Detected, Classify
<1>2. /\ text' = Original /\ mappings' = <<>> /\ chosen' = {} /\ todo' = {}
      /\ counts' \in [Types -> Nat]
  BY <1>1 DEF RInv, Sorts
<1>3. Sorts'
  BY <1>1, <1>2, Letters DEF Sorts
<1> QED BY <1>1, <1>2, <1>3, BeforeRedaction DEF RInv

(* redact chooses what goes out; nothing is out of the text yet.           *)
LEMMA RedactStep ==
    ASSUME IInv, RInv, NEW min \in Thresholds, NEW filter \in Filters,
           NEW s \in {"numbered", "typed"}, Redact(min, filter, s)
    PROVE  RInv'
<1>1. /\ pc = "detected" /\ todo' = chosen' /\ chosen' = Chosen(min, filter)
      /\ pc' = IF chosen' = {} THEN "redacted" ELSE "redact"
      /\ UNCHANGED <<kept, text, mappings, counts>>
  BY DEF Redact
<1>2. /\ text' = Original /\ mappings' = <<>> /\ counts' \in [Types -> Nat]
      /\ kept \in Seq(Entities) /\ chosen' \subseteq KeptSet'
  BY <1>1 DEF RInv, Sorts, Chosen, KeptSet, IInv, Shape
<1>3. Mappings' = {} /\ Replaced' = {}
  BY <1>1, <1>2 DEF Mappings, Replaced
<1>4. Sorts'
  BY <1>1, <1>2, Letters DEF Sorts
<1>5. LeftAlone'
  <2> SUFFICES ASSUME NEW e \in todo'
               PROVE  e.end <= Len(Original) /\ \A i \in 1..e.end : text'[i] = Original[i]
    BY <1>2 DEF LeftAlone, Original
  <2>1. e \in Entities
    BY <1>1, <1>2 DEF KeptSet
  <2>2. e.end \in 1..Length
    BY <2>1, Spans
  <2>3. e.end <= Len(Original)
    BY <2>2, Letters
  <2> QED BY <2>3, <1>2
<1>6. OneEach'
  BY <1>2, <1>3 DEF OneEach
<1>7. Numbered'
  BY <1>2, <1>3, <1>6, NothingReplaced DEF Numbered
<1>8. ReadsWithout(text', Replaced')
  BY <1>2, <1>3, NothingReplaced
<1> QED BY <1>1, <1>3, <1>4, <1>5, <1>7, <1>8 DEF RInv, RedactInv

(* A round of the redactor keeps the invariant.                            *)
LEMMA ReplaceStep ==
    ASSUME IInv, RInv, NEW e \in todo, Replace(e)
    PROVE  RInv'
<1>1. /\ pc = "redact" /\ UNCHANGED <<kept, chosen, style>> /\ todo' = todo \ {e}
      /\ pc' = IF todo' = {} THEN "redacted" ELSE "redact"
  BY DEF Replace
<1>2. /\ kept \in Seq(Entities) /\ chosen \subseteq KeptSet /\ todo \subseteq chosen
      /\ counts \in [Types -> Nat] /\ mappings \in Seq(Records)
  BY DEF IInv, Shape, RInv, Sorts
<1>3. e \in Entities /\ e.type \in Types /\ NumberOf(e) \in Nat
  <2>1. e \in Entities
    BY <1>2 DEF KeptSet
  <2>2. e.type \in Types
    BY <2>1 DEF Entities
  <2> QED BY <2>1, <2>2, <1>2 DEF NumberOf
<1>4. counts' \in [Types -> Nat]
  BY <1>2, <1>3 DEF Replace
<1>5. mappings' \in Seq(Records)
  <2> DEFINE m == [type |-> e.type, number |-> NumberOf(e), original |-> Span(e)]
  <2>1. m \in Records
    BY <1>3, Spans DEF Records
  <2>2. mappings' = IF IsBlocked(e) THEN mappings ELSE <<m>> \o mappings
    BY DEF Replace, Span
  <2> HIDE DEF m
  <2>3. <<m>> \in Seq(Records)
    BY <2>1
  <2> QED BY <2>2, <2>3, <1>2, ConcatProperties
<1>6. InOrder(kept)' <=> InOrder(kept)
  BY <1>1 DEF InOrder
<1>7. InOrder(kept) => text' \in Seq(Chars)
  BY ReplaceFacts DEF IsCut
<1>8. Sorts'
  BY <1>1, <1>2, <1>4, <1>5, <1>6, <1>7 DEF Sorts, KeptSet
<1>9. RedactInv'
  <2> SUFFICES ASSUME InOrder(kept) PROVE RedactInv'
    BY <1>6 DEF RedactInv
  <2>1. ReadsWithout(text', Replaced') /\ LeftAlone'
    BY ReplaceReads
  <2>2. style' = "numbered" =>
            Numbered' /\ Replaced' \subseteq Gone(text', Mappings', Replaced')
    BY <1>1, ReplaceNumbered
  <2> QED BY <1>1, <2>1, <2>2 DEF RedactInv
<1> QED BY <1>8, <1>9 DEF RInv

(* So does unredact.                                                       *)
LEMMA UnredactSteps ==
    ASSUME IInv, RInv, PutBack \/ NextMapping \/ Unredacted
    PROVE  RInv'
<1>1. /\ UNCHANGED <<kept, chosen, todo, counts, style>> /\ todo = {}
      /\ pc \in {"redacted", "unredact"} /\ pc' \in {"unredact", "done"}
  BY DEF PutBack, NextMapping, Unredacted, RInv, Sorts
<1>2. InOrder(kept)' <=> InOrder(kept)
  BY <1>1 DEF InOrder
<1>3. mappings' \in Seq(Records)
  <2>1. mappings \in Seq(Records)
    BY DEF RInv, Sorts
  <2>2. CASE NextMapping
    BY <2>1, <2>2, HeadTailProperties DEF NextMapping
  <2>3. CASE PutBack \/ Unredacted
    BY <2>1, <2>3 DEF PutBack, Unredacted
  <2> QED BY <2>2, <2>3
<1>4. InOrder(kept) => text' \in Seq(Chars)
  <2>1. CASE PutBack
    BY <2>1, PutBackCuts DEF IsCut
  <2>2. CASE NextMapping \/ Unredacted
    BY <2>2 DEF NextMapping, Unredacted, RInv, Sorts
  <2> QED BY <2>1, <2>2
<1>5. Sorts'
  BY <1>1, <1>2, <1>3, <1>4 DEF RInv, Sorts, KeptSet
<1>6. ASSUME InOrder(kept), style = "numbered"
      PROVE  /\ Numbered' /\ ReadsWithout(text', Gone(text', Mappings', Replaced'))
             /\ pc' = "done" => mappings' = <<>>
  <2>1. CASE PutBack
    BY <2>1, <1>6, PutBackNumbered DEF PutBack
  <2>2. CASE NextMapping
    BY <2>2, <1>6, NextMappingNumbered DEF NextMapping
  <2>3. CASE Unredacted
    <3>1. UNCHANGED <<text, mappings, chosen, todo, counts>> /\ mappings = <<>>
      BY <2>3 DEF Unredacted
    <3>2. Mappings' = Mappings /\ Replaced' = Replaced
      BY <3>1 DEF Mappings, Replaced
    <3>3. Numbered /\ ReadsWithout(text, Gone(text, Mappings, Replaced))
      BY <1>1, <1>6, StillOut
    <3>4. OneEach' <=> OneEach
      BY <3>1, <3>2 DEF OneEach
    <3> QED BY <3>1, <3>2, <3>3, <3>4 DEF Numbered
  <2> QED BY <2>1, <2>2, <2>3
<1>7. RedactInv'
  BY <1>1, <1>2, <1>6 DEF RedactInv
<1> QED BY <1>5, <1>7 DEF RInv

(* Every step keeps the invariant.                                         *)
LEMMA RNext == IInv /\ RInv /\ [Next]_vars => RInv'
<1> SUFFICES ASSUME IInv, RInv, [Next]_vars PROVE RInv'
  OBVIOUS
<1>1. CASE \/ \E e \in rest : KeepBeside(e) \/ KeepInstead(e) \/ LeaveOut(e)
           \/ Detected
           \/ \E user \in SUBSET (0..3), words \in 0..3 : Classify(user, words)
  BY <1>1, EarlySteps
<1>2. CASE \E min \in Thresholds, filter \in Filters,
               s \in {"numbered", "typed"} : Redact(min, filter, s)
  BY <1>2, RedactStep
<1>3. CASE \E e \in todo : Replace(e)
  BY <1>3, ReplaceStep
<1>4. CASE PutBack \/ NextMapping \/ Unredacted
  BY <1>4, UnredactSteps
<1>5. CASE UNCHANGED vars
  <2>1. UNCHANGED <<kept, chosen, todo, counts, style, text, mappings, pc>>
    BY <1>5 DEF vars
  <2>2. Sorts' /\ Mappings' = Mappings /\ Replaced' = Replaced
    BY <2>1 DEF RInv, Sorts, KeptSet, InOrder, Mappings, Replaced
  <2>3. (Numbered' <=> Numbered) /\ (LeftAlone' <=> LeftAlone)
    BY <2>1, <2>2 DEF Numbered, OneEach, LeftAlone, Original
  <2>4. RedactInv'
    BY <2>1, <2>2, <2>3 DEF RInv, RedactInv, InOrder
  <2> QED BY <2>2, <2>4 DEF RInv
<1> QED BY <1>1, <1>2, <1>3, <1>4, <1>5 DEF Next

(* Whatever is kept, as long as it is in order, redaction takes exactly the *)
(* chosen entities out of the text, and unredact puts exactly those that    *)
(* are not blocked back into their places, for texts and placeholders of    *)
(* any length (redactor.py:303-325, :442).                                  *)
THEOREM ExactlyRedacted == Spec => []RedactedExactly
<1>1. RInv => RedactedExactly
  <2> SUFFICES ASSUME RInv, InOrder(kept)
               PROVE  /\ pc = "redacted" => ReadsWithout(text, chosen)
                      /\ (pc = "done" /\ style = "numbered") =>
                            /\ ReadsWithout(text, {e \in chosen : IsBlocked(e)})
                            /\ \A i \in 1..Len(text) :
                                  FromText(text[i]) \/ text[i][2] = 0
    BY DEF RedactedExactly
  <2>1. CASE pc = "redacted"
    <3>1. Replaced = chosen
      BY <2>1 DEF RInv, Sorts, Replaced
    <3> QED BY <3>1, <2>1 DEF RInv, RedactInv
  <2>2. CASE pc = "done" /\ style = "numbered"
    <3>1. Replaced = chosen /\ Mappings = {}
      BY <2>2 DEF RInv, RedactInv, Sorts, Replaced, Mappings
    <3>2. Gone(text, Mappings, Replaced) = {e \in chosen : IsBlocked(e)}
      BY <3>1 DEF Gone
    <3>3. ReadsWithout(text, Gone(text, Mappings, Replaced)) /\ Known(text, Mappings)
      BY <2>2 DEF RInv, RedactInv, Numbered
    <3> QED BY <2>2, <3>1, <3>2, <3>3 DEF Known
  <2> QED BY <2>1, <2>2
<1>2. Spec => [](IInv /\ RInv)
  BY InitInv, NextInv, RInit, RNext, PTL DEF Spec
<1> QED BY <1>1, <1>2, PTL
=============================================================================
