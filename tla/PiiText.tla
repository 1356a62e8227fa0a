------------------------------ MODULE PiiText ------------------------------
(***************************************************************************)
(* One text on its way through privacy/: the detector finds entities in it *)
(* and merges the ones that overlap (detector.py).  From there either the  *)
(* classifier takes a level from what was kept (classifier.py), or the     *)
(* redactor cuts what has to go out of the text and leaves a placeholder,  *)
(* and unredact puts back what may be put back (redactor.py).              *)
(*                                                                         *)
(* A character of the text is its position.  A span is given as in the     *)
(* code, from start up to but without end, counted from 0.                 *)
(***************************************************************************)
EXTENDS Integers, Sequences, FiniteSets

CONSTANTS
    Length,          \* number of characters of the text
    Types,           \* entity types
    LevelOf,         \* ENTITY_SENSITIVITY_MAP: the level of a type
    BlockTypes,      \* entities_to_block
    Finds,           \* the sets of matches considered
    PlaceholderLen,  \* number of characters of a placeholder
    Thresholds,      \* the minimum levels redact is called with
    Filters          \* the type filters it is called with ({}: none)

BlockLevel == 3      \* block_sensitivity
DefaultLevel == 1    \* default_sensitivity

Entities == {e \in [start : 0..(Length - 1), end : 1..Length, type : Types] :
                e.start < e.end}

ASSUME LevelOfAssumption == LevelOf \in [Types -> 0..3]
ASSUME FindsAssumption ==
    \A F \in Finds : F \subseteq Entities /\ IsFiniteSet(F)
\* "text" marks the characters of the text itself, below.
ASSUME TextAssumption ==
    Length \in Nat /\ PlaceholderLen \in Nat \ {0} /\ "text" \notin Types

VARIABLES
    pc,       \* how far the text has come
    engine,   \* _use_regex_fallback: "regex", or "presidio"
    style,    \* RedactionStyle: "numbered" or "typed"
    found,    \* every match in the text
    rest,     \* the matches the loop has not reached
    kept,     \* result of detect
    level,    \* level of the text
    chosen,   \* to_process
    todo,     \* the part of it still in the text
    counts,   \* entity_counters
    text,     \* redacted_text, later the unredacted one
    mappings  \* placeholder and original of each redacted entity, in order

vars == <<pc, engine, style, found, rest, kept, level, chosen, todo, counts,
          text, mappings>>

Level(e) == LevelOf[e.type]
Overlap(e, f) == e.start < f.end /\ f.start < e.end
LastKept == kept[Len(kept)]
Largest(S) == CHOOSE n \in S : \A m \in S : m <= n

\* The text as it came: the character at i is <<"text", 0, i>>, the k-th
\* character of a placeholder <<type, number, k>>.
Original == [i \in 1..Length |-> <<"text", 0, i>>]
Placeholder(t, n) == [k \in 1..PlaceholderLen |-> <<t, n, k>>]

Init ==
    /\ pc = "detect"
    /\ engine \in {"regex", "presidio"}
    /\ style = "numbered"
    /\ found \in Finds
    \* The matches of one pattern never overlap (finditer).
    /\ engine = "regex" =>
           \A e, f \in found : e.type = f.type /\ Overlap(e, f) => e = f
    /\ rest = found
    /\ kept = <<>>
    /\ level = 0
    /\ chosen = {} /\ todo = {}
    /\ counts = [t \in Types |-> 0]
    /\ text = Original
    /\ mappings = <<>>

-----------------------------------------------------------------------------
(* detect *)

\* sort(key=lambda e: (e.start, -e.sensitivity_level)), or by start alone.
Earlier(e, f) ==
    \/ e.start < f.start
    \/ engine = "regex" /\ e.start = f.start /\ Level(e) > Level(f)

Next1(e) ==
    /\ pc = "detect"
    /\ e \in rest
    /\ \A f \in rest : ~Earlier(f, e)
    /\ rest' = rest \ {e}
    /\ UNCHANGED <<pc, engine, style, found, level, chosen, todo, counts,
                   text, mappings>>

(* A bug: an overlap of one character goes unnoticed. *)
TouchesLast(e) == kept # <<>> /\ e.start + 1 < LastKept.end

\* Only the match kept last is compared with: _remove_overlaps.
RunsIntoLast(e) == kept # <<>> /\ e.start < LastKept.end

KeepBeside(e) ==
    /\ Next1(e)
    /\ engine = "regex" => ~RunsIntoLast(e)
    /\ kept' = Append(kept, e)

KeepInstead(e) ==
    /\ Next1(e)
    /\ engine = "regex" /\ RunsIntoLast(e)
    /\ Level(e) > Level(LastKept)
    /\ kept' = [kept EXCEPT ![Len(kept)] = e]

(* A bug: the first of two is kept, whatever their levels. *)
LeaveOutLater(e) ==
    /\ Next1(e)
    /\ engine = "regex" /\ RunsIntoLast(e)
    /\ UNCHANGED kept

LeaveOut(e) ==
    /\ Next1(e)
    /\ engine = "regex" /\ RunsIntoLast(e)
    /\ Level(e) <= Level(LastKept)
    /\ UNCHANGED kept

Detected ==
    /\ pc = "detect" /\ rest = {}
    /\ pc' = "detected"
    /\ UNCHANGED <<engine, style, found, rest, kept, level, chosen, todo,
                   counts, text, mappings>>

-----------------------------------------------------------------------------
(* classify *)

KeptSet == {kept[i] : i \in 1..Len(kept)}
KeptLevels == {Level(e) : e \in KeptSet}

\* user is a set of at most one level the user gave, words the highest level
\* a pattern gave (_check_patterns), 0 if none did.
Classified(user, words) ==
    LET sensitivities == user \cup KeptLevels \cup ({words} \ {0})
    IN  IF sensitivities = {} THEN DefaultLevel ELSE Largest(sensitivities)

Classify(user, words) ==
    /\ pc = "detected"
    /\ level' = Classified(user, words)
    /\ pc' = "classified"
    /\ UNCHANGED <<engine, style, found, rest, kept, chosen, todo, counts,
                   text, mappings>>

-----------------------------------------------------------------------------
(* redact *)

Chosen(min, filter) ==
    {e \in KeptSet : Level(e) >= min /\ (filter # {} => e.type \in filter)}

Redact(min, filter, s) ==
    /\ pc = "detected"
    /\ style' = s
    /\ chosen' = Chosen(min, filter)
    /\ todo' = chosen'
    /\ pc' = IF chosen' = {} THEN "redacted" ELSE "redact"
    /\ UNCHANGED <<engine, found, rest, kept, level, counts, text, mappings>>

IsBlocked(e) == e.type \in BlockTypes \/ Level(e) >= BlockLevel

\* _generate_placeholder: the number of a blocked one stands for "_BLOCKED".
NumberOf(e) ==
    IF IsBlocked(e) \/ style = "typed" THEN 0 ELSE counts[e.type] + 1

(* A bug: the sort without reverse=True. *)
Leftmost(e) == \A f \in todo : e.start <= f.start

Rightmost(e) == \A f \in todo : f.start <= e.start

Cut(s, e, p) == SubSeq(s, 1, e.start) \o p \o SubSeq(s, e.end + 1, Len(s))

Replace(e) ==
    /\ pc = "redact"
    /\ e \in todo /\ Rightmost(e)
    /\ todo' = todo \ {e}
    /\ text' = Cut(text, e, Placeholder(e.type, NumberOf(e)))
    /\ counts' = [counts EXCEPT ![e.type] =
                     IF IsBlocked(e) THEN @ ELSE NumberOf(e)]
    /\ mappings' =
           IF IsBlocked(e) THEN mappings
           ELSE <<[type |-> e.type, number |-> NumberOf(e),
                   original |-> SubSeq(Original, e.start + 1, e.end)]>>
                    \o mappings
    /\ pc' = IF todo' = {} THEN "redacted" ELSE "redact"
    /\ UNCHANGED <<engine, style, found, rest, kept, level, chosen>>

-----------------------------------------------------------------------------
(* unredact: the mappings in order, every occurrence of a placeholder *)

Occurrences(m) ==
    {i \in 1..(Len(text) - PlaceholderLen + 1) :
        SubSeq(text, i, i + PlaceholderLen - 1) =
            Placeholder(m.type, m.number)}

PutBack ==
    /\ pc = "redacted" \/ pc = "unredact"
    /\ mappings # <<>>
    /\ Occurrences(Head(mappings)) # {}
    /\ \E i \in Occurrences(Head(mappings)) :
           text' = SubSeq(text, 1, i - 1) \o Head(mappings).original
                     \o SubSeq(text, i + PlaceholderLen, Len(text))
    /\ pc' = "unredact"
    /\ UNCHANGED <<engine, style, found, rest, kept, level, chosen, todo,
                   counts, mappings>>

NextMapping ==
    /\ pc = "redacted" \/ pc = "unredact"
    /\ mappings # <<>>
    /\ Occurrences(Head(mappings)) = {}
    /\ mappings' = Tail(mappings)
    /\ pc' = "unredact"
    /\ UNCHANGED <<engine, style, found, rest, kept, level, chosen, todo,
                   counts, text>>

Unredacted ==
    /\ pc = "redacted" \/ pc = "unredact"
    /\ mappings = <<>>
    /\ pc' = "done"
    /\ UNCHANGED <<engine, style, found, rest, kept, level, chosen, todo,
                   counts, text, mappings>>

-----------------------------------------------------------------------------
Next ==
    \/ \E e \in rest : KeepBeside(e) \/ KeepInstead(e) \/ LeaveOut(e)
    \/ Detected
    \/ \E user \in SUBSET (0..3), words \in 0..3 :
           Cardinality(user) <= 1 /\ Classify(user, words)
    \/ \E min \in Thresholds, filter \in Filters, s \in {"numbered", "typed"} :
           Redact(min, filter, s)
    \/ \E e \in todo : Replace(e)
    \/ PutBack
    \/ NextMapping
    \/ Unredacted

Spec == Init /\ [][Next]_vars

-----------------------------------------------------------------------------
\* Entities that do not overlap, from left to right.
InOrder(s) == \A i, j \in 1..Len(s) : i < j => s[i].end <= s[j].start

(* Although the loop compares a match only with the one kept last, and lets
   the kept one be replaced, no two matches it keeps overlap: a replacement
   starts no earlier than what it replaces (detector.py:300). *)
KeptApart == engine = "regex" => InOrder(kept)

(* The level of a text is at least the level of everything found in it, also
   of what the merging left out: a match is only ever given up for one that
   is at least as sensitive (detector.py:315, classifier.py:307). *)
LevelOfAll ==
    pc = "classified" => \A e \in found : Level(e) <= level

FromText(c) == c[1] = "text"
InText(t) == {i \in 1..Len(t) : FromText(t[i])}
Covers(e, n) == e.start < n /\ n <= e.end

\* t, without the placeholders in it, is the original without S.
ReadsWithout(t, S) ==
    /\ {t[i] : i \in InText(t)} =
           {Original[n] : n \in {m \in 1..Length : \A e \in S : ~Covers(e, m)}}
    /\ \A i, j \in InText(t) : i < j => t[i][3] < t[j][3]

(* What leaves is the text without exactly the chosen entities: the offsets
   of the original stay right as long as the text is cut from the right and
   what is cut out does not overlap (redactor.py:303-325).  Put back, with
   numbered placeholders, everything but the blocked entities is in its own
   place, and no placeholder of another kind is left over (redactor.py:442). *)
RedactedExactly ==
    InOrder(kept) =>
        /\ pc = "redacted" => ReadsWithout(text, chosen)
        /\ (pc = "done" /\ style = "numbered") =>
              /\ ReadsWithout(text, {e \in chosen : IsBlocked(e)})
              /\ \A i \in 1..Len(text) : FromText(text[i]) \/ text[i][2] = 0
=============================================================================
