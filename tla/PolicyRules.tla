---------------------------- MODULE PolicyRules ----------------------------
(***************************************************************************)
(* The rule evaluator: PolicyEngine and load_policies of core/policies.py,  *)
(* the defaults it ships, and what the privacy firewall                     *)
(* (privacy/firewall.py) makes of the answer.                               *)
(*                                                                         *)
(* A condition left out matches everything: no bound is 0 or 3, no tag,     *)
(* provider or source condition the empty set, no time window 0 to 24.      *)
(* A memory is judged by its level, its tags and its source; the level is   *)
(* the classifier's (see ChatGateway), always within 0..3.                  *)
(***************************************************************************)
EXTENDS Integers, Sequences

CONSTANTS
    Local,          \* the provider that never leaves the machine, "ollama"
    Providers, Sources,
    Health, Finance,    \* the tags the shipped rules name
    OtherTags,
    CustomIds       \* what users call their own rules

Levels    == 0..3
Tags      == Health \cup Finance \cup OtherTags
Actions   == {"PERMIT", "REDACT", "BLOCK", "CONSENT_REQUIRED"}
ShippedIds == {"block-level3-cloud", "consent-level3", "block-level2-cloud",
               "redact-level1-names", "block-health-cloud", "block-finance-cloud",
               "permit-level0"}
Ids       == ShippedIds \cup CustomIds
Judged    == [level : Levels, tags : SUBSET Tags, source : Sources]

(* Rules of a policy file have a priority of at most 1000; loading may raise *)
(* one above another.                                                       *)
MaxPriority == 1000
Rule == [id : Ids, priority : 0..MaxPriority+1, enabled : BOOLEAN,
         min : Levels, max : Levels,
         include : SUBSET Tags, exclude : SUBSET Tags,
         providerIs : SUBSET Providers, providerNot : SUBSET Providers,
         sourceIs : SUBSET Sources, sourceNot : SUBSET Sources,
         start : 0..24, end : 0..24, action : Actions]

FileRule == {r \in Rule : r.priority <= MaxPriority}

ASSUME RulesAssumption == Local \in Providers

(* A rule with conditions on the level, the tags and the provider only.     *)
Scoped(id, priority, min, max, include, providerNot, action) ==
    [id |-> id, priority |-> priority, enabled |-> TRUE, min |-> min, max |-> max,
     include |-> include, exclude |-> {}, providerIs |-> {}, providerNot |-> providerNot,
     sourceIs |-> {}, sourceNot |-> {}, start |-> 0, end |-> 24, action |-> action]

BlockLevel3   == Scoped("block-level3-cloud", 90, 3, 3, {}, {Local}, "BLOCK")
ConsentLevel3 == Scoped("consent-level3", 100, 3, 3, {}, {}, "CONSENT_REQUIRED")
BlockLevel2   == Scoped("block-level2-cloud", 80, 2, 3, {}, {Local}, "BLOCK")
RedactLevel1  == Scoped("redact-level1-names", 50, 1, 1, {}, {}, "REDACT")
BlockHealth   == Scoped("block-health-cloud", 90, 0, 3, Health, {Local}, "BLOCK")
BlockFinance  == Scoped("block-finance-cloud", 90, 0, 3, Finance, {Local}, "BLOCK")
PermitLevel0  == Scoped("permit-level0", 10, 0, 0, {}, {}, "PERMIT")

DefaultRules == <<BlockLevel3, ConsentLevel3, BlockLevel2, RedactLevel1,
                  BlockHealth, BlockFinance, PermitLevel0>>

-----------------------------------------------------------------------------
(* _matches without a context: the time of day is not looked at. *)
ConditionsMatch(rule, m, provider) ==
    /\ m.level \in rule.min..rule.max
    /\ rule.include # {} => rule.include \cap m.tags # {}
    /\ rule.exclude \cap m.tags = {}
    /\ rule.providerIs # {} => provider \in rule.providerIs
    /\ provider \notin rule.providerNot
    /\ rule.sourceIs # {} => m.source \in rule.sourceIs
    /\ m.source \notin rule.sourceNot

(* _matches with the hour of the day, as the firewall calls it; a window    *)
(* that wraps past midnight matches no hour.                                *)
Matches(rule, m, provider, hour) ==
    ConditionsMatch(rule, m, provider) /\ rule.start <= hour /\ hour < rule.end

Hits(rules, m, provider, hour) ==
    {i \in 1..Len(rules) : rules[i].enabled /\ Matches(rules[i], m, provider, hour)}

(* A bug: ties and order the other way round. *)
LowestFirst(rules, i, j) ==
    \/ rules[i].priority < rules[j].priority
    \/ rules[i].priority = rules[j].priority /\ i <= j

(* The order of a stable sort by falling priority. *)
Before(rules, i, j) ==
    \/ rules[i].priority > rules[j].priority
    \/ rules[i].priority = rules[j].priority /\ i <= j

First(rules, hits) == CHOOSE i \in hits : \A j \in hits : Before(rules, i, j)

(* The firewall's own answer where no rule matches. *)
LevelDefault(level) ==
    CASE level = 3 -> "CONSENT_REQUIRED"
      [] level = 2 -> "BLOCK"
      [] level = 1 -> "REDACT"
      [] OTHER     -> "PERMIT"

(* What the firewall does with a memory: the first rule that matches decides. *)
Verdict(rules, m, provider, hour) ==
    LET hits == Hits(rules, m, provider, hour)
    IN  IF hits = {} THEN LevelDefault(m.level) ELSE rules[First(rules, hits)].action

-----------------------------------------------------------------------------
(* load_policies: the rules of every file of the directory one after the    *)
(* other, or the defaults when there are none, and then the consent gate's   *)
(* priority raised above that of the block it would hide behind.  Of rules   *)
(* with one id, the last counts.                                            *)
HasId(rules, id) == \E i \in 1..Len(rules) : rules[i].id = id
LastWithId(rules, id) ==
    CHOOSE i \in 1..Len(rules) :
        rules[i].id = id /\ \A j \in 1..Len(rules) : rules[j].id = id => j <= i

Normalised(rules) ==
    IF HasId(rules, "consent-level3") /\ HasId(rules, "block-level3-cloud")
    THEN LET c == LastWithId(rules, "consent-level3")
             b == LastWithId(rules, "block-level3-cloud")
         IN  IF rules[c].priority <= rules[b].priority
             THEN [rules EXCEPT ![c].priority = rules[b].priority + 1] ELSE rules
    ELSE rules

LoadPolicies(rules) == Normalised(IF rules = <<>> THEN DefaultRules ELSE rules)
=============================================================================
