----------------------------- MODULE RuleEngine -----------------------------
(***************************************************************************)
(* RuleEngine (rules/base.py) for any catalogue of rules: registration in  *)
(* the order of discovery, and evaluate(), which runs on the event loop    *)
(* without an await, one rule after the other in (priority, rule_id) order.*)
(*                                                                         *)
(* A rule is a number, its rule_id's place in the lexicographic order.  A  *)
(* situation is an event together with what the cache holds while the      *)
(* event loop is busy with it.  Confidences are in hundredths.  A          *)
(* correlate() thread left behind by its time-out writes to a result       *)
(* holder nobody looks at any more and is not followed.                    *)
(***************************************************************************)
EXTENDS Integers, Sequences, FiniteSets

CONSTANTS
    Rules,       \* the rules discover_rules() finds
    Tier1,       \* those registered whatever tier2_enabled says
    Kinds,       \* resource kinds
    Situations,
    Catalogue,   \* what a rule is: a RuleRecord
    None,
    MaxTrouble   \* bound: exceptions and time-outs in one evaluation

(* What correlate() comes back with: how old the newest relevant change    *)
(* is, and whether at most one resource is related.                        *)
Correlation == [changes : {"none", "old", "recent"}, single : BOOLEAN]

(* finds: the correlations possible in a situation; baseOnly: where        *)
(* explain() puts the base confidence in place of the computed one.        *)
RuleRecord == [priority : Nat, base : 0..95, deps : (SUBSET Kinds) \ {{}},
               matches : SUBSET Situations, baseOnly : SUBSET Situations,
               finds : [Situations -> SUBSET Correlation]]

ASSUME RuleAssumption ==
    /\ Rules \subseteq Nat /\ Tier1 \subseteq Rules
    /\ Catalogue \in [Rules -> RuleRecord]
    /\ \A s \in Situations : s.repeated \in BOOLEAN
    /\ None \notin Situations /\ None \notin [at : Nat, conf : 0..95]
    /\ MaxTrouble \in Nat

High == 85
Medium == 70

VARIABLES
    enabled,    \* the rules build_rule_engine() registers
    rules,      \* _rules
    phase,      \* "idle", "scanning", or "returned" from evaluate()
    situation,  \* what evaluate() was called in
    at,         \* the place in rules where it goes on
    best,       \* best, or the result returned at once: its place, its confidence
    competing,  \* competing_deps, {} for None
    explained,  \* history: the candidates explain() has produced
    troubled    \* history: the places where something was raised or too late
scanVars == <<situation, at, best, competing, explained, troubled>>
engineVars == <<enabled, rules, phase, scanVars>>

Candidates == [at : Nat \ {0}, conf : 0..95]
Places == DOMAIN rules

EngineTypeOK ==
    /\ enabled \in {Tier1, Rules}
    /\ rules \in Seq(enabled)
    /\ phase \in {"idle", "scanning", "returned"}
    /\ situation = None <=> phase = "idle"
    /\ at \in Nat \ {0}
    /\ best \in Candidates \cup {None}
    /\ competing \subseteq Kinds
    /\ explained \subseteq Candidates
    /\ troubled \subseteq Nat

EngineInit ==
    /\ enabled \in {Tier1, Rules}
    /\ rules = <<>>
    /\ phase = "idle"
    /\ situation = None /\ at = 1 /\ best = None /\ competing = {}
    /\ explained = {} /\ troubled = {}

-----------------------------------------------------------------------------
Registered == {rules[i] : i \in Places}
Complete == Registered = enabled

\* the sort key (priority, rule_id)
Before(q, r) ==
    \/ Catalogue[q].priority < Catalogue[r].priority
    \/ Catalogue[q].priority = Catalogue[r].priority /\ q < r

\* the list with r at place p
Inserted(r, p) ==
    [i \in 1..Len(rules) + 1 |->
        CASE i < p -> rules[i] [] i = p -> r [] i > p -> rules[i - 1]]

\* Mutant: the list is not sorted again.
RegisterAtTheEnd(r) ==
    /\ phase = "idle"
    /\ rules' = Append(rules, r)
    /\ UNCHANGED <<enabled, phase, scanVars>>

\* register: append and sort
Register(r) ==
    /\ phase = "idle"
    /\ \E p \in 1..Len(rules) + 1 :
        /\ \A i \in 1..p - 1 : Before(rules[i], r)
        /\ \A i \in p..Len(rules) : Before(r, rules[i])
        /\ rules' = Inserted(r, p)
    /\ UNCHANGED <<enabled, phase, scanVars>>

\* build_rule_engine: the rules of the enabled tiers, by file name
RegisterNext ==
    \E r \in enabled \ Registered :
        /\ \A q \in enabled \ Registered : r <= q
        /\ Register(r)

-----------------------------------------------------------------------------
Lesser(x, y) == IF x <= y THEN x ELSE y
Bonus(earned, points) == IF earned THEN points ELSE 0

\* compute_confidence, and explain() where it overrides it
Confidence(r, s, c) ==
    IF s \in Catalogue[r].baseOnly THEN Catalogue[r].base
    ELSE Lesser(95, Catalogue[r].base
                    + Bonus(c.changes # "none", 15)
                    + Bonus(c.changes = "recent", 10)
                    + Bonus(s.repeated, 5)
                    + Bonus(c.single, 5))

\* the empty CorrelationResult of a thread that raised or returned nothing
NothingFound == [changes |-> "none", single |-> TRUE]

\* evaluate() is called: best and competing_deps are None
Begin(s) ==
    /\ phase' = "scanning"
    /\ situation' = s /\ at' = 1 /\ best' = None /\ competing' = {}
    /\ explained' = {} /\ troubled' = {}
    /\ UNCHANGED <<enabled, rules>>

\* evaluate()'s variables are gone with its caller
Forget ==
    /\ phase' = "idle"
    /\ situation' = None /\ at' = 1 /\ best' = None /\ competing' = {}
    /\ explained' = {} /\ troubled' = {}
    /\ UNCHANGED <<enabled, rules>>

Deps(p) == Catalogue[rules[p]].deps

\* frozenset.isdisjoint in competing-only mode
Excluded(p) == competing # {} /\ Deps(p) \cap competing = {}

(* The loop passes over the rules that are excluded or do not match, up to *)
(* the next one it correlates.                                             *)
Concerned(p) == ~ Excluded(p) /\ situation \in Catalogue[rules[p]].matches
Turn(p) ==
    /\ p >= at /\ Concerned(p)
    /\ \A q \in at..p - 1 : ~ Concerned(q)

Trouble(p) == Cardinality(troubled) < MaxTrouble /\ troubled' = troubled \cup {p}

(* match() or explain() raises, or correlate() does not answer within      *)
(* _CORRELATE_TIMEOUT_MS: a warning, and on to the next rule.  (A match()  *)
(* that raises where it would have said no only adds a warning.)           *)
GiveUpRule(p) ==
    /\ Trouble(p)
    /\ at' = p + 1
    /\ UNCHANGED <<enabled, rules, phase, situation, best, competing, explained>>

\* Mutant: "better" is "at least as good".
BetterOrEqual(conf) == best # None => conf >= best.conf

Better(conf) == best # None => conf > best.conf
Competes(conf) == conf >= Medium

\* Mutant: the first medium result decides what competes with it.
ProduceFirstCompeting(p, conf) ==
    LET candidate == [at |-> p, conf |-> conf] IN
    /\ explained' = explained \cup {candidate}
    /\ at' = p + 1
    /\ phase' = IF conf >= High THEN "returned" ELSE phase
    /\ best' = IF conf >= High \/ Better(conf) THEN candidate ELSE best
    /\ competing' = IF competing = {} /\ conf < High /\ Competes(conf)
                    THEN Deps(p) ELSE competing
    /\ UNCHANGED <<enabled, rules, situation>>

\* the rest of the loop body once explain() has returned a confidence
Produce(p, conf) ==
    LET candidate == [at |-> p, conf |-> conf] IN
    /\ explained' = explained \cup {candidate}
    /\ at' = p + 1
    /\ \/ /\ conf >= High
          /\ phase' = "returned" /\ best' = candidate
          /\ UNCHANGED competing
       \/ /\ conf < High /\ Better(conf)
          /\ best' = candidate
          /\ competing' = IF Competes(conf) THEN Deps(p) ELSE competing
          /\ UNCHANGED phase
       \/ /\ conf < High /\ ~ Better(conf)
          /\ UNCHANGED <<phase, best, competing>>
    /\ UNCHANGED <<enabled, rules, situation>>

Explain(p) ==
    /\ \E c \in Catalogue[rules[p]].finds[situation] :
        Produce(p, Confidence(rules[p], situation, c))
    /\ UNCHANGED troubled

\* correlate() raises: an error is logged and nothing was found
ExplainNothing(p) ==
    /\ Trouble(p)
    /\ Produce(p, Confidence(rules[p], situation, NothingFound))

Finish ==
    /\ phase = "scanning" /\ \A p \in Places : p >= at => ~ Concerned(p)
    /\ at' = Len(rules) + 1
    /\ phase' = "returned"
    /\ UNCHANGED <<enabled, rules, situation, best, competing, explained, troubled>>

\* evaluate(), from one rule that matches to the next
Scan ==
    \/ /\ phase = "scanning"
       /\ \E p \in Places :
            Turn(p) /\ (GiveUpRule(p) \/ Explain(p) \/ ExplainNothing(p))
    \/ Finish

-----------------------------------------------------------------------------
(* What register() promises and evaluate() checks as INV-C03: the rules    *)
(* stand in the order of (priority, rule_id) whatever order they come in.  *)
RulesSorted == \A i \in 1..Len(rules) - 1 : Before(rules[i], rules[i + 1])

(* evaluate() returns the best of the results it has obtained, the first   *)
(* of them in the order of evaluation when several are equally confident,  *)
(* and nothing only if no rule came up with a result.                      *)
BestOfExplained ==
    /\ best = None <=> explained = {}
    /\ best # None =>
        /\ best \in explained
        /\ \A e \in explained :
            e.conf < best.conf \/ (e.conf = best.conf /\ e.at >= best.at)

\* e is the best result there is when the evaluation comes to place p
BestBefore(e, p) ==
    /\ e.at < p
    /\ \A f \in explained :
          f.at < p => f.conf < e.conf \/ (f.conf = e.conf /\ f.at >= e.at)

(* A rule that could say something about the event is left out only        *)
(* because the best result before it has medium confidence and comes from  *)
(* a rule that reads none of its resource kinds, or because it failed.  A  *)
(* weaker medium result before that one excludes nothing any more, nor     *)
(* does one as good that came later.                                       *)
OnlyUnrelatedLeftOut ==
    \A p \in 1..at - 1 :
        \/ \E e \in explained : e.at = p
        \/ p \in troubled
        \/ situation \notin Catalogue[rules[p]].matches
        \/ \E e \in explained :
            /\ BestBefore(e, p)
            /\ e.conf \in Medium..High - 1
            /\ Deps(e.at) \cap Deps(p) = {}
=============================================================================
