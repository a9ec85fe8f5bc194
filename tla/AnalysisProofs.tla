--------------------------- MODULE AnalysisProofs ---------------------------
(***************************************************************************)
(* What TLAPS proves about the rule engine and the coordinator, for every  *)
(* catalogue of rules, every set of situations and events without number:  *)
(* the safety properties of Analysis; and, at the end, what the eighteen   *)
(* rules of DiagnosticRules do for a volume that cannot be mounted.        *)
(*                                                                         *)
(* The engine's properties lean on what competing_deps stands for: the     *)
(* dependencies of the best rule so far, once it has medium confidence. The*)
(* coordinator's lean on how far each stage has used up its retries.       *)
(***************************************************************************)
EXTENDS AnalysisMC, SequenceTheorems, TLAPS

Counts == INSTANCE AgedCountsProofs  \* for its induction on numbers

\* what evaluate() has done up to the place it has come to
ScanSoFar ==
    /\ phase = "idle" => /\ at = 1 /\ best = None /\ competing = {}
                         /\ explained = {} /\ troubled = {}
    /\ at <= Len(rules) + 1
    /\ \A e \in explained : e.at < at
    /\ phase = "scanning" => \A e \in explained : e.conf < High
    /\ phase = "scanning" /\ competing # {} =>
          best # None /\ best.conf \in Medium..High - 1 /\ competing = Deps(best.at)

EngineInv ==
    /\ EngineTypeOK
    /\ RulesSorted
    /\ BestOfExplained
    /\ OnlyUnrelatedLeftOut
    /\ ScanSoFar

\* what the coordinator and the analyzer have done at each stage
StageSoFar ==
    /\ stage = "evaluating" /\ phase = "idle" => pending > 0
    /\ stage \in {"booting", "idle", "evaluating", "asking"} => retries = 0
    /\ stage = "checking" => retries < QualityRetries
    /\ stage \in {"checking", "retrying"} => answer \in Answers
    /\ stage = "retrying" => quality = "failed"
    /\ response # None => stage = "answered"
    /\ calls <= attempt + 1 + retries

StageInv ==
    /\ AnalysisTypeOK
    /\ CheckedOrCapped
    /\ StageSoFar

IInv == EngineInv /\ StageInv

-----------------------------------------------------------------------------
(* What stands in the list is a rule of the catalogue.                     *)
LEMMA RuleAt ==
    ASSUME EngineTypeOK, NEW p \in Places
    PROVE  p \in 1..Len(rules) /\ rules[p] \in Rules
  <1>1. enabled \subseteq Rules
    BY RuleAssumption DEF EngineTypeOK
  <1>2. rules \in Seq(enabled)
    BY DEF EngineTypeOK
  <1>3. p \in 1..Len(rules) /\ rules[p] \in enabled
    BY <1>2 DEF Places
  <1>4. QED  BY <1>1, <1>3

(* A confidence is a number of hundredths up to 0.95.                      *)
LEMMA ConfidenceRange ==
    ASSUME NEW r \in Rules, NEW s \in Situations, NEW c \in Correlation
    PROVE  Confidence(r, s, c) \in 0..95
  <1>1. Catalogue[r].base \in 0..95
    BY RuleAssumption DEF RuleRecord
  <1>2. ASSUME NEW b, NEW n \in Nat PROVE Bonus(b, n) \in Nat
    BY <1>2 DEF Bonus
  <1>3. \A x \in Nat : Lesser(95, x) \in 0..95
    BY DEF Lesser
  <1> DEFINE total == Catalogue[r].base + Bonus(c.changes # "none", 15)
                      + Bonus(c.changes = "recent", 10) + Bonus(s.repeated, 5)
                      + Bonus(c.single, 5)
  <1>4. total \in Nat
    <2>1. /\ Bonus(c.changes # "none", 15) \in Nat /\ Bonus(c.changes = "recent", 10) \in Nat
          /\ Bonus(s.repeated, 5) \in Nat /\ Bonus(c.single, 5) \in Nat
      BY <1>2
    <2>2. QED  BY <1>1, <2>1
  <1> HIDE DEF total
  <1>5. Lesser(95, total) \in 0..95
    BY <1>3, <1>4
  <1>6. QED  BY <1>1, <1>5 DEF Confidence, total

(* The list with a rule more is a list of enabled rules, in order if the   *)
(* place is the one register() sorts it to.                                *)
LEMMA RegisterKeeps ==
    ASSUME EngineInv, RegisterNext
    PROVE  EngineInv'
  <1>1. PICK r \in enabled : Register(r)
    BY DEF RegisterNext
  <1>2. PICK p \in 1..Len(rules) + 1 :
            /\ \A i \in 1..p - 1 : Before(rules[i], r)
            /\ \A i \in p..Len(rules) : Before(r, rules[i])
            /\ rules' = Inserted(r, p)
    BY <1>1 DEF Register
  <1>3. rules \in Seq(enabled)
    BY DEF EngineInv, EngineTypeOK
  <1>4. /\ Len(rules) \in Nat /\ p \in 1..Len(rules) + 1
        /\ \A i \in 1..Len(rules) : rules[i] \in enabled
    BY <1>3
  <1>5. \A i \in 1..Len(rules) + 1 :
            rules'[i] = IF i < p THEN rules[i] ELSE IF i = p THEN r ELSE rules[i - 1]
    BY <1>2, <1>4 DEF Inserted
  <1>6. rules' \in Seq(enabled) /\ Len(rules') = Len(rules) + 1
    <2>1. rules' = [i \in 1..Len(rules) + 1 |-> rules'[i]]
      BY <1>2 DEF Inserted
    <2>2. \A i \in 1..Len(rules) + 1 : rules'[i] \in enabled
      BY <1>1, <1>4, <1>5
    <2>3. QED  BY <2>1, <2>2, <1>4
  <1>7. /\ UNCHANGED <<enabled, phase, scanVars>>
        /\ phase = "idle"
    BY <1>1 DEF Register
  <1>8. EngineTypeOK'
    BY <1>6, <1>7 DEF EngineInv, EngineTypeOK, scanVars, Candidates
  <1>9. RulesSorted'
    <2>1. SUFFICES ASSUME NEW i \in 1..Len(rules) PROVE Before(rules'[i], rules'[i + 1])
      BY <1>4, <1>6 DEF RulesSorted, Before
    <2>2. CASE i + 1 < p
      <3>1. Before(rules[i], rules[i + 1])
        BY <1>4, <2>2 DEF EngineInv, RulesSorted
      <3>2. rules'[i] = rules[i] /\ rules'[i + 1] = rules[i + 1]
        BY <1>4, <1>5, <2>2
      <3>3. QED  BY <3>1, <3>2
    <2>3. CASE i + 1 = p
      BY <1>2, <1>4, <1>5, <2>3
    <2>4. CASE i = p
      BY <1>2, <1>4, <1>5, <2>4
    <2>5. CASE i > p
      <3>1. Before(rules[i - 1], rules[i])
        BY <1>4, <2>5 DEF EngineInv, RulesSorted
      <3>2. rules'[i] = rules[i - 1] /\ rules'[i + 1] = rules[i]
        BY <1>4, <1>5, <2>5
      <3>3. QED  BY <3>1, <3>2
    <2>6. QED  BY <1>4, <2>2, <2>3, <2>4, <2>5
  <1>10. /\ at' = 1 /\ best' = None /\ competing' = {} /\ explained' = {} /\ troubled' = {}
    BY <1>7 DEF EngineInv, ScanSoFar, scanVars
  <1>11. BestOfExplained' /\ OnlyUnrelatedLeftOut' /\ ScanSoFar'
    BY <1>4, <1>6, <1>7, <1>10 DEF BestOfExplained, OnlyUnrelatedLeftOut, ScanSoFar
  <1>12. QED  BY <1>8, <1>9, <1>11 DEF EngineInv

(* Begin and Forget both leave evaluate() at its beginning.                *)
LEMMA BeginOrForgetKeeps ==
    ASSUME EngineInv, (\E s \in Situations : Begin(s)) \/ Forget
    PROVE  EngineInv'
  <1>1. /\ at' = 1 /\ best' = None /\ competing' = {} /\ explained' = {} /\ troubled' = {}
        /\ UNCHANGED <<enabled, rules>>
        /\ phase' \in {"idle", "scanning"}
        /\ situation' = None <=> phase' = "idle"
    BY RuleAssumption DEF Begin, Forget
  <1>2. EngineTypeOK'
    BY <1>1 DEF EngineInv, EngineTypeOK, Candidates
  <1>3. RulesSorted'
    BY <1>1 DEF EngineInv, RulesSorted, Before
  <1>4. Len(rules') \in Nat
    BY <1>1 DEF EngineInv, EngineTypeOK
  <1>5. BestOfExplained' /\ OnlyUnrelatedLeftOut' /\ ScanSoFar'
    BY <1>1, <1>4 DEF BestOfExplained, OnlyUnrelatedLeftOut, ScanSoFar
  <1>6. QED  BY <1>2, <1>3, <1>5 DEF EngineInv

-----------------------------------------------------------------------------
(* The evaluation moves on to the place behind p, and only the rule at p   *)
(* has been given a chance on the way.                                     *)
MovedTo(p) ==
    /\ phase = "scanning" /\ p >= at
    /\ UNCHANGED <<enabled, rules, situation>>
    /\ at' = p + 1
    /\ \A q \in at..p - 1 : ~ Concerned(q)
    /\ explained \subseteq explained' /\ troubled \subseteq troubled'
    /\ \A e \in explained' \ explained : e.at = p

(* A rule that is passed over in competing-only mode is unrelated to the   *)
(* best one before it, so that nothing is left out without a reason.       *)
LEMMA NothingElseLeftOut ==
    ASSUME EngineInv, NEW p \in Nat, MovedTo(p),
           \/ ~ Concerned(p) /\ p <= Len(rules)
           \/ p \in troubled'
           \/ \E e \in explained' : e.at = p
    PROVE  OnlyUnrelatedLeftOut'
  <1>1. SUFFICES ASSUME NEW q \in 1..p
        PROVE  \/ \E e \in explained' : e.at = q
               \/ q \in troubled'
               \/ situation \notin Catalogue[rules[q]].matches
               \/ \E e \in explained' :
                    /\ BestBefore(e, q)'
                    /\ e.conf \in Medium..High - 1
                    /\ Catalogue[rules[e.at]].deps \cap Catalogue[rules[q]].deps = {}
    BY DEF OnlyUnrelatedLeftOut, MovedTo, Deps
  <1>2. at \in Nat \ {0} /\ at <= Len(rules) + 1
    BY DEF EngineInv, EngineTypeOK, ScanSoFar
  <1>3. \A f \in explained' : f.at < q => f \in explained
    <2>1. ~ (p < q)
      OBVIOUS
    <2>2. QED  BY <2>1 DEF MovedTo
  <1>4. CASE q < at
    <2>1. q \in 1..at - 1
      BY <1>2, <1>4
    <2>2. CASE \/ \E e \in explained : e.at = q
               \/ q \in troubled
               \/ situation \notin Catalogue[rules[q]].matches
      BY <2>2 DEF MovedTo
    <2>3. ASSUME NEW e \in explained, BestBefore(e, q), e.conf \in Medium..High - 1,
                 Deps(e.at) \cap Deps(q) = {}
          PROVE  /\ e \in explained' /\ BestBefore(e, q)'
                 /\ Catalogue[rules[e.at]].deps \cap Catalogue[rules[q]].deps = {}
      BY <1>3, <2>3 DEF BestBefore, MovedTo, Deps
    <2>4. QED  BY <2>1, <2>2, <2>3 DEF EngineInv, OnlyUnrelatedLeftOut
  <1>5. CASE q >= at /\ ~ Concerned(q)
    <2>1. CASE situation \notin Catalogue[rules[q]].matches
      BY <2>1
    <2>2. CASE competing # {} /\ Deps(q) \cap competing = {}
      <3>1. best # None /\ best.conf \in Medium..High - 1 /\ competing = Deps(best.at)
        BY <2>2 DEF EngineInv, ScanSoFar, MovedTo
      <3>2. PICK e \in explained : e = best
        BY <3>1 DEF EngineInv, BestOfExplained
      <3>3. \A f \in explained : f.conf < e.conf \/ (f.conf = e.conf /\ f.at >= e.at)
        BY <3>1, <3>2 DEF EngineInv, BestOfExplained
      <3>4. e.at < q
        <4>1. e.at < at /\ e.at \in Nat
          BY DEF EngineInv, ScanSoFar, EngineTypeOK, Candidates
        <4>2. QED  BY <4>1, <1>2, <1>5
      <3>5. e \in explained' /\ BestBefore(e, q)'
        BY <1>3, <3>3, <3>4 DEF MovedTo, BestBefore
      <3>6. Catalogue[rules[e.at]].deps \cap Catalogue[rules[q]].deps = {}
        BY <2>2, <3>1, <3>2 DEF Deps
      <3>7. QED  BY <3>1, <3>2, <3>5, <3>6
    <2>3. QED  BY <1>5, <2>1, <2>2 DEF Concerned, Excluded
  <1>6. CASE q >= at /\ Concerned(q)
    <2>1. q = p
      BY <1>2, <1>6 DEF MovedTo
    <2>2. QED  BY <2>1, <1>6
  <1>7. QED  BY <1>2, <1>4, <1>5, <1>6

\* A rule that times out or raises leaves the scan as it should be.
LEMMA GiveUpRuleKeeps ==
    ASSUME EngineInv, phase = "scanning", NEW p \in Places, Turn(p), GiveUpRule(p)
    PROVE  EngineInv'
  <1>1. p \in Nat \ {0} /\ p <= Len(rules) /\ at \in Nat \ {0} /\ p >= at
    BY DEF EngineInv, EngineTypeOK, Places, Turn
  <1>2. /\ UNCHANGED <<enabled, rules, phase, situation, best, competing, explained>>
        /\ at' = p + 1 /\ troubled' = troubled \cup {p}
    BY DEF GiveUpRule, Trouble
  <1>3. EngineTypeOK'
    BY <1>1, <1>2 DEF EngineInv, EngineTypeOK, Candidates
  <1>4. RulesSorted' /\ BestOfExplained'
    BY <1>2 DEF EngineInv, RulesSorted, BestOfExplained, Before
  <1>5. OnlyUnrelatedLeftOut'
    <2>1. MovedTo(p)
      BY <1>1, <1>2 DEF MovedTo, Turn
    <2>2. QED  BY <1>1, <1>2, <2>1, NothingElseLeftOut
  <1>6. ScanSoFar'
    <2>1. \A e \in explained : e.at \in Nat /\ e.at < at
      BY DEF EngineInv, EngineTypeOK, ScanSoFar, Candidates
    <2>2. QED  BY <1>1, <1>2, <2>1 DEF EngineInv, ScanSoFar, Deps
  <1>7. QED  BY <1>3, <1>4, <1>5, <1>6 DEF EngineInv

\* So does a rule that explains, whether or not it ends the scan.
LEMMA ProduceKeeps ==
    ASSUME EngineInv, phase = "scanning", NEW p \in Places, Turn(p),
           NEW conf \in 0..95, Produce(p, conf),
           \/ troubled' = troubled
           \/ troubled' = troubled \cup {p}
    PROVE  EngineInv'
  <1> DEFINE candidate == [at |-> p, conf |-> conf]
  <1>1. p \in Nat \ {0} /\ p <= Len(rules) /\ at \in Nat \ {0} /\ p >= at
    BY DEF EngineInv, EngineTypeOK, Places, Turn
  <1>2. /\ UNCHANGED <<enabled, rules, situation>>
        /\ at' = p + 1 /\ explained' = explained \cup {candidate}
    BY DEF Produce
  <1>3. candidate \in Candidates /\ candidate.at = p /\ candidate.conf = conf
        /\ candidate # None
    <2>1. candidate \in Candidates /\ candidate.at = p /\ candidate.conf = conf
      BY <1>1 DEF Candidates
    <2>2. Candidates \subseteq [at : Nat, conf : 0..95]
      BY DEF Candidates
    <2>3. QED  BY <2>1, <2>2, RuleAssumption
  <1>4. \/ conf >= High /\ phase' = "returned" /\ best' = candidate /\ competing' = competing
        \/ /\ conf < High /\ Better(conf) /\ phase' = phase /\ best' = candidate
           /\ competing' = IF Competes(conf) THEN Deps(p) ELSE competing
        \/ conf < High /\ ~ Better(conf) /\ phase' = phase /\ UNCHANGED <<best, competing>>
    BY DEF Produce
  <1>5. rules[p] \in Rules /\ Deps(p) \subseteq Kinds
    <2>1. rules[p] \in Rules
      BY RuleAt DEF EngineInv
    <2>2. QED  BY <2>1, RuleAssumption DEF RuleRecord, Deps
  <1>6. /\ explained \subseteq Candidates
        /\ \A e \in explained : e.at \in Nat /\ e.conf \in 0..95 /\ e.at < at
        /\ \A e \in explained : e.conf < High
    BY DEF EngineInv, EngineTypeOK, ScanSoFar, Candidates
  <1> HIDE DEF candidate
  <1>7. EngineTypeOK'
    <2>1. competing' \subseteq Kinds
      BY <1>4, <1>5 DEF EngineInv, EngineTypeOK
    <2>2. best' \in Candidates \cup {None} /\ explained' \subseteq Candidates
      BY <1>2, <1>3, <1>4 DEF EngineInv, EngineTypeOK
    <2>3. phase' \in {"scanning", "returned"} /\ situation' # None
      BY <1>2, <1>4 DEF EngineInv, EngineTypeOK
    <2>4. troubled' \subseteq Nat
      BY <1>1 DEF EngineInv, EngineTypeOK
    <2>5. QED
      BY <1>1, <1>2, <2>1, <2>2, <2>3, <2>4 DEF EngineInv, EngineTypeOK, Candidates
  <1>8. RulesSorted'
    BY <1>2 DEF EngineInv, RulesSorted, Before
  <1>9. BestOfExplained'
    <2>1. CASE best' = candidate /\ \A e \in explained : e.conf < conf
      <3>1. best' # None /\ explained' # {} /\ best' \in explained'
        BY <1>2, <1>3, <2>1
      <3>2. \A e \in explained' : e.conf < best'.conf \/ e = best'
        BY <1>2, <1>3, <2>1
      <3>3. best'.at \in Nat /\ best'.conf \in Nat
        BY <1>1, <1>3, <2>1
      <3>4. QED  BY <3>1, <3>2, <3>3 DEF BestOfExplained
    <2>2. CASE UNCHANGED best /\ conf < High /\ ~ Better(conf)
      <3>1. best # None /\ best \in explained /\ best.conf >= conf /\ best.at < p
        <4>1. best # None /\ ~ (conf > best.conf)
          BY <2>2 DEF Better
        <4>2. best \in explained
          BY <4>1 DEF EngineInv, BestOfExplained
        <4>3. best.at \in Nat /\ best.conf \in 0..95 /\ best.at < at
          BY <1>6, <4>2
        <4>4. \A x, y, b, q, a \in Nat :
                  ~ (x > y) /\ b < a /\ q >= a => y >= x /\ b < q
          OBVIOUS
        <4>5. conf \in Nat /\ best.conf \in Nat
          BY <4>3
        <4>6. best.conf >= conf /\ best.at < p
          BY <1>1, <4>1, <4>3, <4>4, <4>5, Zenon
        <4>7. QED  BY <4>1, <4>2, <4>6
      <3>2. best' # None /\ explained' # {} /\ best' \in explained'
        BY <1>2, <2>2, <3>1
      <3>3. \A e \in explained :
                e.conf < best.conf \/ (e.conf = best.conf /\ e.at >= best.at)
        BY <3>1 DEF EngineInv, BestOfExplained
      <3>4. candidate.conf < best.conf
            \/ (candidate.conf = best.conf /\ candidate.at >= best.at)
        <4>1. best.at \in Nat /\ best.conf \in 0..95
          BY <1>6, <3>1
        <4>2. \A x, y, b, q \in Nat : y >= x /\ b < q => x < y \/ (x = y /\ q >= b)
          OBVIOUS
        <4>3. conf \in Nat /\ best.conf \in Nat
          BY <4>1
        <4>4. QED  BY <1>1, <1>3, <3>1, <4>1, <4>2, <4>3, Zenon
      <3>5. QED  BY <1>2, <2>2, <3>2, <3>3, <3>4 DEF BestOfExplained
    <2>3. CASE conf < High /\ Better(conf)
      <3>1. \A e \in explained : e.conf < conf
        BY <1>6, <2>3 DEF Better, EngineInv, BestOfExplained
      <3>2. QED  BY <1>4, <2>1, <2>3, <3>1
    <2>4. CASE conf >= High
      <3>1. \A e \in explained : e.conf < conf
        BY <1>6, <2>4 DEF High
      <3>2. best' = candidate
        BY <1>4, <2>4 DEF High
      <3>3. QED  BY <2>1, <3>1, <3>2
    <2>5. QED  BY <1>4, <2>2, <2>3, <2>4
  <1>10. OnlyUnrelatedLeftOut'
    <2>1. MovedTo(p)
      BY <1>1, <1>2, <1>3 DEF MovedTo, Turn
    <2>2. \E e \in explained' : e.at = p
      BY <1>2, <1>3
    <2>3. QED  BY <1>1, <2>1, <2>2, NothingElseLeftOut
  <1>11. ScanSoFar'
    <2>1. at' <= Len(rules') + 1 /\ phase' # "idle"
      BY <1>1, <1>2, <1>4
    <2>2. \A e \in explained' : e.at < at'
      BY <1>1, <1>2, <1>3, <1>6
    <2>3. phase' = "scanning" => \A e \in explained' : e.conf < High
      BY <1>2, <1>3, <1>4, <1>6 DEF High
    <2>4. phase' = "scanning" /\ competing' # {} =>
             /\ best' # None /\ best'.conf \in Medium..High - 1
             /\ competing' = Catalogue[rules[best'.at]].deps
      <3>1. CASE conf < High /\ ~ Better(conf) /\ UNCHANGED <<best, competing>>
        BY <3>1 DEF EngineInv, ScanSoFar, Deps
      <3>2. CASE conf < High /\ Competes(conf) /\ best' = candidate /\ competing' = Deps(p)
        BY <1>3, <3>2 DEF Competes, High, Medium, Deps
      <3>3. CASE conf < High /\ ~ Competes(conf) /\ Better(conf) /\ UNCHANGED competing
        <4>1. competing = {}
          BY <3>3 DEF EngineInv, ScanSoFar, Better, Competes, High, Medium
        <4>2. QED  BY <3>3, <4>1
      <3>4. QED  BY <1>4, <3>1, <3>2, <3>3
    <2>5. QED  BY <1>2, <2>1, <2>2, <2>3, <2>4 DEF ScanSoFar, Deps
  <1>12. QED  BY <1>7, <1>8, <1>9, <1>10, <1>11 DEF EngineInv

\* What evaluate() returns is the best of what the scan collected.
LEMMA FinishKeeps ==
    ASSUME EngineInv, Finish
    PROVE  EngineInv'
  <1>1. /\ UNCHANGED <<enabled, rules, situation, best, competing, explained, troubled>>
        /\ at' = Len(rules) + 1 /\ phase = "scanning" /\ phase' = "returned"
        /\ \A q \in Places : q >= at => ~ Concerned(q)
    BY DEF Finish
  <1>2. /\ rules \in Seq(enabled) /\ Len(rules) \in Nat /\ Places = 1..Len(rules)
        /\ at \in Nat \ {0} /\ at <= Len(rules) + 1
    BY DEF EngineInv, EngineTypeOK, ScanSoFar, Places
  <1>3. EngineTypeOK'
    BY <1>1, <1>2 DEF EngineInv, EngineTypeOK, Candidates
  <1>4. RulesSorted' /\ BestOfExplained'
    BY <1>1 DEF EngineInv, RulesSorted, BestOfExplained, Before
  <1>5. OnlyUnrelatedLeftOut'
    <2>1. CASE at = Len(rules) + 1
      BY <1>1, <2>1 DEF EngineInv, OnlyUnrelatedLeftOut, BestBefore, Deps
    <2>2. CASE at <= Len(rules)
      <3>1. MovedTo(Len(rules))
        BY <1>1, <1>2, <2>2 DEF MovedTo
      <3>2. ~ Concerned(Len(rules))
        BY <1>1, <1>2, <2>2
      <3>3. QED  BY <1>2, <3>1, <3>2, NothingElseLeftOut
    <2>3. QED  BY <1>2, <2>1, <2>2
  <1>6. ScanSoFar'
    <2>1. \A e \in explained : e.at \in Nat /\ e.at < at
      BY DEF EngineInv, EngineTypeOK, ScanSoFar, Candidates
    <2>2. QED  BY <1>1, <1>2, <2>1 DEF EngineInv, ScanSoFar, Deps
  <1>7. QED  BY <1>3, <1>4, <1>5, <1>6 DEF EngineInv

(* Every step of evaluate() preserves the engine's invariant.              *)
LEMMA ScanKeeps ==
    ASSUME EngineInv, Scan
    PROVE  EngineInv'
  <1>1. ASSUME phase = "scanning", NEW p \in Places, Turn(p),
               GiveUpRule(p) \/ Explain(p) \/ ExplainNothing(p)
        PROVE  EngineInv'
    <2>1. rules[p] \in Rules /\ situation \in Situations
      <3>1. rules[p] \in Rules
        BY RuleAt DEF EngineInv
      <3>2. QED  BY <1>1, <3>1, RuleAssumption DEF Turn, Concerned, RuleRecord
    <2>2. CASE GiveUpRule(p)
      BY <1>1, <2>2, GiveUpRuleKeeps
    <2>3. CASE Explain(p)
      <3>1. PICK c \in Catalogue[rules[p]].finds[situation] :
                Produce(p, Confidence(rules[p], situation, c)) /\ troubled' = troubled
        BY <2>3 DEF Explain
      <3>2. c \in Correlation
        <4>1. Catalogue[rules[p]].finds \in [Situations -> SUBSET Correlation]
          BY <2>1, RuleAssumption DEF RuleRecord
        <4>2. QED  BY <2>1, <3>1, <4>1
      <3>3. Confidence(rules[p], situation, c) \in 0..95
        BY <2>1, <3>2, ConfidenceRange
      <3>4. QED  BY <1>1, <3>1, <3>3, ProduceKeeps
    <2>4. CASE ExplainNothing(p)
      <3>1. Confidence(rules[p], situation, NothingFound) \in 0..95
        BY <2>1, ConfidenceRange DEF NothingFound, Correlation
      <3>2. Produce(p, Confidence(rules[p], situation, NothingFound))
            /\ troubled' = troubled \cup {p}
        BY <2>4 DEF ExplainNothing, Trouble
      <3>3. QED  BY <1>1, <3>1, <3>2, ProduceKeeps
    <2>5. QED  BY <1>1, <2>2, <2>3, <2>4
  <1>2. CASE Finish
    BY <1>2, FinishKeeps
  <1>3. QED  BY <1>1, <1>2 DEF Scan

-----------------------------------------------------------------------------
(* A step that leaves the engine alone keeps what is said about it.        *)
LEMMA EngineUntouched ==
    ASSUME EngineInv, UNCHANGED engineVars
    PROVE  EngineInv'
  <1>1. /\ EngineTypeOK' /\ RulesSorted' /\ BestOfExplained'
    BY DEF EngineInv, EngineTypeOK, RulesSorted, BestOfExplained, Before, Candidates,
           engineVars, scanVars
  <1>2. OnlyUnrelatedLeftOut' /\ ScanSoFar'
    BY DEF EngineInv, OnlyUnrelatedLeftOut, BestBefore, ScanSoFar, Deps, engineVars, scanVars
  <1>3. QED  BY <1>1, <1>2 DEF EngineInv

(* Whatever step analyze() takes, the engine's invariant holds after it.   *)
LEMMA EngineStep ==
    ASSUME EngineInv, [Next]_vars
    PROVE  EngineInv'
  <1>1. CASE Boot
    BY <1>1, RegisterKeeps DEF Boot
  <1>2. CASE EvaluateEvent \/ NextEvent \/ AnswerByRule \/ AnswerInconclusive \/ Escalate
    BY <1>2, BeginOrForgetKeeps
       DEF EvaluateEvent, NextEvent, AnswerByRule, AnswerInconclusive, Escalate
  <1>3. CASE Evaluate
    BY <1>3, ScanKeeps DEF Evaluate
  <1>4. CASE \/ StartLLM \/ AnswerAtOnce \/ Analyze \/ OtherRefused
             \/ Diagnosed \/ AskAgain \/ NotDiagnosed \/ Broken
             \/ Check \/ Retried \/ NotRetried \/ Return
    BY <1>4, EngineUntouched
       DEF StartLLM, AnswerAtOnce, Analyze, OtherRefused, Diagnosed, AskAgain, NotDiagnosed,
           Broken, Check, Retried, NotRetried, Return
  <1>5. CASE UNCHANGED vars
    BY <1>5, EngineUntouched DEF vars
  <1>6. QED  BY <1>1, <1>2, <1>3, <1>4, <1>5 DEF Next, Work

-----------------------------------------------------------------------------
(* What the answers of the model and of the rules are clipped to.          *)
LEMMA WithinRange ==
    /\ \A x \in Int : Within(x, 70) \in 0..70 /\ Within(x, 95) \in 0..95
    /\ \A x \in Int : x <= 35 => Within(x, 70) <= 35
  BY DEF Within

\* A diagnosis of the engine is an answer the coordinator may give.
LEMMA DiagnosesAreAnswers ==
    ASSUME NEW d \in Diagnoses
    PROVE  d \in Answers
  <1>1. ASSUME NEW n \in Nat, NEW chained \in BOOLEAN
        PROVE  LLMConfidence(n, chained) \in 0..70
    <2>1. n >= 3 => 2 * (n - 3) \in Nat
      OBVIOUS
    <2>2. \A x \in Nat : Lesser(x, 9) \in 0..9
      BY DEF Lesser
    <2>3. CASE n = 0
      BY <2>3 DEF LLMConfidence
    <2>4. CASE n \in 1..2
      BY <2>4 DEF LLMConfidence
    <2>5. CASE n >= 3
      <3>1. Lesser(2 * (n - 3), 9) \in 0..9
        BY <2>1, <2>2, <2>5
      <3> DEFINE more == Lesser(2 * (n - 3), 9)
      <3>2. LLMConfidence(n, chained) = (IF supported THEN 60 ELSE 50) + more
        BY <2>5 DEF LLMConfidence
      <3> HIDE DEF more
      <3>3. more \in 0..9
        BY <3>1 DEF more
      <3>4. QED  BY <3>2, <3>3
    <2>6. QED  BY <2>3, <2>4, <2>5
  <1>2. PICK n \in Citations, partial \in BOOLEAN, chained \in BOOLEAN, good \in BOOLEAN :
            d = [conf |-> IF partial THEN 30 ELSE LLMConfidence(n, chained),
                 good |-> good /\ n >= 2]
    BY DEF Diagnoses
  <1>3. LLMConfidence(n, chained) \in 0..70
    BY <1>1, AnalysisAssumption
  <1>4. (good /\ n >= 2) \in BOOLEAN
    OBVIOUS
  <1>5. QED  BY <1>2, <1>3, <1>4 DEF Answers

(* An answer of the model is a response, and not above the cap unless the  *)
(* verdict it is given with is good.                                       *)
LEMMA ModelResponse ==
    ASSUME NEW a \in Answers, NEW verdict, seen \in Readiness, RespondFrom(a, verdict)
    PROVE  /\ response' \in Responses /\ stage' = "answered"
           /\ verdict = "failed" => response'.conf <= 35
  <1> DEFINE capped == IF verdict = "failed" THEN Lesser(a.conf, 35) ELSE a.conf
             given == IF seen = "DEGRADED" THEN capped - 10 ELSE capped
  <1>1. a.conf \in 0..70
    BY DEF Answers
  <1>2. capped \in 0..70 /\ (verdict = "failed" => capped <= 35)
    BY <1>1 DEF Lesser
  <1>3. given \in Int /\ (verdict = "failed" => given <= 35)
    BY <1>2
  <1>4. /\ response' = [by |-> "LLM", state |-> seen, conf |-> Within(given, 70)]
        /\ stage' = "answered"
    BY DEF RespondFrom, Respond
  <1> HIDE DEF given
  <1>5. Within(given, 70) \in 0..95
    BY <1>3, WithinRange
  <1>6. verdict = "failed" => Within(given, 70) <= 35
    BY <1>3, WithinRange
  <1>7. QED  BY <1>4, <1>5, <1>6 DEF Responses

-----------------------------------------------------------------------------
(* The steps before the model is asked.                                    *)
LEMMA EvaluationKeepsStages ==
    ASSUME IInv, EngineInv',
           \/ Boot \/ StartLLM \/ AnswerAtOnce \/ Analyze
           \/ EvaluateEvent \/ Evaluate \/ NextEvent
    PROVE  StageInv'
  <1>1. EngineTypeOK /\ EngineTypeOK'
    BY DEF IInv, EngineInv
  <1>2. CASE Boot \/ StartLLM
    <2>1. /\ UNCHANGED <<seen, pending, llmVars, response>>
          /\ analyzer' \in {"off", "up", "down"} /\ stage' \in {"booting", "idle"}
          /\ stage = "booting"
      BY <1>2 DEF Boot, StartLLM, IInv, StageInv, AnalysisTypeOK
    <2>2. QED
      BY <1>1, <2>1
         DEF IInv, StageInv, AnalysisTypeOK, CheckedOrCapped, StageSoFar, llmVars
  <1>3. CASE AnswerAtOnce
    <2>1. PICK state \in Readiness :
              /\ seen' = state /\ stage' = "answered" /\ stage = "idle"
              /\ response' = [by |-> "INCONCLUSIVE", conf |-> 0, state |-> state]
              /\ UNCHANGED <<engineVars, analyzer, pending, llmVars>>
      BY <1>3 DEF AnswerAtOnce, Respond, Inconclusive
    <2>2. response' \in Responses /\ response'.by # "LLM"
      BY <2>1 DEF Responses
    <2>3. QED
      BY <1>1, <2>1, <2>2
         DEF IInv, StageInv, AnalysisTypeOK, CheckedOrCapped, StageSoFar, llmVars
  <1>4. CASE Analyze
    <2>1. pending' \in 1..MaxEvents /\ seen' \in Readiness
      BY <1>4 DEF Analyze
    <2>2. QED
      BY <1>1, <1>4, <2>1, AnalysisAssumption
         DEF Analyze, IInv, StageInv, AnalysisTypeOK, CheckedOrCapped, StageSoFar, llmVars,
             engineVars
  <1>5. CASE EvaluateEvent
    <2>1. pending' = pending - 1 /\ pending > 0
      BY <1>5 DEF EvaluateEvent, IInv, StageInv, StageSoFar
    <2>2. phase' = "scanning"
      BY <1>5 DEF EvaluateEvent, Begin
    <2>3. pending' \in 0..MaxEvents
      BY <2>1, AnalysisAssumption DEF IInv, StageInv, AnalysisTypeOK
    <2>4. QED
      BY <1>1, <1>5, <2>2, <2>3
         DEF EvaluateEvent, IInv, StageInv, AnalysisTypeOK, CheckedOrCapped, StageSoFar, llmVars
  <1>6. CASE Evaluate
    <2>1. phase' # "idle"
      BY <1>6 DEF Evaluate, Scan, GiveUpRule, Explain, ExplainNothing, Produce, Finish
    <2>2. QED
      BY <1>1, <1>6, <2>1
         DEF Evaluate, IInv, StageInv, AnalysisTypeOK, CheckedOrCapped, StageSoFar, llmVars
  <1>7. CASE NextEvent
    BY <1>1, <1>7
       DEF NextEvent, IInv, StageInv, AnalysisTypeOK, CheckedOrCapped, StageSoFar, llmVars
  <1>8. QED  BY <1>2, <1>3, <1>4, <1>5, <1>6, <1>7

(* The steps that end the evaluation.                                      *)
LEMMA VerdictKeepsStages ==
    ASSUME IInv, EngineInv', AnswerByRule \/ AnswerInconclusive \/ Escalate
    PROVE  StageInv'
  <1>1. EngineTypeOK /\ EngineTypeOK'
    BY DEF IInv, EngineInv
  <1>2. CASE AnswerByRule
    <2>1. best.conf \in 0..95
      BY <1>1, <1>2 DEF AnswerByRule, EngineTypeOK, Candidates
    <2>2. Penalised(best.conf, seen) \in 0..95
      <3>1. \A x \in Int : Within(x, 95) \in 0..95
        BY WithinRange
      <3>2. QED  BY <2>1, <3>1 DEF Penalised
    <2>3. /\ response' = [by |-> "RULE_ENGINE", conf |-> Penalised(best.conf, seen),
                          state |-> seen]
          /\ stage' = "answered" /\ stage = "evaluating"
          /\ UNCHANGED <<analyzer, seen, pending, llmVars>>
      BY <1>2 DEF AnswerByRule, Respond, Evaluated
    <2>4. response' \in Responses /\ response'.by # "LLM"
      BY <2>2, <2>3 DEF Responses, IInv, StageInv, AnalysisTypeOK
    <2>5. QED
      BY <1>1, <2>3, <2>4
         DEF IInv, StageInv, AnalysisTypeOK, CheckedOrCapped, StageSoFar, llmVars
  <1>3. CASE AnswerInconclusive
    <2>1. /\ response' = [by |-> "INCONCLUSIVE", conf |-> 0, state |-> seen]
          /\ stage' = "answered"
          /\ UNCHANGED <<analyzer, seen, pending, llmVars>>
      BY <1>3 DEF AnswerInconclusive, Respond, Inconclusive
    <2>2. response' \in Responses /\ response'.by # "LLM"
      BY <2>1 DEF Responses, IInv, StageInv, AnalysisTypeOK
    <2>3. QED
      BY <1>1, <2>1, <2>2
         DEF IInv, StageInv, AnalysisTypeOK, CheckedOrCapped, StageSoFar, llmVars
  <1>4. CASE Escalate
    <2>1. /\ supported' \in BOOLEAN /\ stage' = "asking" /\ calls' = 1 /\ stage = "evaluating"
          /\ UNCHANGED <<analyzer, seen, pending, attempt, answer, quality, retries, response>>
      BY <1>4 DEF Escalate, Unexplained, Evaluated
    <2>2. attempt \in Nat /\ retries = 0 /\ response = None
      BY <2>1 DEF IInv, StageInv, AnalysisTypeOK, StageSoFar
    <2>3. QED
      BY <1>1, <2>1, <2>2 DEF IInv, StageInv, AnalysisTypeOK, CheckedOrCapped, StageSoFar
  <1>5. QED  BY <1>2, <1>3, <1>4

(* The steps while the model is asked for a diagnosis.                     *)
LEMMA AskingKeepsStages ==
    ASSUME IInv, EngineInv', Diagnosed \/ AskAgain \/ NotDiagnosed \/ Broken \/ OtherRefused
    PROVE  StageInv'
  <1>1. EngineTypeOK /\ EngineTypeOK'
    BY DEF IInv, EngineInv
  <1>2. CASE Diagnosed
    <2>1. answer' \in Answers
      BY <1>2, DiagnosesAreAnswers DEF Diagnosed
    <2>2. QED
      BY <1>1, <1>2, <2>1
         DEF Diagnosed, NotRefused, IInv, StageInv, AnalysisTypeOK, CheckedOrCapped, StageSoFar,
             QualityRetries
  <1>3. CASE AskAgain
    <2>1. attempt' \in 0..MaxRetries /\ calls' \in Nat /\ calls' <= attempt' + 1 + retries
      BY <1>3, AnalysisAssumption
         DEF AskAgain, IInv, StageInv, AnalysisTypeOK, StageSoFar, QualityRetries
    <2>2. QED
      BY <1>1, <1>3, <2>1
         DEF AskAgain, NotRefused, IInv, StageInv, AnalysisTypeOK, CheckedOrCapped, StageSoFar
  <1>4. CASE NotDiagnosed
    <2>1. /\ response' = [by |-> "INCONCLUSIVE", conf |-> 0, state |-> seen]
          /\ stage' = "answered" /\ analyzer' \in {"off", "up", "down"}
          /\ UNCHANGED <<engineVars, seen, pending, llmVars>>
      BY <1>4 DEF NotDiagnosed, Respond, Inconclusive, Refused, NotRefused, IInv, StageInv,
                  AnalysisTypeOK
    <2>2. response' \in Responses /\ response'.by # "LLM"
      BY <2>1 DEF Responses, IInv, StageInv, AnalysisTypeOK
    <2>3. QED
      BY <1>1, <2>1, <2>2
         DEF IInv, StageInv, AnalysisTypeOK, CheckedOrCapped, StageSoFar, llmVars
  <1>5. CASE Broken
    BY <1>1, <1>5
       DEF Broken, IInv, StageInv, AnalysisTypeOK, CheckedOrCapped, StageSoFar, llmVars
  <1>6. CASE OtherRefused
    BY <1>1, <1>6
       DEF OtherRefused, Refused, IInv, StageInv, AnalysisTypeOK, CheckedOrCapped, StageSoFar,
           llmVars, engineVars
  <1>7. QED  BY <1>2, <1>3, <1>4, <1>5, <1>6

(* The steps of the quality loop, and the end.                             *)
LEMMA CheckingKeepsStages ==
    ASSUME IInv, EngineInv', Check \/ Retried \/ NotRetried \/ Return
    PROVE  StageInv'
  <1>1. EngineTypeOK /\ EngineTypeOK'
    BY DEF IInv, EngineInv
  <1>2. seen \in Readiness
    BY DEF IInv, StageInv, AnalysisTypeOK
  <1>3. CASE Check
    <2>1. answer \in Answers /\ retries \in Nat /\ retries < QualityRetries
          /\ attempt \in Nat /\ calls \in Nat /\ calls <= attempt + 1 + retries
      BY <1>3 DEF Check, IInv, StageInv, StageSoFar, AnalysisTypeOK
    <2>2. CASE answer.good /\ RespondFrom(answer, "passed") /\ UNCHANGED <<retries, calls>>
      <3>1. response' \in Responses /\ stage' = "answered"
        BY <1>2, <2>1, <2>2, ModelResponse
      <3>2. QED
        BY <1>1, <1>3, <2>1, <2>2, <3>1
           DEF Check, IInv, StageInv, AnalysisTypeOK, CheckedOrCapped, StageSoFar
    <2>3. CASE /\ ~ answer.good
               /\ retries' = retries + 1 /\ calls' = calls + 1
               /\ stage' = "retrying" /\ UNCHANGED response
      <3>1. /\ retries' \in 0..QualityRetries /\ calls' \in Nat
            /\ calls' <= attempt + 1 + retries'
        BY <2>1, <2>3 DEF QualityRetries
      <3>2. quality' = "failed" /\ response = None
        BY <1>3, <2>3 DEF Check, IInv, StageInv, StageSoFar
      <3>3. QED
        BY <1>1, <1>3, <2>1, <2>3, <3>1, <3>2
           DEF Check, IInv, StageInv, AnalysisTypeOK, CheckedOrCapped, StageSoFar
    <2>4. QED  BY <1>3, <2>2, <2>3 DEF Check
  <1>4. CASE Retried
    <2>1. answer' \in Answers /\ quality = "failed" /\ retries \in 0..QualityRetries
          /\ response = None
      BY <1>4, DiagnosesAreAnswers
         DEF Retried, IInv, StageInv, StageSoFar, AnalysisTypeOK
    <2>2. CASE retries < QualityRetries /\ stage' = "checking" /\ UNCHANGED response
      BY <1>1, <1>4, <2>1, <2>2
         DEF Retried, NotRefused, IInv, StageInv, AnalysisTypeOK, CheckedOrCapped, StageSoFar
    <2>3. CASE RespondFrom(answer', quality)
      <3>1. response' \in Responses /\ stage' = "answered" /\ response'.conf <= 35
        BY <1>2, <2>1, <2>3, ModelResponse
      <3>2. ~ (response'.conf > 35)
        BY <3>1 DEF Responses
      <3>3. QED
        BY <1>1, <1>4, <2>1, <3>1, <3>2
           DEF Retried, NotRefused, IInv, StageInv, AnalysisTypeOK, CheckedOrCapped, StageSoFar
    <2>4. QED  BY <1>4, <2>2, <2>3 DEF Retried
  <1>5. CASE NotRetried
    <2>1. answer \in Answers /\ quality = "failed" /\ RespondFrom(answer, quality)
          /\ analyzer' \in {"off", "up", "down"}
      BY <1>5 DEF NotRetried, NotRefused, Refused, IInv, StageInv, StageSoFar, AnalysisTypeOK
    <2>2. response' \in Responses /\ stage' = "answered" /\ response'.conf <= 35
      BY <1>2, <2>1, ModelResponse
    <2>3. ~ (response'.conf > 35)
      BY <2>2 DEF Responses
    <2>4. QED
      BY <1>1, <1>5, <2>1, <2>2, <2>3
         DEF NotRetried, IInv, StageInv, AnalysisTypeOK, CheckedOrCapped, StageSoFar, llmVars,
             engineVars
  <1>6. CASE Return
    <2>1. /\ stage' = "idle" /\ seen' = "WARMING" /\ response' = None /\ pending' = 0
          /\ attempt' = 0 /\ supported' = FALSE /\ answer' = None /\ quality' = "unchecked"
          /\ retries' = 0 /\ calls' = 0 /\ UNCHANGED analyzer
      BY <1>6 DEF Return
    <2>2. 0 \in 0..MaxEvents /\ 0 \in 0..MaxRetries /\ 0 \in 0..QualityRetries
      BY AnalysisAssumption DEF QualityRetries
    <2>3. AnalysisTypeOK'
      BY <1>1, <2>1, <2>2 DEF IInv, StageInv, AnalysisTypeOK, Readiness
    <2>4. CheckedOrCapped' /\ StageSoFar'
      BY <2>1 DEF CheckedOrCapped, StageSoFar
    <2>5. QED  BY <2>3, <2>4 DEF StageInv
  <1>7. QED  BY <1>3, <1>4, <1>5, <1>6

-----------------------------------------------------------------------------
\* The invariant holds when the coordinator is built.
LEMMA IInvInit ==
    ASSUME Init
    PROVE  IInv
  <1>1. EngineTypeOK
    BY DEF Init, EngineInit, EngineTypeOK, Candidates
  <1>2. rules = <<>> /\ Len(rules) = 0
    BY DEF Init, EngineInit
  <1>3. RulesSorted /\ BestOfExplained /\ OnlyUnrelatedLeftOut /\ ScanSoFar
    BY <1>2 DEF Init, EngineInit, RulesSorted, BestOfExplained, OnlyUnrelatedLeftOut, ScanSoFar
  <1>4. AnalysisTypeOK
    <2>1. /\ analyzer = "off" /\ stage = "booting" /\ seen = "WARMING" /\ pending = 0
          /\ attempt = 0 /\ supported = FALSE /\ answer = None /\ quality = "unchecked"
          /\ retries = 0 /\ calls = 0 /\ response = None
      BY DEF Init
    <2>2. 0 \in 0..MaxEvents /\ 0 \in 0..MaxRetries /\ 0 \in 0..QualityRetries
      BY AnalysisAssumption DEF QualityRetries
    <2>3. QED  BY <1>1, <2>1, <2>2 DEF AnalysisTypeOK, Readiness
  <1>5. CheckedOrCapped /\ StageSoFar
    BY DEF Init, CheckedOrCapped, StageSoFar
  <1>6. QED  BY <1>1, <1>3, <1>4, <1>5 DEF IInv, EngineInv, StageInv

\* Every step of engine and coordinator preserves it.
LEMMA IInvStep ==
    ASSUME IInv, [Next]_vars
    PROVE  IInv'
  <1>1. EngineInv'
    BY EngineStep DEF IInv
  <1>2. CASE \/ Boot \/ StartLLM \/ AnswerAtOnce \/ Analyze
             \/ EvaluateEvent \/ Evaluate \/ NextEvent
    BY <1>1, <1>2, EvaluationKeepsStages DEF IInv
  <1>3. CASE AnswerByRule \/ AnswerInconclusive \/ Escalate
    BY <1>1, <1>3, VerdictKeepsStages DEF IInv
  <1>4. CASE Diagnosed \/ AskAgain \/ NotDiagnosed \/ Broken \/ OtherRefused
    BY <1>1, <1>4, AskingKeepsStages DEF IInv
  <1>5. CASE Check \/ Retried \/ NotRetried \/ Return
    BY <1>1, <1>5, CheckingKeepsStages DEF IInv
  <1>6. CASE UNCHANGED vars
    BY <1>1, <1>6
       DEF IInv, EngineInv, StageInv, AnalysisTypeOK, CheckedOrCapped, StageSoFar, vars,
           engineVars, llmVars
  <1>7. QED  BY <1>2, <1>3, <1>4, <1>5, <1>6 DEF Next, Work

\* So it holds in every reachable state.
LEMMA AlwaysIInv == Spec => []IInv
  <1>1. Init => IInv
    BY IInvInit
  <1>2. IInv /\ [Next]_vars => IInv'
    BY IInvStep
  <1>3. QED  BY <1>1, <1>2, PTL DEF Spec

(* The variables of engine, analyzer and coordinator stay within their     *)
(* ranges: every confidence is at most 0.95, and 0.70 where the model      *)
(* computed it.                                                            *)
THEOREM TypeCorrect == Spec => []AnalysisTypeOK
  <1>1. IInv => AnalysisTypeOK
    BY DEF IInv, StageInv
  <1>2. QED  BY <1>1, AlwaysIInv, PTL

(* The rules stand in the order of (priority, rule_id), whatever order     *)
(* they are registered in.                                                 *)
THEOREM RulesAreSorted == Spec => []RulesSorted
  <1>1. IInv => RulesSorted
    BY DEF IInv, EngineInv
  <1>2. QED  BY <1>1, AlwaysIInv, PTL

(* evaluate() returns the first of the most confident results obtained.    *)
THEOREM BestIsReturned == Spec => []BestOfExplained
  <1>1. IInv => BestOfExplained
    BY DEF IInv, EngineInv
  <1>2. QED  BY <1>1, AlwaysIInv, PTL

(* A matching rule is only left out because it failed, or because the best *)
(* result before it has medium confidence and shares no dependency with it.*)
THEOREM NoRelatedRuleIsLeftOut == Spec => []OnlyUnrelatedLeftOut
  <1>1. IInv => OnlyUnrelatedLeftOut
    BY DEF IInv, EngineInv
  <1>2. QED  BY <1>1, AlwaysIInv, PTL

(* An answer of the model above the cap has passed its quality check.      *)
THEOREM UncheckedIsCapped == Spec => []CheckedOrCapped
  <1>1. IInv => CheckedOrCapped
    BY DEF IInv, StageInv
  <1>2. QED  BY <1>1, AlwaysIInv, PTL

(* The calls an analysis makes of the model are bounded.                   *)
THEOREM CallsAreBounded == Spec => []BoundedCalls
  <1>1. IInv => BoundedCalls
    <2>1. SUFFICES ASSUME IInv PROVE BoundedCalls
      OBVIOUS
    <2>2. /\ calls \in Nat /\ attempt \in 0..MaxRetries /\ retries \in 0..QualityRetries
          /\ calls <= attempt + 1 + retries
      BY <2>1 DEF IInv, StageInv, AnalysisTypeOK, StageSoFar
    <2>3. QED  BY <2>2, AnalysisAssumption DEF BoundedCalls, QualityRetries
  <1>2. QED  BY <1>1, AlwaysIInv, PTL

-----------------------------------------------------------------------------
(***************************************************************************)
(* The eighteen rules.  From here on what is proved is about the catalogue *)
(* of DiagnosticRules, in any reachable state of any analysis.             *)
(***************************************************************************)
DiagnosticConstants ==
    /\ Rules = RuleNumbers /\ Tier1 = Tier1Numbers
    /\ Situations = ClusterSituations
    /\ Catalogue = DiagnosticCatalogue

\* All the rules but R05 and R18 read the pod.
LEMMA PodIsRead ==
    /\ "Pod" \in R01.deps /\ "Pod" \in R02.deps /\ "Pod" \in R03.deps /\ "Pod" \in R04.deps
    /\ "Pod" \in R06.deps /\ "Pod" \in R07.deps /\ "Pod" \in R08.deps /\ "Pod" \in R09.deps
    /\ "Pod" \in R10.deps /\ "Pod" \in R11.deps /\ "Pod" \in R12.deps /\ "Pod" \in R13.deps
    /\ "Pod" \in R14.deps /\ "Pod" \in R15.deps /\ "Pod" \in R16.deps /\ "Pod" \in R17.deps
  <1>1. "Pod" \in R01.deps
    BY DEF R01, Rule
  <1>2. "Pod" \in R02.deps
    BY DEF R02, Rule
  <1>3. "Pod" \in R03.deps
    BY DEF R03, Rule
  <1>4. "Pod" \in R04.deps
    BY DEF R04, Rule
  <1>6. "Pod" \in R06.deps
    BY DEF R06, Rule
  <1>7. "Pod" \in R07.deps
    BY DEF R07, Rule
  <1>8. "Pod" \in R08.deps
    BY DEF R08, Rule
  <1>9. "Pod" \in R09.deps
    BY DEF R09, Rule
  <1>10. "Pod" \in R10.deps
    BY DEF R10, Rule
  <1>11. "Pod" \in R11.deps
    BY DEF R11, Rule
  <1>12. "Pod" \in R12.deps
    BY DEF R12, Rule
  <1>13. "Pod" \in R13.deps
    BY DEF R13, Rule
  <1>14. "Pod" \in R14.deps
    BY DEF R14, Rule
  <1>15. "Pod" \in R15.deps
    BY DEF R15, Rule
  <1>16. "Pod" \in R16.deps
    BY DEF R16, Rule
  <1>17. "Pod" \in R17.deps
    BY DEF R17, Rule
  <1>18. QED
    BY <1>1, <1>2, <1>3, <1>4, <1>6, <1>7, <1>8, <1>9, <1>10, <1>11, <1>12, <1>13, <1>14, <1>15,
       <1>16, <1>17

\* The rules that stand before R08 are among them.
LEMMA ReadThePod ==
    ASSUME DiagnosticConstants, NEW r \in Rules, Before(r, 8)
    PROVE  "Pod" \in Catalogue[r].deps
  <1>1. r \in 1..18
    BY DEF DiagnosticConstants, RuleNumbers
  <1>2. Catalogue[8].priority = 20 /\ Catalogue[5].priority = 30 /\ Catalogue[18].priority = 22
    <2>1. R08.priority = 20
      BY DEF R08, Rule
    <2>2. R05.priority = 30
      BY DEF R05, Rule
    <2>3. R18.priority = 22
      BY DEF R18, Rule
    <2>4. Catalogue[8] = R08 /\ Catalogue[5] = R05 /\ Catalogue[18] = R18
      BY DEF DiagnosticConstants, DiagnosticCatalogue
    <2>5. QED  BY <2>1, <2>2, <2>3, <2>4
  <1>3. r # 5 /\ r # 18
    BY <1>2 DEF Before
  <1>4. /\ Catalogue[1] = R01 /\ Catalogue[2] = R02 /\ Catalogue[3] = R03 /\ Catalogue[4] = R04
        /\ Catalogue[6] = R06 /\ Catalogue[7] = R07 /\ Catalogue[8] = R08 /\ Catalogue[9] = R09
        /\ Catalogue[10] = R10 /\ Catalogue[11] = R11 /\ Catalogue[12] = R12
        /\ Catalogue[13] = R13 /\ Catalogue[14] = R14 /\ Catalogue[15] = R15
        /\ Catalogue[16] = R16 /\ Catalogue[17] = R17
    BY DEF DiagnosticConstants, DiagnosticCatalogue
  <1>5. r \in {1, 2, 3, 4, 6, 7, 8, 9, 10, 11, 12, 13, 14, 15, 16, 17}
    BY <1>1, <1>3
  <1>6. QED  BY <1>4, <1>5, PodIsRead

\* the four families of situations, by what their events and caches differ in
OfMount(r, a, b, c) ==
    [Quiet EXCEPT !.reason = r, !.about = a, !.repeated = b, !.deployment = b,
                  !.named = c[1], !.unbound = c[2], !.bound = c[3]]
OfScheduling(a, b, d, c) ==
    [Quiet EXCEPT !.reason = "FailedScheduling", !.about = a, !.repeated = b, !.deployment = d,
                  !.nodes = c[1], !.unbound = c[2]]
OfContainer(r, a, b, d) ==
    [Quiet EXCEPT !.reason = r, !.about = a, !.repeated = b, !.deployment = d]
OfOther(r, a, b) == [Quiet EXCEPT !.reason = r, !.about = a, !.repeated = b]

\* The claims are counted in every situation.
LEMMA UnboundIsNumber ==
    ASSUME NEW s \in ClusterSituations
    PROVE  s.unbound \in Nat
  <1>1. CASE s \in MountSituations
    <2> DEFINE Stocks == {<<"absent", 0, 0>>, <<"unbound", 0, 1>>, <<"bound", 1, 0>>,
                          <<"bound", 2, 2>>}
    <2>1. \A c \in Stocks : c[2] \in Nat
      <3>1. /\ <<"absent", 0, 0>>[2] \in Nat /\ <<"unbound", 0, 1>>[2] \in Nat
            /\ <<"bound", 1, 0>>[2] \in Nat /\ <<"bound", 2, 2>>[2] \in Nat
        OBVIOUS
      <3>2. QED  BY <3>1, Zenon
    <2>2. MountSituations = {OfMount(r, a, b, c) :
              r \in {"FailedMount", "FailedAttachVolume"}, a \in UpTo(2, MountTopics),
              b \in BOOLEAN, c \in Stocks}
      BY DEF MountSituations, OfMount
    <2> HIDE DEF Stocks
    <2>3. PICK r \in {"FailedMount", "FailedAttachVolume"}, a \in UpTo(2, MountTopics),
               b \in BOOLEAN, c \in Stocks : s = OfMount(r, a, b, c)
      BY <1>1, <2>2
    <2>4. s.unbound = c[2]
      BY <2>3 DEF OfMount, Quiet
    <2>5. QED  BY <2>1, <2>4
  <1>2. CASE s \in SchedulingSituations
    <2> DEFINE Clusters == {<<0, 0>>, <<1, 0>>, <<0, 1>>, <<2, 1>>}
               Topics == SUBSET {"nodes", "constraint", "unbound claim"}
    <2>1. \A c \in Clusters : c[2] \in Nat
      OBVIOUS
    <2>2. SchedulingSituations = {OfScheduling(a, b, d, c) :
              a \in Topics, b \in BOOLEAN, d \in BOOLEAN, c \in Clusters}
      BY DEF SchedulingSituations, OfScheduling
    <2> HIDE DEF Clusters, Topics
    <2>3. PICK a \in Topics, b \in BOOLEAN, d \in BOOLEAN, c \in Clusters :
              s = OfScheduling(a, b, d, c)
      BY <1>2, <2>2
    <2>4. s.unbound = c[2]
      BY <2>3 DEF OfScheduling, Quiet
    <2>5. QED  BY <2>1, <2>4
  <1>3. CASE s \in ContainerSituations
    <2> DEFINE Reasons == {"OOMKilled", "CrashLoopBackOff", "BackOff", "ImagePullBackOff",
                           "Failed", "Unhealthy"}
               Topics == UpTo(1, {"secret", "readiness", "phase lost"})
    <2>1. ContainerSituations = {OfContainer(r, a, b, d) :
              r \in Reasons, a \in Topics, b \in BOOLEAN, d \in BOOLEAN}
      BY DEF ContainerSituations, OfContainer
    <2> HIDE DEF Reasons, Topics
    <2>2. PICK r \in Reasons, a \in Topics, b \in BOOLEAN, d \in BOOLEAN :
              s = OfContainer(r, a, b, d)
      BY <1>3, <2>1
    <2>3. QED  BY <2>2 DEF OfContainer, Quiet
  <1>4. CASE s \in OtherSituations
    <2> DEFINE Reasons == {"NotReady", "MemoryPressure", "FailedGetScale", "FailedCreate",
                           "Evicted", "Killing", "ClaimLost", "Scheduled"}
               Topics == UpTo(1, {"refused", "quota", "exceeded quota", "eviction",
                                  "phase lost"})
    <2>1. OtherSituations = {OfOther(r, a, b) : r \in Reasons, a \in Topics, b \in BOOLEAN}
      BY DEF OtherSituations, OfOther
    <2> HIDE DEF Reasons, Topics
    <2>2. PICK r \in Reasons, a \in Topics, b \in BOOLEAN : s = OfOther(r, a, b)
      BY <1>4, <2>1
    <2>3. QED  BY <2>2 DEF OfOther, Quiet
  <1>5. QED  BY <1>1, <1>2, <1>3, <1>4 DEF ClusterSituations

\* So are those that R08 finds.
LEMMA CountsOfClaims ==
    ASSUME NEW s \in ClusterSituations
    PROVE  ClaimsAtHand(s) \in Nat
  <1>1. s.unbound \in Nat
    BY UnboundIsNumber
  <1>3. One(s.named = "unbound") \in Nat /\ One(NamesCached(s) /\ s.named = "bound") \in Nat
    BY DEF One
  <1>4. QED  BY <1>1, <1>3 DEF ClaimsAtHand, UnboundClaims

\* R11 - R14 are registered with R08, behind it, and match where it matches.
LEMMA MountRules ==
    ASSUME DiagnosticConstants
    PROVE  /\ Catalogue[8] = R08
           /\ Catalogue[11] = R11 /\ Catalogue[12] = R12
           /\ Catalogue[13] = R13 /\ Catalogue[14] = R14
           /\ 8 \in Rules /\ 8 \notin Tier1
           /\ \A r \in {11, 12, 13, 14} :
                 /\ r \notin Tier1 /\ Before(8, r)
                 /\ Catalogue[r].matches \subseteq Catalogue[8].matches
  <1>1. /\ Catalogue[8] = R08
        /\ Catalogue[11] = R11 /\ Catalogue[12] = R12
        /\ Catalogue[13] = R13 /\ Catalogue[14] = R14
    BY DEF DiagnosticConstants, DiagnosticCatalogue
  <1>2. R08.priority = 20 /\ R08.matches = On({"FailedMount", "FailedAttachVolume"})
    BY DEF R08, Rule
  <1>3. R11.priority = 20 /\ R11.matches \subseteq On({"FailedMount"})
    BY DEF R11, Rule
  <1>4. R12.priority = 20 /\ R12.matches \subseteq On({"FailedMount"})
    BY DEF R12, Rule
  <1>5. R13.priority = 20 /\ R13.matches \subseteq On({"FailedMount", "FailedAttachVolume"})
    BY DEF R13, Rule
  <1>6. R14.priority = 22 /\ R14.matches \subseteq On({"FailedMount"})
    BY DEF R14, Rule
  <1>7. On({"FailedMount"}) \subseteq On({"FailedMount", "FailedAttachVolume"})
    BY DEF On
  <1>8. 8 \in Rules /\ \A r \in {8, 11, 12, 13, 14} : r \notin Tier1
    BY DEF DiagnosticConstants, RuleNumbers, Tier1Numbers
  <1>9. \A r \in {11, 12, 13, 14} : Before(8, r)
    BY <1>1, <1>2, <1>3, <1>4, <1>5, <1>6 DEF Before
  <1>10. \A r \in {11, 12, 13, 14} : Catalogue[r].matches \subseteq Catalogue[8].matches
    BY <1>1, <1>2, <1>3, <1>4, <1>5, <1>6, <1>7
  <1>11. QED  BY <1>1, <1>8, <1>9, <1>10

\* R08 and R13 look at the same claims, and only R08 finds changes.
LEMMA MountFindings ==
    ASSUME DiagnosticConstants, NEW s \in ClusterSituations
    PROVE  /\ \A c \in Catalogue[8].finds[s] : c.single = (ClaimsAtHand(s) <= 1)
           /\ \A r \in {11, 12, 13, 14} : \A c \in Catalogue[r].finds[s] :
                 c.changes = "none"
           /\ \A c \in Catalogue[13].finds[s] : c.single = (ClaimsAtHand(s) <= 1)
  <1>1. ASSUME NEW b PROVE \A c \in NoChange({b}) : c.changes = "none" /\ c.single = b
    BY DEF NoChange
  <1>2. ASSUME NEW singles PROVE \A c \in NoChange(singles) : c.changes = "none"
    BY DEF NoChange
  <1>3. ASSUME NEW b PROVE \A c \in MayChange({b}) : c.single = b
    BY DEF MayChange
  <1>4. R08.finds = [t \in ClusterSituations |->
            IF NamesCached(t) THEN MayChange({ClaimsAtHand(t) <= 1})
            ELSE NoChange({ClaimsAtHand(t) <= 1})]
    BY DEF R08, Rule
  <1>5. \/ R08.finds[s] = MayChange({ClaimsAtHand(s) <= 1})
        \/ R08.finds[s] = NoChange({ClaimsAtHand(s) <= 1})
    BY <1>4
  <1>6. R11.finds[s] = NoChange({TRUE})
    <2>1. R11.finds = Anywhere(NoChange({TRUE}))
      BY DEF R11, Rule
    <2>2. QED  BY <2>1 DEF Anywhere
  <1>7. R12.finds[s] = NoChange({TRUE})
    <2>1. R12.finds = Anywhere(NoChange({TRUE}))
      BY DEF R12, Rule
    <2>2. QED  BY <2>1 DEF Anywhere
  <1>8. R13.finds[s] = NoChange({ClaimsAtHand(s) <= 1})
    <2>1. R13.finds = [t \in ClusterSituations |-> NoChange({ClaimsAtHand(t) <= 1})]
      BY DEF R13, Rule
    <2>2. QED  BY <2>1
  <1>9. R14.finds[s] = NoChange({AllClaims(s) <= 1})
    <2>1. R14.finds = [t \in ClusterSituations |-> NoChange({AllClaims(t) <= 1})]
      BY DEF R14, Rule
    <2>2. QED  BY <2>1
  <1>10. \A c \in R08.finds[s] : c.single = (ClaimsAtHand(s) <= 1)
    BY <1>1, <1>3, <1>5, Zenon
  <1>11. /\ \A c \in R11.finds[s] : c.changes = "none"
         /\ \A c \in R12.finds[s] : c.changes = "none"
         /\ \A c \in R13.finds[s] : c.changes = "none" /\ c.single = (ClaimsAtHand(s) <= 1)
         /\ \A c \in R14.finds[s] : c.changes = "none"
    <2>1. \A c \in R11.finds[s] : c.changes = "none"
      BY <1>2, <1>6
    <2>2. \A c \in R12.finds[s] : c.changes = "none"
      BY <1>2, <1>7
    <2>3. \A c \in R13.finds[s] : c.changes = "none" /\ c.single = (ClaimsAtHand(s) <= 1)
      BY <1>1, <1>8, Zenon
    <2>4. \A c \in R14.finds[s] : c.changes = "none"
      BY <1>2, <1>9
    <2>5. QED  BY <2>1, <2>2, <2>3, <2>4
  <1>12. /\ Catalogue[8] = R08
         /\ Catalogue[11] = R11 /\ Catalogue[12] = R12
         /\ Catalogue[13] = R13 /\ Catalogue[14] = R14
    BY MountRules
  <1>13. \A c \in Catalogue[8].finds[s] : c.single = (ClaimsAtHand(s) <= 1)
    BY <1>10, <1>12, Zenon
  <1>14. \A c \in Catalogue[13].finds[s] : c.single = (ClaimsAtHand(s) <= 1)
    BY <1>11, <1>12, Zenon
  <1>15. \A r \in {11, 12, 13, 14} : \A c \in Catalogue[r].finds[s] : c.changes = "none"
    BY <1>11, <1>12
  <1>16. QED  BY <1>13, <1>14, <1>15

\* How the confidences of these rules are computed.
LEMMA MountConfidences ==
    ASSUME DiagnosticConstants, NEW s, NEW c
    PROVE  /\ Confidence(8, s, c) = Lesser(95, 60 + Bonus(c.changes # "none", 15)
                  + Bonus(c.changes = "recent", 10) + Bonus(s.repeated, 5) + Bonus(c.single, 5))
           /\ c.changes = "none" => \A r \in {11, 12, 13, 14} :
                 Confidence(r, s, c) =
                    Lesser(95, (IF r = 14 THEN 55 ELSE 60) + 0 + 0 + Bonus(s.repeated, 5)
                               + Bonus(c.single, 5))
  <1>1. R08.base = 60 /\ R08.baseOnly = {}
    BY DEF R08, Rule
  <1>2. R11.base = 60 /\ R11.baseOnly = {}
    BY DEF R11, Rule
  <1>3. R12.base = 60 /\ R12.baseOnly = {}
    BY DEF R12, Rule
  <1>4. R13.base = 60 /\ R13.baseOnly = {}
    BY DEF R13, Rule
  <1>5. R14.base = 55 /\ R14.baseOnly = {}
    BY DEF R14, Rule
  <1>6. Confidence(8, s, c) = Lesser(95, 60 + Bonus(c.changes # "none", 15)
                  + Bonus(c.changes = "recent", 10) + Bonus(s.repeated, 5) + Bonus(c.single, 5))
    BY <1>1, MountRules DEF Confidence
  <1>7. ASSUME c.changes = "none", NEW r \in {11, 12, 13, 14}
        PROVE  Confidence(r, s, c) =
                    Lesser(95, (IF r = 14 THEN 55 ELSE 60) + 0 + 0 + Bonus(s.repeated, 5)
                               + Bonus(c.single, 5))
    <2>1. s \notin Catalogue[r].baseOnly /\ Catalogue[r].base = IF r = 14 THEN 55 ELSE 60
      BY <1>2, <1>3, <1>4, <1>5, MountRules
    <2>2. Bonus(c.changes # "none", 15) = 0 /\ Bonus(c.changes = "recent", 10) = 0
      BY <1>7 DEF Bonus
    <2>3. QED  BY <2>1, <2>2 DEF Confidence
  <1>8. QED  BY <1>6, <1>7

(* The general rule is at least as confident as a special one, unless it   *)
(* loses the bonus for a single resource where the special one has it.     *)
LEMMA GeneralIsConfident ==
    ASSUME DiagnosticConstants, NEW s \in ClusterSituations,
           NEW g, g.single = (ClaimsAtHand(s) <= 1),
           NEW r \in {11, 12, 13, 14}, NEW c, c.changes = "none",
           r = 13 => c.single = (ClaimsAtHand(s) <= 1),
           r \in {11, 12} => ClaimsAtHand(s) <= 1
    PROVE  Confidence(r, s, c) <= Confidence(8, s, g)
  <1>1. \A b, n : Bonus(b, n) \in {0, n}
    BY DEF Bonus
  <1>2. /\ Bonus(g.changes # "none", 15) \in {0, 15}
        /\ Bonus(g.changes = "recent", 10) \in {0, 10}
        /\ Bonus(s.repeated, 5) \in {0, 5}
        /\ Bonus(g.single, 5) \in {0, 5} /\ Bonus(c.single, 5) \in {0, 5}
    BY <1>1, Zenon
  <1>3. r # 14 => Bonus(c.single, 5) = Bonus(g.single, 5) \/ Bonus(g.single, 5) = 5
    <2>1. CASE r = 13
      BY <2>1
    <2>2. CASE r \in {11, 12}
      <3>1. g.single = TRUE
        BY <2>2
      <3>2. Bonus(g.single, 5) = 5
        BY <3>1 DEF Bonus
      <3>3. QED  BY <3>2
    <2>3. QED  BY <2>1, <2>2
  <1> DEFINE base == IF r = 14 THEN 55 ELSE 60
             more == Bonus(g.changes # "none", 15)
             recent == Bonus(g.changes = "recent", 10)
             rep == Bonus(s.repeated, 5)
             gs == Bonus(g.single, 5)
             cs == Bonus(c.single, 5)
  <1>4. base \in {55, 60} /\ (base = 60 => cs = gs \/ gs = 5)
    BY <1>3
  <1>5. Confidence(r, s, c) = Lesser(95, base + 0 + 0 + rep + cs)
    BY MountConfidences
  <1>6. Confidence(8, s, g) = Lesser(95, 60 + more + recent + rep + gs)
    BY MountConfidences
  <1>7. more \in {0, 15} /\ recent \in {0, 10} /\ rep \in {0, 5} /\ gs \in {0, 5}
        /\ cs \in {0, 5}
    BY <1>2
  <1> HIDE DEF base, more, recent, rep, gs, cs
  <1>8. QED  BY <1>4, <1>5, <1>6, <1>7 DEF Lesser

-----------------------------------------------------------------------------
\* The rule at p explains with this confidence.
Obtainable(p, conf) ==
    \/ p \in troubled /\ conf = Confidence(rules[p], situation, NothingFound)
    \/ \E c \in Catalogue[rules[p]].finds[situation] :
          conf = Confidence(rules[p], situation, c)

\* What has been explained matched, and comes of a correlation there is.
ExplainedAreReal ==
    \A e \in explained :
        situation \in Catalogue[rules[e.at]].matches /\ Obtainable(e.at, e.conf)

\* Nothing is evaluated before the engine is built.
BootedFirst ==
    /\ stage # "booting" => Complete
    /\ phase # "idle" => stage = "evaluating"

\* what the order of the mount rules rests on
MaskInv == IInv /\ ExplainedAreReal /\ BootedFirst

\* Only Explain and ExplainNothing add to what has been explained.
LEMMA RealStep ==
    ASSUME IInv, ExplainedAreReal, [Next]_vars
    PROVE  ExplainedAreReal'
  <1>1. CASE UNCHANGED engineVars
    BY <1>1 DEF engineVars, scanVars, ExplainedAreReal, Obtainable, Confidence
  <1>2. CASE Boot
    <2>1. UNCHANGED <<phase, scanVars>> /\ phase = "idle"
      BY <1>2 DEF Boot, RegisterNext, Register
    <2>2. explained' = {}
      BY <2>1 DEF scanVars, IInv, EngineInv, ScanSoFar
    <2>3. QED  BY <2>2 DEF ExplainedAreReal
  <1>3. CASE EvaluateEvent \/ NextEvent \/ AnswerByRule \/ AnswerInconclusive \/ Escalate
    <2>1. explained' = {}
      BY <1>3 DEF EvaluateEvent, NextEvent, AnswerByRule, AnswerInconclusive, Escalate,
                  Begin, Forget
    <2>2. QED  BY <2>1 DEF ExplainedAreReal
  <1>4. CASE Evaluate
    <2>1. CASE Finish
      BY <2>1 DEF Finish, ExplainedAreReal, Obtainable, Confidence
    <2>2. ASSUME NEW p \in Places, Turn(p), GiveUpRule(p) PROVE ExplainedAreReal'
      <3>1. UNCHANGED <<rules, situation, explained>> /\ troubled \subseteq troubled'
        BY <2>2 DEF GiveUpRule, Trouble
      <3>2. QED  BY <3>1 DEF ExplainedAreReal, Obtainable, Confidence
    <2>3. ASSUME NEW p \in Places, Turn(p), NEW conf, Produce(p, conf),
                 troubled \subseteq troubled',
                 \/ p \in troubled' /\ conf = Confidence(rules[p], situation, NothingFound)
                 \/ \E c \in Catalogue[rules[p]].finds[situation] :
                       conf = Confidence(rules[p], situation, c)
          PROVE  ExplainedAreReal'
      <3>1. /\ UNCHANGED <<rules, situation>>
            /\ explained' = explained \cup {[at |-> p, conf |-> conf]}
        BY <2>3 DEF Produce
      <3>2. situation \in Catalogue[rules[p]].matches
        BY <2>3 DEF Turn, Concerned
      <3>3. ASSUME NEW e \in explained
            PROVE  situation' \in Catalogue[rules'[e.at]].matches /\ Obtainable(e.at, e.conf)'
        BY <2>3, <3>1, <3>3 DEF ExplainedAreReal, Obtainable, Confidence
      <3>4. Obtainable(p, conf)'
        BY <2>3, <3>1 DEF Obtainable, Confidence
      <3>5. QED  BY <3>1, <3>2, <3>3, <3>4 DEF ExplainedAreReal
    <2>4. ASSUME NEW p \in Places, Turn(p), Explain(p) PROVE ExplainedAreReal'
      BY <2>3, <2>4 DEF Explain
    <2>5. ASSUME NEW p \in Places, Turn(p), ExplainNothing(p) PROVE ExplainedAreReal'
      BY <2>3, <2>5 DEF ExplainNothing, Trouble
    <2>6. QED  BY <1>4, <2>1, <2>2, <2>4, <2>5 DEF Evaluate, Scan
  <1>5. CASE \/ StartLLM \/ AnswerAtOnce \/ Analyze \/ OtherRefused
             \/ Diagnosed \/ AskAgain \/ NotDiagnosed \/ Broken
             \/ Check \/ Retried \/ NotRetried \/ Return
    BY <1>1, <1>5
       DEF StartLLM, AnswerAtOnce, Analyze, OtherRefused, Diagnosed, AskAgain, NotDiagnosed,
           Broken, Check, Retried, NotRetried, Return
  <1>6. CASE UNCHANGED vars
    BY <1>1, <1>6 DEF vars
  <1>7. QED  BY <1>2, <1>3, <1>4, <1>5, <1>6 DEF Next, Work

\* Registration ends with the boot, and only evaluating moves the engine.
LEMMA BootedStep ==
    ASSUME IInv, BootedFirst, [Next]_vars
    PROVE  BootedFirst'
  <1>1. CASE Boot
    BY <1>1 DEF Boot, RegisterNext, Register, BootedFirst
  <1>2. CASE UNCHANGED <<enabled, rules>> /\ stage # "booting"
             /\ (phase' # "idle" => stage' = "evaluating")
    BY <1>2 DEF BootedFirst, Complete, Registered, Places
  <1>3. CASE StartLLM
    BY <1>3 DEF StartLLM, BootedFirst, Complete, Registered, Places, engineVars
  <1>4. CASE EvaluateEvent \/ NextEvent \/ AnswerByRule \/ AnswerInconclusive \/ Escalate
    <2>1. UNCHANGED <<enabled, rules>> /\ stage = "evaluating"
          /\ (phase' # "idle" => stage' = "evaluating")
      BY <1>4 DEF EvaluateEvent, NextEvent, AnswerByRule, AnswerInconclusive, Escalate,
                  Unexplained, Evaluated, Begin, Forget
    <2>2. QED  BY <1>2, <2>1
  <1>5. CASE Evaluate
    <2>1. UNCHANGED <<enabled, rules, stage>> /\ stage = "evaluating"
      BY <1>5 DEF Evaluate, Scan, Finish, GiveUpRule, Explain, ExplainNothing, Produce
    <2>2. QED  BY <1>2, <2>1
  <1>6. CASE \/ AnswerAtOnce \/ Analyze \/ OtherRefused
             \/ Diagnosed \/ AskAgain \/ NotDiagnosed \/ Broken
             \/ Check \/ Retried \/ NotRetried \/ Return
    <2>1. UNCHANGED engineVars /\ stage \notin {"booting", "evaluating"}
      BY <1>6
         DEF AnswerAtOnce, Analyze, OtherRefused, Diagnosed, AskAgain, NotDiagnosed,
             Broken, Check, Retried, NotRetried, Return
    <2>2. UNCHANGED <<enabled, rules>> /\ phase' = "idle"
      BY <2>1 DEF engineVars, BootedFirst
    <2>3. QED  BY <1>2, <2>1, <2>2
  <1>7. CASE UNCHANGED vars
    BY <1>7 DEF vars, engineVars, BootedFirst, Complete, Registered, Places
  <1>8. QED  BY <1>1, <1>3, <1>4, <1>5, <1>6, <1>7 DEF Next, Work

\* A rule stands before every later one, not only before the next.
LEMMA InOrder ==
    ASSUME EngineTypeOK, RulesSorted, NEW i \in Places, NEW j \in Places, i < j
    PROVE  Before(rules[i], rules[j])
  <1>1. /\ rules \in Seq(enabled) /\ Places = 1..Len(rules) /\ Len(rules) \in Nat
    BY DEF EngineTypeOK, Places
  <1> DEFINE Prio(p) == Catalogue[rules[p]].priority
  <1>2. \A p \in Places : rules[p] \in Nat /\ Prio(p) \in Nat
    BY RuleAt, RuleAssumption DEF RuleRecord
  <1> DEFINE S == {n \in Nat : i + 1 + n \in Places => Before(rules[i], rules[i + 1 + n])}
  <1>3. 0 \in S
    BY <1>1 DEF RulesSorted
  <1>4. ASSUME NEW n \in S PROVE n + 1 \in S
    <2>1. SUFFICES ASSUME i + 1 + (n + 1) \in Places
          PROVE  Before(rules[i], rules[i + 1 + (n + 1)])
      OBVIOUS
    <2>2. /\ i + 1 + n \in Places /\ i + 1 + n \in 1..Len(rules) - 1
          /\ i + 1 + (n + 1) = (i + 1 + n) + 1
      BY <1>1, <2>1
    <2>3. Before(rules[i], rules[i + 1 + n])
      BY <1>4, <2>2
    <2>4. Before(rules[i + 1 + n], rules[i + 1 + (n + 1)])
      BY <2>2 DEF RulesSorted
    <2>5. QED  BY <1>2, <2>1, <2>2, <2>3, <2>4 DEF Before
  <1>5. S = Nat
    <2>1. S \in SUBSET Nat
      OBVIOUS
    <2>2. \A n \in S : n + 1 \in S
      BY <1>4
    <2> HIDE DEF S
    <2>3. QED  BY <1>3, <2>1, <2>2, Counts!NatSetInduction
  <1>6. PICK n \in Nat : j = i + 1 + n
    <2>1. j - i - 1 \in Nat /\ j = i + 1 + (j - i - 1)
      BY <1>1
    <2>2. QED  BY <2>1
  <1>7. n \in S
    BY <1>5, <1>6
  <1>8. QED  BY <1>6, <1>7

(* R08 is evaluated before the special rule that was returned: it neither  *)
(* failed nor was it passed over, so it was explained, with less, which    *)
(* the confidences exclude.                                                *)
LEMMA MaskHolds ==
    ASSUME MaskInv, DiagnosticConstants
    PROVE  GenericMountRuleMasks
  <1> DEFINE r == rules[best.at]
  <1>1. SUFFICES ASSUME phase = "returned", best # None, r \in {11, 12, 13, 14},
                        ~ Troubled(8),
                        r \in {13, 14} => ~ Troubled(r),
                        r \in {11, 12} => ~ (ClaimsAtHand(situation) > 1)
                 PROVE  FALSE
    BY DEF GenericMountRuleMasks
  <1>2. EngineTypeOK /\ RulesSorted /\ rules \in Seq(enabled) /\ Len(rules) \in Nat
        /\ Places = 1..Len(rules) /\ at \in Nat /\ at <= Len(rules) + 1
    BY DEF MaskInv, IInv, EngineInv, EngineTypeOK, ScanSoFar, Places
  <1>3. \A e \in explained : e.at \in Nat \ {0} /\ e.conf \in 0..95 /\ e.at < at
    BY DEF MaskInv, IInv, EngineInv, EngineTypeOK, ScanSoFar, Candidates
  <1>4. best \in explained /\ \A e \in explained :
            e.conf < best.conf \/ (e.conf = best.conf /\ e.at >= best.at)
    BY <1>1 DEF MaskInv, IInv, EngineInv, BestOfExplained
  <1>5. best.at \in Places /\ \A e \in explained : e.at \in Places
    BY <1>2, <1>3, <1>4
  <1>6. r \in enabled /\ r \in Rules
    BY <1>2, <1>5, RuleAt
  <1>7. enabled = Rules
    BY <1>1, <1>2, <1>6, MountRules DEF EngineTypeOK
  <1>8. PICK g \in Places : rules[g] = 8
    <2>1. stage # "booting"
      BY <1>1 DEF MaskInv, BootedFirst
    <2>2. 8 \in Registered
      BY <1>7, <2>1, MountRules DEF MaskInv, BootedFirst, Complete
    <2>3. QED  BY <2>2 DEF Registered
  <1>9. g < best.at
    <2>1. Before(8, r) /\ r # 8
      BY <1>1, MountRules
    <2>2. Catalogue[8].priority \in Nat /\ Catalogue[r].priority \in Nat /\ r \in Nat
      BY <1>6, MountRules, RuleAssumption DEF RuleRecord
    <2>3. ~ Before(r, 8)
      BY <2>1, <2>2 DEF Before
    <2>4. ~ (best.at < g) /\ best.at # g
      BY <1>2, <1>5, <1>8, <2>1, <2>3, InOrder
    <2>5. QED  BY <1>2, <1>5, <2>4
  <1>10. situation \in Catalogue[r].matches
    BY <1>4 DEF MaskInv, ExplainedAreReal
  <1>11. situation \in ClusterSituations
    <2>1. Catalogue[r].matches \subseteq Situations
      BY <1>6, RuleAssumption DEF RuleRecord
    <2>2. QED  BY <1>10, <2>1 DEF DiagnosticConstants
  <1>12. r \in {11, 12} => ClaimsAtHand(situation) <= 1
    BY <1>1, <1>11, CountsOfClaims
  <1>13. g \notin troubled /\ (r \in {13, 14} => best.at \notin troubled)
    BY <1>1, <1>8 DEF Troubled
  <1>14. \/ \E e \in explained : e.at = g
         \/ g \in troubled
         \/ situation \notin Catalogue[rules[g]].matches
         \/ \E e \in explained :
              /\ e.at < g /\ e.conf \in Medium..High - 1
              /\ Deps(e.at) \cap Deps(g) = {}
    <2>1. g \in 1..at - 1
      BY <1>2, <1>3, <1>4, <1>9
    <2>2. QED  BY <2>1 DEF MaskInv, IInv, EngineInv, OnlyUnrelatedLeftOut, BestBefore
  <1>15. situation \in Catalogue[rules[g]].matches
    BY <1>1, <1>8, <1>10, MountRules
  <1>16. ASSUME NEW e \in explained, e.at = g PROVE FALSE
    <2>1. e.conf < best.conf
      BY <1>3, <1>4, <1>9, <1>16
    <2>2. PICK c \in Catalogue[8].finds[situation] : e.conf = Confidence(8, situation, c)
      BY <1>8, <1>13, <1>16 DEF MaskInv, ExplainedAreReal, Obtainable
    <2>3. PICK b : /\ b.changes = "none" /\ (r = 13 => b.single = (ClaimsAtHand(situation) <= 1))
                   /\ best.conf = Confidence(r, situation, b)
      <3>1. CASE best.at \in troubled /\ best.conf = Confidence(r, situation, NothingFound)
        BY <1>13, <3>1 DEF NothingFound
      <3>2. ASSUME NEW b \in Catalogue[r].finds[situation],
                   best.conf = Confidence(r, situation, b)
            PROVE  /\ b.changes = "none"
                   /\ r = 13 => b.single = (ClaimsAtHand(situation) <= 1)
        BY <1>1, <1>11, MountFindings
      <3>3. QED  BY <1>4, <3>1, <3>2 DEF MaskInv, ExplainedAreReal, Obtainable
    <2>4. c.single = (ClaimsAtHand(situation) <= 1)
      BY <1>11, MountFindings
    <2>5. best.conf <= e.conf
      BY <1>1, <1>11, <1>12, <2>2, <2>3, <2>4, GeneralIsConfident
    <2>6. QED  BY <1>3, <1>4, <2>1, <2>5
  <1>17. ASSUME NEW e \in explained, e.at < g, Deps(e.at) \cap Deps(g) = {} PROVE FALSE
    <2>1. e.at \in Places /\ Before(rules[e.at], 8) /\ rules[e.at] \in Rules
      BY <1>2, <1>5, <1>8, <1>17, InOrder, RuleAt
    <2>2. "Pod" \in Deps(e.at)
      BY <2>1, ReadThePod DEF Deps
    <2>3. "Pod" \in Deps(g)
      <3>1. "Pod" \in R08.deps
        BY DEF R08, Rule
      <3>2. QED  BY <1>8, <3>1, MountRules DEF Deps
    <2>4. QED  BY <1>17, <2>2, <2>3
  <1>18. QED  BY <1>13, <1>14, <1>15, <1>16, <1>17

(* The rules for one cause of a failed mount (R11 - R14) answer only where *)
(* R08 failed, or where it found several claims.                           *)
THEOREM GeneralMountRuleAnswers == Spec => [](DiagnosticConstants => GenericMountRuleMasks)
  <1>1. Init => MaskInv
    BY IInvInit DEF Init, EngineInit, MaskInv, ExplainedAreReal, BootedFirst
  <1>2. MaskInv /\ [Next]_vars => MaskInv'
    BY IInvStep, RealStep, BootedStep DEF MaskInv
  <1>3. MaskInv => (DiagnosticConstants => GenericMountRuleMasks)
    BY MaskHolds
  <1>4. QED  BY <1>1, <1>2, <1>3, PTL DEF Spec
=============================================================================
