----------------------------- MODULE AnalysisMC -----------------------------
(* Analysis for TLC, with the eighteen rules and, for the `analysis` run,  *)
(* four stub rules besides.                                                *)
EXTENDS Analysis, DiagnosticRules

MCCitations == {0, 1, 2, 3, 8}

(* Stub rules, as the engine's tests register them: they match an event    *)
(* that is none of the eighteen's, their dependencies overlap in a chain,  *)
(* and each comes up with a low confidence (60, 65) or a medium one (75,   *)
(* 80), as it finds no change or an old one.                               *)
Stub(deps) ==
    Rule(10, 60, deps, {Quiet},
         [s \in ClusterSituations |-> [changes : {"none", "old"}, single : BOOLEAN]])
WithStubs ==
    DiagnosticCatalogue \o
    <<Stub({"Pod", "Node"}), Stub({"Node", "PVC"}), Stub({"PVC"}), Stub({"Pod"})>>
WithStubNumbers == RuleNumbers \cup 19..22

Troubled(r) == \E p \in troubled : rules[p] = r

(* The rules with priorities of their own for one cause of a failed mount  *)
(* (R11 - R14) stand behind the general R08, which has at least their      *)
(* confidence on the same claims and a smaller rule_id: they answer only   *)
(* if R08 failed, but for R11 and R12 where R08 finds several claims and   *)
(* loses the bonus for a single one.                                       *)
GenericMountRuleMasks ==
    phase = "returned" /\ best # None =>
        /\ rules[best.at] \in {13, 14} => Troubled(8) \/ Troubled(rules[best.at])
        /\ rules[best.at] \in {11, 12} => Troubled(8) \/ ClaimsAtHand(situation) > 1
=============================================================================
