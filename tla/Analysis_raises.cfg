SPECIFICATION Spec
CONSTANTS
    None = None
    Rules <- RuleNumbers
    Tier1 <- Tier1Numbers
    Kinds <- DiagnosticKinds
    Situations <- ClusterSituations
    Catalogue <- DiagnosticCatalogue
    MaxTrouble = 1
    MaxEvents = 2
    MaxRetries = 1
    Citations <- MCCitations
INVARIANT NeverRaises
