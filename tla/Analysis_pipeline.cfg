SPECIFICATION Spec
CONSTANTS
    None = None
    Rules <- WithStubNumbers
    Tier1 <- Tier1Numbers
    Kinds <- DiagnosticKinds
    Situations <- ClusterSituations
    Catalogue <- WithStubs
    MaxTrouble = 1
    MaxEvents = 2
    MaxRetries = 1
    Citations <- MCCitations
INVARIANTS
    AnalysisTypeOK
    RulesSorted
    BestOfExplained
    OnlyUnrelatedLeftOut
    GenericMountRuleMasks
    CheckedOrCapped
    BoundedCalls
PROPERTY AnalysisEnds
