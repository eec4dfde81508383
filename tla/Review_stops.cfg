SPECIFICATION Spec
CONSTANTS
    None = absent
    Catalog <- SmallCatalog
    Callers = {"rate"}
    Settings <- DetailedOnly
    MinTurns = 2
    Instructions <- SmallInstructions
    Questions = {"q1", "q2"}
    Answers <- SmallAnswers
    PromptEchoes = {"echo"}
    Prose <- SmallProse
    Claims <- SmallClaims
    Ballots <- SmallBallots
    FitBallots <- SmallBallots
    ClaimInventories <- SmallClaimInventories
    RequirementInventories <- SmallRequirementInventories
    ComputationInventories <- SmallComputationInventories
    SetInventories <- SmallSetInventories
    Canonical <- SmallCanonical
    Histories <- SmallHistories
    Stored <- SmallStored
INVARIANT StopKeepsItsKind
