\* An operator who also decides when nothing is awaited: on a completed, an
\* escalated, an aborted or an interrupted thread.
SPECIFICATION Spec
CONSTANTS
    NumRepos = 2
    MaxRetries = 2
    MaxTotalAttempts = 3
    RecursionLimit = 64
    ComplexNeedsApproval = TRUE
    ComplexNeedsDelivery = TRUE
    TransitiveNeedsApproval = FALSE
    RiskOutcomes = {"unverified", "high", "transitive", "direct"}
    CheckResults <- RepresentativeResults
    DryRuns = {TRUE, FALSE}
    PolicyTags = {"free", "needs_approval", "blocked"}
    NodesCrash = TRUE
    StrayDecisions = TRUE
    MaxCommands = 4
INVARIANTS
    LanesAreApproved
    ReposAccounted
    GuardsHold
CHECK_DEADLOCK FALSE
