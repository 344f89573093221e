\* A ticket started without --dry-run and resumed with it.
SPECIFICATION Spec
CONSTANTS
    NumRepos = 1
    MaxRetries = 2
    MaxTotalAttempts = 3
    RecursionLimit = 64
    ComplexNeedsApproval = TRUE
    ComplexNeedsDelivery = TRUE
    TransitiveNeedsApproval = FALSE
    RiskOutcomes = {"high", "transitive"}
    CheckResults <- RepresentativeResults
    DryRuns = {TRUE, FALSE}
    PolicyTags = {"free"}
    NodesCrash = FALSE
    StrayDecisions = FALSE
    MaxCommands = 3
INVARIANTS
    DryRunPublishesNothing
CHECK_DEADLOCK FALSE
