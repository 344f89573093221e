\* No crashes: what graph.invoke does when nothing kills it.
SPECIFICATION FairSpec
CONSTANTS
    NumRepos = 2
    MaxRetries = 2
    MaxTotalAttempts = 3
    RecursionLimit = 64
    ComplexNeedsApproval = TRUE
    ComplexNeedsDelivery = TRUE
    TransitiveNeedsApproval = FALSE
    RiskOutcomes = {"unverified", "high", "transitive", "direct"}
    CheckResults <- RepresentativeResults
    DryRuns = {TRUE, FALSE}
    PolicyTags = {"free", "blocked"}
    NodesCrash = FALSE
    StrayDecisions = FALSE
    MaxCommands = 3
PROPERTIES
    InvocationSettles
CHECK_DEADLOCK FALSE
