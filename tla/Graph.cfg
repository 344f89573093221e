\* Two repositories, every risk, retries, crashes at any node, an operator
\* who decides only when a decision is awaited.
SPECIFICATION Spec
CONSTANTS
    NumRepos = 2
    MaxRetries = 2
    MaxTotalAttempts = 3
    RecursionLimit = 64
    ComplexNeedsApproval = TRUE
    ComplexNeedsDelivery = TRUE
    TransitiveNeedsApproval = FALSE
    RiskOutcomes = {"unverified", "high", "transitive", "direct"}
    CheckResults <- RepresentativeResults
    DryRuns = {FALSE}
    PolicyTags = {"free", "needs_approval", "blocked"}
    NodesCrash = TRUE
    StrayDecisions = FALSE
    MaxCommands = 4
INVARIANTS
    TypeOK
    PublicationIsValidated
    PublicationIsApproved
    RetryBudget
    WithinRecursionLimit
PROPERTIES
    OnlyRetryableFailuresRetried
    ImplementsLedger
CHECK_DEADLOCK FALSE
