\* A process that dies between two nodes, and --resume.
SPECIFICATION Spec
CONSTANTS
    NumRepos = 1
    MaxRetries = 2
    MaxTotalAttempts = 3
    RecursionLimit = 64
    ComplexNeedsApproval = TRUE
    ComplexNeedsDelivery = TRUE
    TransitiveNeedsApproval = FALSE
    RiskOutcomes = {"high", "transitive"}
    CheckResults <- PassedOrTests
    DryRuns = {FALSE}
    PolicyTags = {"free"}
    NodesCrash = TRUE
    StrayDecisions = FALSE
    MaxCommands = 2
PROPERTIES
    ResumeContinues
CHECK_DEADLOCK FALSE
