\* Both kinds of lane, up to two retries, one approval of an interrupted thread.
SPECIFICATION Spec
CONSTANTS
    Planned <- MCPlanned
    Sources <- MCSources
    Manifest = "pom.xml"
    ReactorPoms <- MCModules
    Metadata = "repo.json"
    Untracked <- MCUntracked
    Repeatable <- MCRepeatable
    Routes = {"simple_update", "complex_refactor"}
    LicenseLists = TRUE
    MaxRetries = 2
    MaxTotalAttempts = 3
    MaxDecisions = 1
INVARIANTS
    RetriesRewriteOnce
    StaleReportsDecideNothing
PROPERTIES
    RetryStartsClean
    PushedIsVerified
    CommitIsAccountedFor
CHECK_DEADLOCK FALSE
