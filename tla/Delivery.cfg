\* Two repositories, three commands, every failure.
SPECIFICATION FairSpec
CONSTANTS
    NumRepos = 2
    MaxRetries = 2
    MaxTotalAttempts = 3
    JiraSetups <- LenientSetups
    SearchMatches = TRUE
    NetworkFails = TRUE
    ServersRefuse = TRUE
    ProcessDies = TRUE
    MaxCommands = 3
INVARIANTS
    TypeOK
    RerunOpensNoSecond
    OnlyRefusalsAreFinal
    AnnouncedIsPublished
PROPERTIES
    FailureKeepsProgress
    RunsEnd
\* The operator may stop giving commands.
CHECK_DEADLOCK FALSE
