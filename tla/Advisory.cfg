\* Three commands on one package, one change at OSV, two faults.
SPECIFICATION FairSpec
CONSTANTS
    Clients = {"EA-1", "EA-2", "EA-3"}
    Answers <- MCAnswers
    Usable <- MCUsable
    TTL = 2
    MaxChanges = 1
    MaxFaults = 2
INVARIANTS
PROPERTIES
    AdviceIsRecent
    UsableAnswerArrives
CHECK_DEADLOCK FALSE
