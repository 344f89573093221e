\* Three commands in any overlap, each an approval, a rejection or an abort.
SPECIFICATION FairSpec
CONSTANTS
    Commands = {c1, c2, c3}
    NumRepos = 2
    Gated = {1}
    Given = {"approve", "reject", "abort"}
    MaxEdits = 6
INVARIANTS
    LedgerIsWhole
    CompletedWasPushed
    SerialCommandsAreSafe
PROPERTIES
    CommandsEnd
CHECK_DEADLOCK FALSE
