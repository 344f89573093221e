\* Three commands on one thread, under way at the same time.
SPECIFICATION Spec
CONSTANTS
    Commands = {c1, c2, c3}
    NumRepos = 2
    Gated = {1}
    Given = {"approve"}
    MaxEdits = 3
INVARIANTS
    PushedIsGreen
CHECK_DEADLOCK FALSE
