\* Up to three recorded calls and two lost ones, of one to three tokens.
SPECIFICATION Spec
CONSTANTS
    MaxCalls = 3
    MaxTokens = 6
    MaxCost = 3
    TokenCounts = {1, 2, 3}
    MaxLosses = 2
INVARIANTS
    CallsAreBounded
    TokensAreBounded
CHECK_DEADLOCK FALSE
