SPECIFICATION RetrySpec
CONSTANTS
    Attempts = 3
    Size = 2
INVARIANT WholeAttemptsConverge
INVARIANT LoneAckIsWhole
CHECK_DEADLOCK FALSE
