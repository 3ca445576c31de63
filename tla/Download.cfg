SPECIFICATION Spec
CONSTANTS
    MaxInt = 7
    MaxSize = 4
    Cap = 3
INVARIANT CleanReadIsWanted
INVARIANT HonestReadSucceeds
CHECK_DEADLOCK FALSE
