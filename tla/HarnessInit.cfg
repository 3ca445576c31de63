SPECIFICATION Spec
CONSTANTS
    Services <- MCServices
    CertTTL = 2
    TokenFloor = 3
    RenewBefore = 1
    MaxRuns = 3
    MaxTime = 4
INVARIANT PeersGetOneRun
INVARIANT LeftIsValid
CHECK_DEADLOCK FALSE
