SPECIFICATION FairSpec
CONSTANTS
    MaxMounts = 2
    MaxDirty = 1
    ReadyFilePath = TRUE
INVARIANTS
    ReadyFileIsOurs
    NoMountForgotten
    SuccessLeavesNoMount
    LossIsAccounted
PROPERTIES
    AnnouncedOnceAllUp
    ImplementsSession
    RunEnds
