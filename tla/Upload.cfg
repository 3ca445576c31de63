SPECIFICATION FairSpec
CONSTANTS
    MaxBytes = 3
    Ceiling = 2
 
 
 
PROPERTY UploadReturns
CHECK_DEADLOCK FALSE
