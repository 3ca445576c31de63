SPECIFICATION HandleSpec
CONSTANTS
    Readers = {r1, r2}
    MaxLen = 2
SYMMETRY MCSymmetry
INVARIANTS
    
    OpenRefusedOnlyByUpdate
    
    
