SPECIFICATION HandleSpec
CONSTANTS
    Readers = {r1}
    MaxLen = 2
INVARIANT HeldSizeIsTrue
