SPECIFICATION ClockSpec
CONSTANTS
    Serving = {p1, p2}
    Half = h
    ReadyTimeout = 3
    DrainTimeout = 6
    HalfDrain = 1
    Grace = 2
INVARIANT SteadyBudget
 
CHECK_DEADLOCK FALSE
