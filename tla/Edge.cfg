SPECIFICATION FairSpec
CONSTANTS
    Requests = {r1, r2}
    Tokens <- MCTokens
    Scopes = {"s1", "s2"}
    Ttl = 3
    Skew = 2
    MaxTime = 3
    NoReq = NoReq
    NoTok = NoTok
    NoCred = NoCred
INVARIANTS
    SingleFlight
    FlightsAreOwned
    ScopeIsolation
PROPERTIES
    ExpiredOnlyIfSlow
    EveryRequestAnswered
