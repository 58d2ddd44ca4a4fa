CONSTANTS
    Keys <- MCKeys
    Reqs = {r1, r2, r3}
    Full <- MCFull
    Cost <- MCCost
    Rate <- MCRate
    Idle <- MCIdle
    Stall <- MCStall
    Ids = {1, 2, 3, 4}
    NoEntry = NoEntry
    NoObj = NoObj
    Extensions = {e1}
    AllowList = {}
SPECIFICATION Spec
INVARIANT TrustIsEarned
PROPERTY ImplementsTokenBucket
SYMMETRY ReqSymmetry
