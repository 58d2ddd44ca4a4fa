CONSTANTS
    Calls = {c1, c2}
    Keys = {k1}
    MaxRetries = 3
    Threshold = 5
    Nobody = Nobody
SPECIFICATION FairSpec
CHECK_DEADLOCK FALSE
INVARIANTS AddedOnce OrphanOnlyUnanswered
PROPERTY CallsReturn
