CONSTANTS
    Servers = {s1}
    Reqs = {r1, r2}
    Keys = {k1, k2}
    Caps = {1, 2}
    TTL = 2
    MaxQuery = 1
    Unborn = Unborn
    Deleted = Deleted
SPECIFICATION Spec
SYMMETRY ReqSymmetry
INVARIANTS CacheTruthful ServedFresh EditsSurvive
