CONSTANTS
    Conns = {c1, c2}
    Users = {u1, u2}
    Notifiers = {n1}
    Run = run
    MaxGlobal = 1
    MaxForUser = 1
    SendCap = 1
    QueueCap = 1
SPECIFICATION HubFairSpec
CHECK_DEADLOCK FALSE
INVARIANTS NoPanic NeverUndercounted
PROPERTY HubServes
