CONSTANTS
    Users = {u1}
    Servers = {s1}
    Keys = {k1}
    Reqs = {r1, r2, r3}
    MaxPeers = 1
    MaxDevices = 0
    MaxLate = 0
    Ops = {"connect", "disconnect", "force", "delete", "cleanup", "ban", "unban", "deleteuser", "sync"}
    Env = {"core", "cancel", "crash", "dup"}
SPECIFICATION FairSpec
CHECK_DEADLOCK FALSE
INVARIANT BanIsFinal
PROPERTY CountsHeal
