CONSTANTS
    Users = {u1}
    Servers = {s1}
    Keys = {k1, k2, k3}
    Reqs = {r1, r2, r3, r4}
    MaxPeers = 2
    MaxDevices = 1
    MaxLate = 1
    Ops = {"connect", "cleanup"}
    Env = {"core"}
SPECIFICATION Spec
SYMMETRY ReqSymmetry
CHECK_DEADLOCK FALSE
INVARIANTS SlotsAccounted CapacityRespected ActiveOnCore NoGhostPeer DeviceLimit
