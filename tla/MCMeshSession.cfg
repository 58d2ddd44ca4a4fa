CONSTANTS
    Users = {u1, u2}
    Peers = {p1, p2}
    Reqs = {r1, r2, r3}
    LateUsers = {u1, u2}
    MaxSubnet = 2
    NoMember = NoMember
    NoPeer = NoPeer
SPECIFICATION Spec
SYMMETRY Symmetry
CONSTRAINT FewMishaps
CHECK_DEADLOCK FALSE
INVARIANTS MeshHasMember NoStrayRoute MemberRouted
PROPERTIES RollbackSparesMembers
