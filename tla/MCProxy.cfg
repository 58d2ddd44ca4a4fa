CONSTANTS
    Users = {u1, u2}
    Addrs = {a1, a2}
    Callers = {u1}
    NoMember = NoMember
    NoSel = NoSel
    Conns = {c1, c2}
    MaxConns = 2
SPECIFICATION ProxyFairSpec
INVARIANTS SlotsBalanced SelectionSound
PROPERTY HalfCloseEndsTunnel
