CONSTANTS
    Tokens = {t1}
    Handlers = {h1, h2}
    NoToken = NoToken
    Kinds = {"jwe", "jwt"}
    Expiries = {0, 2, 6}
    Endpoints = 2
    PositiveTTL = 3
    NegativeTTL = 1
    Leeway = 1
    Skew = 1
    Timeout = 1
    MaxEntries = 0
    MaxTime = 6
SPECIFICATION Spec
SYMMETRY Symmetry
PROPERTIES ExpiredNotAccepted RevocationTakesEffect LogoutForcesRecheck OutageForgotten
