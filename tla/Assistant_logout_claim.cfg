\* What the roadmap says a logout does to the history.
SPECIFICATION Spec
CONSTANTS
    k1 = k1
    k2 = k2
    Browsers = {b1}
    Requests = {1}
    Configs <- OneServer
    NoSecret = NoSecret
    None = None
    Address = Address
    Cap = 2
    TTL = 2
    MaxTime = 1
    MaxAsks = 2
INVARIANTS
    ClearedOnLogout
