\* Two browsers, one request at a time, every kind of server.
SPECIFICATION Spec
CONSTANTS
    k1 = k1
    k2 = k2
    Browsers = {b1, b2}
    Requests = {1}
    Configs <- EveryServer
    NoSecret = NoSecret
    None = None
    Address = Address
    Cap = 1
    TTL = 1
    MaxTime = 1
    MaxAsks = 2
INVARIANTS
    TypeOK
    
    LogoutForgetsAnswered
    
SYMMETRY BrowserSymmetry
