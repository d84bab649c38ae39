\* Two sources over a cache of one entry, SQLite working, shipped settings, housekeeping at one time.
SPECIFICATION Spec
CONSTANTS
    weather = weather
    currency = currency
    Sources <- Both
    Keys = {k}
    TTL <- BothTTL
    MemoryMax = 1
    MaxTime = 7
    DiskOutcomes = {TRUE}
    NoEntry = NoEntry
    Requests = {r1, r2}
    Timeout = 1
    Backoff = 1
    Retries = 1
    Configs <- BothDefaults
    Housekeeping = {4}
    None = None
SYMMETRY RequestSymmetry
INVARIANTS
    TypeOK
    FreshHitsWithinTTL
    MemoryWithinCap
    LayersAgree
    NeverForgets
    

    
