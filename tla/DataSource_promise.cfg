\* The fetch loop against the log of what the upstreams answered; SQLite may fail, settings may
\* change at a restart, housekeeping may run; timers fire and time passes.
SPECIFICATION FairLogSpec
CONSTANTS
    weather = weather
    Sources <- One
    Keys = {k}
    TTL <- OneTTL
    MemoryMax = 0
    MaxTime = 4
    DiskOutcomes = {TRUE, FALSE}
    NoEntry = NoEntry
    Requests = {r1, r2}
    Timeout = 1
    Backoff = 1
    Retries = 1
    Configs <- SomeSettings
    Housekeeping = {0, 1, 2, 3, 4}
    None = None
 
PROPERTIES
    PromiseKept
    EveryRequestAnswered
