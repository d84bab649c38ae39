\* The event loop, a thread and the command line, over a midnight.
SPECIFICATION Spec
CONSTANTS
    Loop = Loop
    Threads = {t}
    Cli = Cli
    Devices <- House
    Categories = {"ai_news"}
    Configs <- SomeConfigs
    None = None
    Torn = Torn
    Broken = Broken
    LastDay = 2
    MaxCalls = 2
    MaxBadWrites = 1
INVARIANTS
    TypeOK
    
    EndsOnRecord
    OnlyWhatIsAllowed
    
\* All calls made: nothing is left to do.
CHECK_DEADLOCK FALSE
