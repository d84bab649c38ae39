\* The event loop, a thread that puts pages together and the command line on one database.
SPECIFICATION DashSpec
CONSTANTS
    server = server
    cli = cli
    Processes = {server, cli}
    Workers <- LoopAndCli
    Loop <- EventLoop
    Threads <- PageThread
    Tables = {"note", "task"}
    None = None
    Torn = Torn
    Broken = Broken
    LastDay = 1
    MaxCalls = 3
    MaxBadWrites = 1
    NewestRows = 1
    RecentLimit = 3
INVARIANTS
    DashTypeOK
    TrailMatchesStore
    MarkedOncePerWorker

    
    
\* All calls made: nothing is left to do.
CHECK_DEADLOCK FALSE
