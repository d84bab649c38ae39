\* A line cut in the middle of a character, and a page.
SPECIFICATION DashSpec
CONSTANTS
    server = server
    cli = cli
    Processes = {server, cli}
    Workers <- LoopAndCli
    Loop <- EventLoop
    Threads <- PageThread
    Tables = {"note", "task"}
    None = None
    Torn = Torn
    Broken = Broken
    LastDay = 1
    MaxCalls = 2
    MaxBadWrites = 1
    NewestRows = 1
    RecentLimit = 3
INVARIANT CorruptLinesSkipped
\* All calls made: nothing is left to do.
CHECK_DEADLOCK FALSE
