\* Two fair workers: feeds that share a story, aborts, all kinds of requests, refreshes that overlap.
SPECIFICATION FairSpec
CONSTANTS
    bbc = bbc
    verge = verge
    world = world
    tech = tech
    x = x
    y = y
    z = z
    Workers = {w1, w2}
    SourceOrder <- TwoFeeds
    Category <- TwoCategories
    Feeds <- TwoAnswers
    Daily = Daily
    NoUrl = NoUrl
    ItemCap = 2
    CacheWindow = 1
    DedupWindow = 1
    MaxTime = 1
    MaxRuns = 2
INVARIANTS
    TypeOK
    CopiesBounded
    AutoRefreshBounded
    ClosedRunsComplete
PROPERTIES
    ClosedRunsFinal
    
\* Everybody may be idle for good, the clock and the runs at their bounds.
CHECK_DEADLOCK FALSE
