\* A refresh that has not ended, or was aborted, is taken for a successful one.
SPECIFICATION FairSpec
CONSTANTS
    bbc = bbc
    verge = verge
    world = world
    tech = tech
    x = x
    y = y
    z = z
    Workers = {w1}
    SourceOrder <- OneFeed
    Category <- OneCategory
    Feeds <- OneFeeds
    Daily = Daily
    NoUrl = NoUrl
    ItemCap = 2
    CacheWindow = 1
    DedupWindow = 2
    MaxTime = 2
    MaxRuns = 2
PROPERTIES
    CachedOnSuccessOnly
\* Everybody may be idle for good, the clock and the runs at their bounds.
CHECK_DEADLOCK FALSE
