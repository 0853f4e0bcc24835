CONSTANTS
    s = s
    t = t
    Shape = {s, t}
    Name = {"old", "new"}
    MaxBlock = 3
    LogsIn <- MCLogsIn
    StartBlocks = {0, 2}
    MaxLogs = 1
    Limit = 1
SPECIFICATION FairSpec
INVARIANTS NothingMissed CacheExact
PROPERTY CatchesUp
