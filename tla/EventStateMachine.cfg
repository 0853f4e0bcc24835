CONSTANTS
    Block <- MCBlock
    NoBlock <- MCNoBlock
    Number <- MCNumber
    Parent <- MCParent
    Descends <- MCDescends
    Genesis = 1
    StartBlock = 1
    Logged = {2, 3, 4, 5}
    Undecodable = {5}
    MaxLogs = 3
SPECIFICATION FairSpec
INVARIANTS StableExact UnstableSound FreshIsScanned LogsInTail
PROPERTY Syncs
