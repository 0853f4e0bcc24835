CONSTANTS
    Block <- TallBlock
    NoBlock <- MCNoBlock
    Number <- TallNumber
    Parent <- TallParent
    Descends <- TallDescends
    Genesis = 1
    Soft = 1
    Hard = 2
SPECIFICATION FairSpec
INVARIANTS NoFalseViolation StableIsSettled
PROPERTIES RefinesStableChain Settles
