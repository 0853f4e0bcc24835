CONSTANTS
    Block <- ForkBlock
    NoBlock <- MCNoBlock
    Number <- ForkNumber
    Parent <- ForkParent
    Descends <- ForkDescends
    Genesis = 1
SPECIFICATION FairSpec
INVARIANTS TailsLinked NoFalseViolation StableIsFinal
PROPERTIES CatchesUp RefinesStableChain DetectsViolation
