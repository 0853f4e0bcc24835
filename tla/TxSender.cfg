CONSTANTS
    Servers = 2
    MinRetries = 2
    MinWait = 1
    Stall = 1
    MaxBlocking = 1
    MaxInflight = 1
    MaxNonce = 7
    MaxMined = 2
    MaxFaults = 1
    MaxRestarts = 1
SPECIFICATION FairSpec
INVARIANT PoolInOrder
PROPERTIES CopiesAreUnheard AsksEveryServer SendReturns GapsClose
