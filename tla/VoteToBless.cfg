CONSTANTS
    l = l
    Root = {r1, r2}
    Lane = {l}
    LaneOf <- MCLaneOf
    MaxBatch = 1
    Modes = {"Active", "DryRun"}
    Delays = {"some"}
    MaxUnrest = 1
SPECIFICATION FairSpec
INVARIANTS AtMostOneLateVote NotSentTwice
PROPERTY VotedInTheEnd
