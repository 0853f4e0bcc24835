CONSTANTS
    MaxSeqNr = 1
    MaxEvents = 2
    MaxTime = 0
    ExecutionState = {"Success"}
    MaxFresh = 0
    Delay = 0
    Honesty = {FALSE}
SPECIFICATION FairWatchSpec
PROPERTY Detects
