CONSTANTS
    MaxSeqNr = 1
    MaxEvents = 2
    MaxTime = 4
    ExecutionState = {"Success", "Failure", "Untouched"}
    MaxFresh = 1
    Delay = 2
    Honesty = {TRUE, FALSE}
SPECIFICATION WatchSpec
INVARIANTS NoFalseAlarm ReapedWasRight
