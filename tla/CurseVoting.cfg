CONSTANTS
    a = a
    b = b
    Chain = {a, b}
    Lane <- BothWays
    GlobalCurse = {a}
    Modes = {"Active"}
    ManualCurse = {FALSE}
    MaxReports = 1
    MaxVersion = 2
    MaxPanics = 1
    Writers = {"source", "dest"}
SPECIFICATION Spec
INVARIANTS OneIdPerAnomaly VotesAreDue
PROPERTY KeptUnlessPoisoned
CHECK_DEADLOCK FALSE
