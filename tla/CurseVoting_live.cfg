CONSTANTS
    a = a
    b = b
    Chain = {a, b}
    Lane <- OneWay
    GlobalCurse = {a}
    Modes = {"Active", "UnreliableRemote"}
    ManualCurse = {TRUE}
    MaxReports = 1
    MaxVersion = 1
    MaxPanics = 1
    Writers = {"dest"}
SPECIFICATION FairSpec
PROPERTY ReportsAreVotedFor
CHECK_DEADLOCK FALSE
