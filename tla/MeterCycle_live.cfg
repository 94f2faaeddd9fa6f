CONSTANTS
    Meters <- House
    Virtual = {"total"}
    Tcp = {"gas"}
    Disabled = {"total"}
    Formula <- HouseFormula
    Schedules = {"often", "rarely"}
    Members <- HouseMembers
    Mult <- MixedMult
    Proc <- LastOnly
    Values <- OneValue
    NoReply = NoReply
    NoConnection = NoConnection
    DryRuns = {0, 2}
SPECIFICATION FairSpec
PROPERTIES DryRunSendsNothing ReadIsWritten SignalEnds
CHECK_DEADLOCK FALSE
