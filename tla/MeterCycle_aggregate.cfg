CONSTANTS
    Meters <- House
    Virtual = {"total"}
    Tcp = {"gas"}
    Disabled = {}
    Formula <- HouseFormula
    Schedules = {"often", "rarely"}
    Members <- HouseMembers
    Mult <- HouseMult
    Proc <- HouseProc
    Values <- TwoValues
    NoReply = NoReply
    NoConnection = NoConnection
    DryRuns = {0}
SPECIFICATION Spec
PROPERTIES EveryNthReading WritesAggregate WritesBetween
CHECK_DEADLOCK FALSE
