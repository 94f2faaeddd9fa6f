CONSTANTS
    Slaves <- House
    Address <- HouseAddress
    Factory <- HouseFactory
    LastPosition = 3
    IdLength = 2
    MaxFaults = 2
    Masks <- HouseMasks
    MaxSearchRetry = 1
    MaxPrimary = 2
    MaxTools = 2
SPECIFICATION FairSpec
INVARIANTS EveryDeviceFound
PROPERTIES NewAddressWasFree ToolEnds
CHECK_DEADLOCK FALSE
