CONSTANTS
    Gateways = {"gateway"}
    RetryDelay = 2
    Meters = {"gas", "water", "heat"}
    SerialPort = "serial"
    LineOf <- HouseLines
    MaxFaults = 2
    NoMeter = NoMeter
    Zero = Zero
    Junk = Junk
SPECIFICATION FairSpec
INVARIANTS OwnAnswer OneAnswerPerRequest
PROPERTIES QueryEnds ConnectsLater
CHECK_DEADLOCK FALSE
