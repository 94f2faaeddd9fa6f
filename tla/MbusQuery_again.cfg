CONSTANTS
    Gateways = {"gateway"}
    RetryDelay = 2
    Meters = {"gas"}
    SerialPort = "serial"
    LineOf <- GatewayLines
    MaxFaults = 1
    NoMeter = NoMeter
    Zero = Zero
    Junk = Junk
SPECIFICATION FairSpec
PROPERTIES ReadAgain
CHECK_DEADLOCK FALSE
