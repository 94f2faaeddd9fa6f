SPECIFICATION FairSpec
CONSTANTS
    Handles <- MC_Handles
    Meters <- MC_Meters
    MaxFaults = 2
    MaxSilence = 3
    MaxDataRetry = 8
    MaxFrames = 2
    Noise <- MC_Noise
    StaleBytes <- MC_StaleBytes
    Registers <- MC_Registers
INVARIANTS AnswerIntact ReplyExact RequestSucceeds StaleBytesUnused NumbersExact UnitsAgree
PROPERTIES RequestEnds
