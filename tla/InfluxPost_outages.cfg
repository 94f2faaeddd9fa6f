CONSTANTS
    Lines = {l1, l2, l3, l4}
    NoLine = NoLine
    MaxQueue = 3
    DequeueAtOnce = 2
    Malformed = {}
SPECIFICATION FairSpec
INVARIANTS OneOwner NoDuplicate BacklogExplained
PROPERTIES ImplementsCache BacklogDrains ShutdownEnds
