CONSTANTS
    Lines = {l1, l2, l3}
    NoLine = NoLine
    MaxQueue = 2
    DequeueAtOnce = 2
    Malformed = {l3}
SPECIFICATION FairSpec
PROPERTIES BacklogDrains
