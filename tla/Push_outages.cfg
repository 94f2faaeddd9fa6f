CONSTANTS
    Pieces = 2
    QoS = 0
    NumMessages = 2
SPECIFICATION FairSpec
INVARIANTS StoredOnceWhole
PROPERTIES LostOnlyByFailure PublishedUnlessFailed Recovers
CHECK_DEADLOCK FALSE
