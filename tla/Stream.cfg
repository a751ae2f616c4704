SPECIFICATION FairSpec
CONSTANTS
    Viewers = {v1}
    MaxLines = 3
    MaxFaults = 2
INVARIANTS OnceInOrder LostOnlyInGap EndsWithTruth
PROPERTIES StreamsEnd
CHECK_DEADLOCK FALSE
