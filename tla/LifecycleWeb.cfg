SPECIFICATION FairSpec
CONSTANTS
    s1 = s1
    s2 = s2
    w1 = w1
    w2 = w2
    NoScan = NoScan
    Scans = {s1}
    Workers = {w1, w2}
    Kind <- WebKind
    Pool <- WebPool
    Webhook = TRUE
    Faults <- AllFaults
    MaxFaults = 3
INVARIANTS
    TypeOK
    CompletedImpliesParsed
    StrandedOnlyByHarm
PROPERTIES
    KeepsContract
    RunsFinish
    MessagesDrain
CHECK_DEADLOCK FALSE
