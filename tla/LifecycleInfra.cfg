SPECIFICATION Spec
CONSTANTS
    s1 = s1
    s2 = s2
    w1 = w1
    w2 = w2
    NoScan = NoScan
    Scans = {s1, s2}
    Workers = {w1, w2}
    Kind <- MixedKind
    Pool <- InfraPool
    Webhook = TRUE
    Faults <- NoRedelivery
    MaxFaults = 1
INVARIANTS
    SoleRunner
PROPERTIES
    SettledStable
CHECK_DEADLOCK FALSE
SYMMETRY SlotSymmetry
