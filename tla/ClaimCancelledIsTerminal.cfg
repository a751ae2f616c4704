SPECIFICATION Spec
CONSTANTS
    s1 = s1
    s2 = s2
    w1 = w1
    w2 = w2
    NoScan = NoScan
    Scans = {s1}
    Workers = {w1}
    Kind <- WebKind
    Pool <- WebPool
    Webhook = TRUE
    Faults <- NoFaults
    MaxFaults = 1
PROPERTIES
    CancelledIsTerminal
CHECK_DEADLOCK FALSE
