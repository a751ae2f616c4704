SPECIFICATION FairSpec
CONSTANTS
    Templates = {t1, t2, t3, t4, t5}
    Engagements = {e1}
    Requests = {r1, r2}
    Processes = {p1, p2}
    MaxRequests = 5
    MaxStops = 1
    NoTemplate = NoTemplate
INVARIANTS OneDefault DefaultStays ExportsServed
PROPERTIES StartsUp
CHECK_DEADLOCK FALSE
