SPECIFICATION FairSpec
CONSTANTS
    s1 = s1
    s2 = s2
    Schedules = {s1, s2}
    EngOf <- OneEngagement
    Intervals = {1, 3}
    Slots = {k1, k2}
    MaxClock = 2
    MaxEdits = 1
    MaxQueued = 1
    MaxFaults = 1
    NoSchedule = NoSchedule
    NoSlot = NoSlot
INVARIANTS TypeOK FiredOnce TasksRecorded WithinInterval
PROPERTIES Advance PauseHolds DueHandled
CHECK_DEADLOCK FALSE
