SPECIFICATION FairSpec
CONSTANTS
    h1 = h1
    h2 = h2
    a1 = a1
    a2 = a2
    a3 = a3
    bulk1 = bulk1
    NoRow = NoRow
    NoOne = NoOne
    Hashes = {h1, h2}
    Attempts = {a1, a2, a3}
    ScanOf <- TwoScans
    Report <- Crossing
    ToolOf <- WebTools
    Lenient = {"ScoutSuite", "Prowler", "MobSF"}
    Analysts = {bulk1}
    MaxBulk = 2
    Verdicts = {"Open"}
INVARIANTS TypeOK AbortsOnlyCrossed
PROPERTIES
    ParsesEnd
CHECK_DEADLOCK FALSE
