SPECIFICATION Spec
CONSTANTS
    Entries <- EntriesDef
    MaxEntries = 3
    MaxFaults = 1
INVARIANTS CompletedIsWhole StrandedOnlyByRefusal
PROPERTIES RescanAddsNothing
CHECK_DEADLOCK FALSE
