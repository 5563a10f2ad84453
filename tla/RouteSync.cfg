SPECIFICATION FairSyncSpec
CONSTANTS
    BatchSize = 2
    MaxRows = 2
    MaxMishaps = 1
    Faults = {"crash", "answerlost", "updatefails"}
    Syncs = {s1}
    SyncBatch = 2
    MaxAborts = 1
INVARIANTS
    SyncIInv
    ExecutedOnce
    NoticesHaveACause
    StatusTells
PROPERTIES
    CommandsSettle
