SPECIFICATION SSpec
CONSTANTS
    BatchSize = 2
    MaxRows = 2
    MaxMishaps = 1
    Faults = {}
    Syncs = {s1}
    SyncBatch = 2
    MaxAborts = 1
INVARIANTS
    ProcessedIsExecuted
