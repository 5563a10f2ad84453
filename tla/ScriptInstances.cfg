SPECIFICATION ScriptSpec
CONSTANTS
    BatchSize = 2
    MaxRows = 1
    MaxMishaps = 0
    Faults = {}
    Syncs = {p1, p2}
    Pids = {p1, p2}
    SyncBatch = 2
    MaxAborts = 1
INVARIANTS
    Exclusive
    OnceUnlessTogether
PROPERTIES
    RefusedForACause
SYMMETRY PidSymmetry
