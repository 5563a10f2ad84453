SPECIFICATION Spec
CONSTANTS
    MaxReports = 2
    MaxChecks = 1
    MaxNoise = 1
    Cap = 12
INVARIANTS
    ChunksDoNotMatter
    OnlyTouchedAreLost
    GhostsAreTraces
