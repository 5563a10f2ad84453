SPECIFICATION FairSpec
CONSTANTS
    BatchSize = 2
    MaxRows = 5
    MaxMishaps = 2
    Faults = {"crash", "stop", "answerlost", "updatefails"}
INVARIANTS
    IInv
    DuplicatesHaveACause
    NoOvertaking
PROPERTIES
    Implements
    EveryRowIsSent
    StopIsObeyed
