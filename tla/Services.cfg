SPECIFICATION FairSpec
CONSTANTS
    Services = {"gateway", "smset"}
INVARIANTS
    EndIsReported
PROPERTIES
    StopIsHonoured
