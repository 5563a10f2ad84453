SPECIFICATION FairSpec
CONSTANTS
    Commands = {"--send", "--receive", "--self-test", "--service"}
    Loops = 2
    MaxSessions = 3
    Faults = {"late", "full", "error", "word", "write"}
INVARIANTS
    RightNumber
    ConfirmedIsSent
    OneBehind
PROPERTIES
    SessionsEnd
