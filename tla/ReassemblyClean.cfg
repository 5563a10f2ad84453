SPECIFICATION FairSpec
CONSTANTS
    m1 = m1
    m2 = m2
    m3 = m3
    m4 = m4
    k1 = k1
    k2 = k2
    NoKey = NoKey
    Msgs = {m1, m2, m3, m4}
    Concat = {m2, m4}
    Malformed = {m3}
    Undecodable = {m4}
    Keys = {k1, k2}
    KeyOf <- KeyShared
    TotalOf <- TotalClean
    PartNumbers <- NumbersClean
    Groups = {g1}
    MaxWxid = 1
    SegmentTimeout = 1
    MaxCopies <- CopiesClean
    Faults = {}
INVARIANTS
    ReceivedIsOut
    DispatchedOnce
    PartialMeansIncomplete
PROPERTIES
    PartialOnlyWhenLate
    EveryPartGetsOut
