SPECIFICATION Spec
CONSTANTS
    m1 = m1
    m2 = m2
    m3 = m3
    m4 = m4
    k1 = k1
    k2 = k2
    NoKey = NoKey
    Msgs = {m1, m2, m3}
    Concat = {m1, m2, m3}
    Malformed = {}
    Undecodable = {m1}
    Keys = {k1, k2}
    KeyOf <- KeyShared
    TotalOf <- TotalMixed
    PartNumbers <- NumbersMixed
    Groups = {g1}
    MaxWxid = 2
    SegmentTimeout = 0
    MaxCopies <- CopiesMixed
    Faults = {"crash", "refused"}
INVARIANTS
    IInv
    OneRowPerTarget
    CompleteIsWhole
PROPERTIES
    KeptUntilLost
