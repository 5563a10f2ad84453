SPECIFICATION FairSpec
CONSTANTS
    Ips = {ip1, ip2}
    Groups = {g1, g2}
    MaxWxid = 2
    Tables = {t1, t2}
    Null = null
    MaxRepeats = 2
    MaxChanges = 1
INVARIANTS
    IInv
    OnlyRoutes
    EntriesAreWhole
PROPERTIES
    Converges
