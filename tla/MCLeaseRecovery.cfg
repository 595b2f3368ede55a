SPECIFICATION FairSpec
CONSTANTS
    c1 = c1  c2 = c2
    l1 = l1  l2 = l2  l3 = l3  l4 = l4  l5 = l5  l6 = l6  l7 = l7  l8 = l8
    LeaseIds = {l1, l2, l3, l4, l5, l6, l7, l8}
    None = None
    Clients = {c1, c2}
    Slots = {1, 2}
    LeaseTime = 1
    Lifetime = 2
    MaxLeases = 1
    MaxWrites = 0
    MaxFaults = 1
INVARIANT TypeOK
PROPERTY LocksComeBack
