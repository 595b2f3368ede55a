SPECIFICATION FairSpec
CONSTANTS
    Migrations = {t1, t2}
    Saves = {s1, s2}
    None = None
    MaxFaults = 2
INVARIANTS
    RoutedRowsAreLatest
PROPERTIES
    DenialEnds
