SPECIFICATION FairRestoreSpec
CONSTANTS
    Stores = {s1}
    Count = 4
    Managed = {1, 2}
    New = {1, 4}
    Goals = {1}
    Nested = {4}
    MaxEdits = 1
    MaxErrors = 2
    MaxSnapshots = 1
INVARIANTS
    RestoredOrUndone
    RecoveryPointsAreWhole
PROPERTIES
    StateWritesSurvive
    OrphansRecover
