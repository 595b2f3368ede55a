SPECIFICATION FairSpec
CONSTANTS
    i1 = i1  i2 = i2
    None = None
    Installs = {i1, i2}
    N = 2
    Fresh = {2}
    MaxFaults = 3
    MaxMeddles = 1
INVARIANTS
    NoMixedGeneration
    HalfInstallIsMarked
    OldBytesAreKept
    SettledAsDone
    ResultsRepeatLedger
PROPERTIES ForeignFilesSurvive EveryInstallAnswered
CHECK_DEADLOCK FALSE
