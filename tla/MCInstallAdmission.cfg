SPECIFICATION Spec
CONSTANTS
    i1 = i1  i2 = i2
    None = None
    Installs = {i1}
    N = 2
    Fresh = {2}
    MaxFaults = 1
    MaxMeddles = 0
INVARIANT OpenInstallIsRecovered
CHECK_DEADLOCK FALSE
