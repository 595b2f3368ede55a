SPECIFICATION FairSpec
CONSTANTS
    States = {3}
    Commits = {2}
    Recoveries = {1}
    Original <- MCOriginal
    None = None
    Parent = Parent
    Other = Other
    MaxEntries = 3
    MaxPerCycle = 1
    MaxFaults = 2
    MaxMeddles = 1
INVARIANT AnswersAreTrue
PROPERTIES
    QueueDrains
    RecoveryCompletesIntent
CHECK_DEADLOCK FALSE
