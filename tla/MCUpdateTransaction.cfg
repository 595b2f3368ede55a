SPECIFICATION FairSpec
CONSTANTS
    r1 = r1
    r2 = r2
    Requests = {r1, r2}
    Candidate <- MCCandidate
    Workers = {w1, w2}
    None = None
    MaxFaults = 2
    MaxChoices = 1
CONSTRAINT Explored
CHECK_DEADLOCK FALSE
INVARIANTS
    SettledIsWhole
PROPERTIES
    ActiveRecordIsTrue
    InterruptedUpdateResolves
