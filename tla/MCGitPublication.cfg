SPECIFICATION FairSpec
CONSTANTS
    Objects = {1, 2}
    MaxAttempts = 2
    MaxCrashes = 2
    MaxMeddles = 4
INVARIANTS
    PublishedRefIsWhole
    RefMovesAtMostOnce
    LocksHaveOneOwner
    HalfPublicationIsLocked
PROPERTIES
    ReplacesOnlyReviewed
    CompletesUnlessObstructed
