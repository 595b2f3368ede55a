SPECIFICATION Spec
CONSTANTS
    c1 = c1  c2 = c2  t1 = t1
    i1 = i1  i2 = i2  i3 = i3  i4 = i4
    None = None
    Callers = {c1, c2}
    Ids = {i1, i2, i3, i4}
    Tasks = {t1}
    Digests = {1}
    MaxTime = 1
    Requests <- MCRequests
    MaxRequests = 3
    MaxTasks = 2
SYMMETRY CallerSymmetry
INVARIANTS
    TypeOK
    RecoveryNeverConflicts
    RevisionsAreExact
    EffectGrantedOnceAndDurable
    AnswersAreDurable
PROPERTY ImplementsAtomicLedger
