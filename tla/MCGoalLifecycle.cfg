SPECIFICATION Spec
CONSTANTS
    g1 = g1
    g2 = g2
    d1 = d1
    d2 = d2
    p = p
    q = q
    Goals = {g1, g2}
    Duties = {d1, d2}
    Musts <- MCMusts
    Paths = {p, q}
    Lists <- MCLists
    Items = {i1}
    GoalOf <- MCGoalOf
    Owner <- MCOwner
    Agents = {a1}
    None = None
    MaxEdits = 1
    MaxCommands = 6
CHECK_DEADLOCK FALSE
INVARIANTS
    NoDutyDropped
    PlanPrecedesChange
PROPERTIES
    NoBoundaryHidden
