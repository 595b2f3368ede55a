SPECIFICATION StopSpec
CONSTANTS
    g1 = g1
    g2 = g2
    d1 = d1
    p = p
    i1 = i1
    i2 = i2
    Goals = {g1, g2}
    Duties = {d1}
    Musts <- MCMusts
    Paths = {p}
    Lists = {{}}
    Items = {i1, i2}
    GoalOf <- MCGoalOf
    Owner <- MCOwner
    Agents = {a1}
    None = None
    MaxEdits = 1
    MaxCommands = 4
    MaxStops = 1
CHECK_DEADLOCK FALSE
INVARIANTS
    StopIsEarned
