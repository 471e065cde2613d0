SPECIFICATION Spec
CONSTANTS
    None = None
    o1 = o1
    o2 = o2
    x1 = x1
    x2 = x2
    d1 = d1
    d2 = d2
    g1 = g1
    g2 = g2
    Owners = {o1, o2}
    Taxis = {x1, x2}
    Drivers = {d1, d2}
    Categories = {g1, g2}
    OwnerOf <- MCOwnerOf
    Amounts = {2}
    NExpenses = 3
    Instants = {1, 2}
    Dates = {2}
    DefaultLimit = 1
    MaxLimit = 2
    Limits = {0, 3}
    Filters <- MCFilters
    Callers = {c1, c2}
SYMMETRY Symmetry
CONSTRAINT OneAtATime
INVARIANTS ReportsAgree EveryRowIsReported WalkMissesNothing
PROPERTIES CountsShrinkByOverlapOnly
CHECK_DEADLOCK FALSE
