SPECIFICATION Spec
CONSTANTS
    r1 = r1
    e1 = e1
    n1 = n1
    n2 = n2
    c1 = c1
    c2 = c2
    None = None
    Runs = {r1}
    Events = {}
    MaxGrade = 2
    Clients = {c1, c2}
    Names = {n1, n2}
    MaxAge = 30
    RejectedAge = 30
    Horizon = 0
    MaxCalls = 3
    MaxChanges = 0
    MaxKills = 1
    Slow <- NoSlow
INVARIANTS TypeOK NothingLost MarkerTruthful
SYMMETRY Symmetry
CHECK_DEADLOCK FALSE
