SPECIFICATION FairSpec
CONSTANTS
    r1 = r1
    e1 = e1
    n1 = n1
    n2 = n2
    c1 = c1
    c2 = c2
    None = None
    Runs = {r1}
    Events = {}
    MaxGrade = 1
    Clients = {c1}
    Names = {n1, n2}
    MaxAge = 0
    RejectedAge = 0
    Horizon = 1
    MaxCalls = 2
    MaxChanges = 1
    MaxKills = 1
    Slow <- NoSlow
PROPERTIES SpoolDrains RunsDelivered
CHECK_DEADLOCK FALSE
