SPECIFICATION FairSpec
CONSTANTS
    r1 = r1
    e1 = e1
    n1 = n1
    n2 = n2
    c1 = c1
    c2 = c2
    None = None
    Runs = {r1}
    Events = {e1}
    MaxGrade = 1
    Clients = {c1}
    Names = {n1, n2}
    MaxAge = 30
    RejectedAge = 30
    Horizon = 0
    MaxCalls = 2
    MaxChanges = 1
    MaxKills = 0
    Slow <- OutputsSlow
PROPERTY OthersDrain
CHECK_DEADLOCK FALSE
