SPECIFICATION FairLockSpec
CONSTANTS
    Absent = Absent
    NoOwner = NoOwner
    DeadPid = DeadPid
    Sweeps = {p1, p2, p3}
    MaxCrashes = 2
INVARIANTS LockTypeOK SingleUnlessStrayed
PROPERTY SweepsGoOn
