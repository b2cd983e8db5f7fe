SPECIFICATION FairSpec
CONSTANTS
    Reads = {r1, r2}
    Writes = {w1}
    Probes = {p1}
    ReaderMaxConns = 1
    MaxCrashes = 1
    MaxStarts = 2
    MaxTools = 1
    Nobody = Nobody
INVARIANTS StopLosesNothing ProbeTruthful
PROPERTIES CutOnlyWhenForced EverythingEnds
CHECK_DEADLOCK FALSE
