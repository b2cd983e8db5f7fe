SPECIFICATION FairSpec
CONSTANTS
    new1 = new1
    new2 = new2
    old = old
    Nobody = Nobody
    Processes = {new1, new2, old}
    Known <- MCKnown
    MaxFailures = 2
INVARIANTS TypeOK AppliedOnceInOrder SchemaTruthful
PROPERTY NewestOpens
CHECK_DEADLOCK FALSE
