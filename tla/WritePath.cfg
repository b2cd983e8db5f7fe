SPECIFICATION FairSpec
CONSTANTS
    r1 = r1
    r2 = r2
    r3 = r3
    s1 = s1
    s2 = s2
    k1 = k1
    k2 = k2
    h1 = h1
    h2 = h2
    fixed = fixed
    wontfix = wontfix
    NoKey = NoKey
    Null = Null
    NoInput = NoInput
    NoReply = NoReply
    Nobody = Nobody
    Keys = {k1, k2}
    Hashes = {h1, h2}
    Resolutions = {fixed, wontfix}
    Requests = {r1, r2, r3}
    Servers = {s1, s2}
    ServerOf <- MCServerOf
    Times <- MCTimes
    Window = 1
    MaxAttempts <- MCAttempts
    Inputs <- MCInputs
INVARIANTS TypeOK Isolation CheckHoldsAtInsert TableRules AnswersTruthful
PROPERTIES IdsNeverReused WriteOnce ClassificationTruthful ImplementsInbox EveryRequestEnds
CHECK_DEADLOCK FALSE
