SPECIFICATION Spec
CONSTANTS
    h1 = h1
    Keys = {}
    NoKey = NoKey
    Hashes = {h1}
    Resolutions = {}
    Null = Null
    Idle = Idle
    Client = Client
    Times <- MCTimes
    Window = 5
    Reports = {ra, rb}
    Content <- MCContent
    Flushers = {f1}
    MaxAge = 2
    Timeout = 1
    Latency = 1
    FlushTime = 1
    Horizon = 9
PROPERTY RetryNeverFilesAgain
CHECK_DEADLOCK FALSE
