SPECIFICATION Spec
CONSTANTS
    k1 = k1
    h1 = h1
    fixed = fixed
    NoKey = NoKey
    Null = Null
    NoFile = NoFile
    Keys = {k1}
    Hashes = {h1}
    Resolutions = {fixed}
    Times <- MCTimes
    Window = 0
    Marks <- MCMarks
    Filters <- MCFilters
    Options <- MCOptions
    MaxSource = 2
    MaxTarget = 3
    MaxExports = 1
INVARIANTS TypeOK TargetRules
PROPERTIES ExportIsOneState ImportRestoresAnExport ArchivedIdsStayRetired
CHECK_DEADLOCK FALSE
