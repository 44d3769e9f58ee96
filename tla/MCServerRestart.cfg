\* Expected to fail: see the findings in README.md.
SPECIFICATION ServerSpec
CONSTANTS
    Capacity = 1
    MaxRuns = 2
    MaxWrites = 1
    MaxErrors = 0
    MaxConnections = 1
    MaxWaiting = 1
    None = None
CHECK_DEADLOCK FALSE
PROPERTY SavedDataKept
