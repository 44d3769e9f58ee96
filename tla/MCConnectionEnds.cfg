\* Expected to fail: see the findings in README.md.
SPECIFICATION FairSpec
CONSTANTS
    Capacity = 1
    Outgoing = 1
    MaxItems = 2
    None = None
CHECK_DEADLOCK FALSE
PROPERTY ConnectionEnds
