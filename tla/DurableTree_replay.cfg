CONSTANTS
    v = v
    Keys = {1, 2, 3, 4, 5, 6, 7}
    Vals = {v}
    Null = Null
    Weight <- OneValue
    LeafCap = 2
    MaxSeps = 2
    Ops = {"insert", "delete"}
    Faults = {}
    Scripts <- Trees
    MaxRecords = 2
    MaxCrashes = 1
    MaxStops = 1
SPECIFICATION DSpec
INVARIANTS
    ReplayRepeats
    DirtyPagesKnown
CHECK_DEADLOCK FALSE
