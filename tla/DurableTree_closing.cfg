CONSTANTS
    v = v
    Keys = {1, 2, 3, 4, 5, 6, 7}
    Vals = {v}
    Null = Null
    Weight <- OneValue
    LeafCap = 2
    MaxSeps = 2
    Ops = {"insert", "update", "delete"}
    Faults = {"closing"}
    Scripts <- NoTrees
    MaxRecords = 3
    MaxCrashes = 1
    MaxStops = 1
SPECIFICATION DSpec
PROPERTY RecoversState
CHECK_DEADLOCK FALSE
