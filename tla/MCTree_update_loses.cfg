CONSTANTS
    v = v
    w = w
    B = B
    Keys = {1, 2, 3, 4}
    Vals = {v, B}
    Null = Null
    Weight <- TwoSizes
    LeafCap = 5
    MaxSeps = 4
    Avoid = {"duplicate"}
    Preload <- NoKeys
    MaxCalls = 8
    Ops = {"insert", "update"}
SPECIFICATION HSpec
PROPERTIES
    UpdateKeepsKey
CHECK_DEADLOCK FALSE
