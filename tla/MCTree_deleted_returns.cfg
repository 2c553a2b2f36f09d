CONSTANTS
    v = v
    w = w
    B = B
    Keys = {1, 2, 3, 4}
    Vals = {v, w}
    Null = Null
    Weight <- TwoValues
    LeafCap = 3
    MaxSeps = 4
    Avoid = {}
    Preload <- NoKeys
    MaxCalls = 8
    Ops = {"insert", "delete"}
SPECIFICATION HSpec
PROPERTIES
    DeletedKeyStaysDeleted
CHECK_DEADLOCK FALSE
