CONSTANTS
    v = v
    w = w
    B = B
    Keys = {1, 2, 3, 4, 5, 6, 7}
    Vals = {v}
    Null = Null
    Weight <- OneValue
    LeafCap = 1
    MaxSeps = 2
    Avoid = {}
    Preload <- FiveKeys
    MaxCalls = 8
    Ops = {"insert", "delete"}
SPECIFICATION FairHSpec
INVARIANTS
    TypeOK
    Balanced
    RightKindOfPage
PROPERTIES
    EveryCallReturns
CHECK_DEADLOCK FALSE
