CONSTANTS
    v = v
    w = w
    B = B
    Keys = {1, 2, 3, 4, 5, 6, 7, 8}
    Vals = {v}
    Null = Null
    Weight <- OneValue
    LeafCap = 2
    MaxSeps = 2
    Avoid = {"duplicate"}
    Preload <- SevenKeys
    MaxCalls = 13
    Ops = {"insert", "delete"}
SPECIFICATION HSpec
PROPERTIES
    StoredKeyStaysStored
CHECK_DEADLOCK FALSE
