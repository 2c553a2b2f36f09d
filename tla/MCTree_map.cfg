CONSTANTS
    v = v
    w = w
    B = B
    Keys = {1, 2, 3, 4, 5, 6, 7}
    Vals = {v}
    Null = Null
    Weight <- OneValue
    LeafCap = 2
    MaxSeps = 2
    Avoid = {"duplicate", "tallUnderflow"}
    Preload <- NoKeys
    MaxCalls = 8
    Ops = {"search", "insert", "update", "delete"}
SPECIFICATION HSpec
INVARIANTS
    ParentFieldsAgree
    EveryStoredKeyIsFound
    LeafChain
    NoEmptyLeaf
PROPERTIES
    ImplementsStore
CHECK_DEADLOCK FALSE
