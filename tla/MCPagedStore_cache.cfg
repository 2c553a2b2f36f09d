CONSTANTS
    MAX_CACHE_PAGES = 3
    Keys = {"j", "k"}
    Vals = {"s", "m", "l"}
    Null = Null
    Chunks <- ThreeLengths
    MaxCalls = 5
    MaxCloses = 2
SPECIFICATION Spec
INVARIANTS
    TypeOK
    NoFalseAlarm
    DirtyIsCached
    CleanMatchesFile
PROPERTY ImplementsStore
CHECK_DEADLOCK FALSE
