CONSTANTS
    Keys = {"a", "b"}
    Vals = {"v", "w"}
    Null = Null
    flush_threshold = 2
    ServerFaults = {}
    ShellFaults = {{"torn"}}
    MaxCrashes = 2
    MaxRecords = 3
SPECIFICATION Spec
PROPERTY RecoversLast
