CONSTANTS
    Keys = {"a", "b"}
    Vals = {"v", "w"}
    Null = Null
    flush_threshold = 3
    ServerFaults = {{}}
    ShellFaults = {}
    MaxCrashes = 1
    MaxRecords = 3
SPECIFICATION Spec
PROPERTY RecoversLast
