CONSTANTS
    Keys = {"a", "b"}
    Vals = {"v", "w"}
    Null = Null
    flush_threshold = 2
    ServerFaults = {{"kill", "torn"}}
    ShellFaults = {{"kill", "torn"}, {"torn", "flushed"}}
    MaxCrashes = 2
    MaxRecords = 3
SPECIFICATION FairSpec
INVARIANT TypeOK
PROPERTIES
    RecoversRecent
    StartsServing
