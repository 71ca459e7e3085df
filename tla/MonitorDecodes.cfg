SPECIFICATION FairSpec
CONSTANTS
    i1 = i1
    b1 = b1
    b2 = b2
    Id = {i1}
    Block = {b1}
    Value = {v, w}
    Monitor <- DecodingMonitors
    Configs <- DecodingConfigs
    MaxPosts = 1
    NoValue = NoValue
    NoMonitor = NoMonitor
PROPERTIES
    RunsForEver
CHECK_DEADLOCK FALSE
