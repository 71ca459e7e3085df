SPECIFICATION FairSpec
CONSTANTS
    i1 = i1
    b1 = b1
    b2 = b2
    Id = {i1}
    Block = {b1, b2}
    Value = {v, w}
    Monitor <- SomeMonitors
    Configs <- SomeConfigs
    MaxPosts = 2
    NoValue = NoValue
    NoMonitor = NoMonitor
INVARIANTS
    TypeOK
    CachedWasSent
PROPERTIES
    CloudFollows
    LocalFollows
