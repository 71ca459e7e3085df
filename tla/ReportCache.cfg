SPECIFICATION FairStatus
CONSTANTS
    i1 = i1
    b1 = b1
    b2 = b2
    r1 = r1
    raw0 = raw0
    raw1 = raw1
    Id = {i1}
    StatusDb = {b1, b2}
    ReportDb = {r1}
    NoDb = NoDb
    Station <- MovedStation
    Configs <- MovedConfigs
    Value = {v, w}
    Data <- Reports
    NoTime = NoTime
    ReportId = {1}
    ReportCount = 2
    NoValue = NoValue
    Absent = Absent
INVARIANTS
    TypeOK
    CachedWasTold
PROPERTIES
    StatusFollows
