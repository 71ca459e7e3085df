SPECIFICATION FairSpec
CONSTANTS
    p1 = p1
    s1 = s1
    a1 = a1
    a2 = a2
    m1 = m1
    t1 = t1
    t2 = t2
    d1 = d1
    Plc = {p1}
    StationId = {s1}
    Address = {a1, a2}
    Monitor = {m1}
    MetaType = {t1, t2}
    Def = {d1}
    None = None
    Sites <- AllSites
    Handler = {beat1}
    WithReport <- OldStation
    Loops = {beat}
    Interval = {0, 1, 2}
INVARIANTS
    TypeOK
    SavedSurvive
    OnlyFilesEndLoops
PROPERTIES
    StartsWithoutMonitors
    FilesFollow
    IntervalsFollow
