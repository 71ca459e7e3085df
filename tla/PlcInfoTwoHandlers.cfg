SPECIFICATION FairSpec
CONSTANTS
    p1 = p1
    p2 = p2
    s1 = s1
    a1 = a1
    a2 = a2
    m1 = m1
    m2 = m2
    t1 = t1
    d1 = d1
    d2 = d2
    Plc = {p1, p2}
    StationId = {s1}
    Address = {a1, a2}
    Monitor = {m1, m2}
    MetaType = {t1}
    Def = {d1, d2}
    None = None
    Details <- FullDetails
    Heartbeat = {hb}
    Stream = {stream}
    WithReport = {}
    Stored = {}
PROPERTIES
    Converges
