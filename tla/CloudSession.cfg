SPECIFICATION FairSpec
CONSTANTS
    Heartbeat = {heartbeat}
    Registrar = {registrar}
    Watcher = {watcher}
    Sender = {report}
    Random = {0, 1, 2}
    FirstRandom = 0
    NoRandom = NoRandom
    BeatBrings = {"answer", "reConnect"}
    StreamBrings = {"reConnect", "quiet"}
    MaxAnswers = 2
INVARIANTS
    TypeOK
    NeverTwice
PROPERTIES
    HeartbeatsGoOn
    SendsReturn
    LateStartRegisters
    ReconnectRegisters
CHECK_DEADLOCK FALSE
