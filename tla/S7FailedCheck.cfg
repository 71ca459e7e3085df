SPECIFICATION FairSpec
CONSTANTS
    Plc = {p1}
    Conn = {c1, c2, c3}
    NoConn = NoConn
    Caller = {reader}
    Checker = {check}
    Updater = {update}
    Closer = {}
PROPERTIES
    FailedCheckEvicts
CHECK_DEADLOCK FALSE
