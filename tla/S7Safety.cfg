SPECIFICATION Spec
CONSTANTS
    Plc = {p1}
    Conn = {c1, c2, c3, c4}
    NoConn = NoConn
    Caller = {reader}
    Checker = {check}
    Updater = {update}
    Closer = {close}
SYMMETRY ConnSymmetry
INVARIANTS
    TypeOK
    OneUserPerSession
    HangNeedsEvict
CHECK_DEADLOCK FALSE
