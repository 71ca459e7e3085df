SPECIFICATION Spec
CONSTANTS
    Base = 4
    Err = Err
    Panic = Panic
    Absent = Absent
    None = None
    Nothing = Nothing
    Dates <- MCDates
    Objects <- MCObjects
    PlcBlock <- MCPlcBlock
INVARIANTS
    DateExact
    RoundTrip
    NothingWrong
    OthersStay
    SchemasAgree
CHECK_DEADLOCK FALSE
