SPECIFICATION Spec
CONSTANTS
    Byte = 16
    MaxIdLen = 3
    ReceiptTag = 4
    max_sequence_number = 7
    MaxText = 4
    capacity = 2
    flushLevel = 3
    targetLevel = 2
    flushOnClose = TRUE
    LogLevels = {1, 2, 3}
    MaxRecords = 6
INVARIANTS
    FieldsReadBack
    
    ReportIsMatched
    CodesAreNamed
    GsmReadsBack
    BreachShowsTheLast
CHECK_DEADLOCK FALSE
