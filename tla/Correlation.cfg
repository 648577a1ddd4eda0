SPECIFICATION Spec
CONSTANTS
    min_sequence_number = 1
    max_sequence_number = 2
    max_ttl = 2
    MaxRequests = 4
INVARIANTS
    TypeOK
    ResponsesFindTheirRequest
    ReportsFindTheirMessage
PROPERTIES
    GarbageIsCollected
CHECK_DEADLOCK FALSE
