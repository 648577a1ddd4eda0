SPECIFICATION Spec
CONSTANTS
    HeaderLen = 2
    MaxRead = 2
    Lengths = {0, 3}
    MaxPdus = 2
    MaxConns = 2
INVARIANTS
    StaysConsistent
CHECK_DEADLOCK FALSE
