SPECIFICATION FairSpec
CONSTANTS
    HeaderLen = 2
    MaxRead = 2
    Lengths = {0, 3}
    MaxPdus = 2
    MaxConns = 2
INVARIANTS
    TypeOK
    FramesAreExact
PROPERTIES
    FramesAreHandedOn
CHECK_DEADLOCK FALSE
