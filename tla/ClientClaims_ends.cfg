SPECIFICATION FairSpec
CONSTANTS
    Tasks = {"bind", "dequeue", "shutdown"}
    Conns = {c1}
    Fragile = {c1}
    NoConn = NoConn
    NoTask = NoTask
    SmscPdus = {"bind_transceiver_resp"}
    MaxMessages = 0
    MaxQueue = 1
PROPERTIES
    ShutdownEndsProgram
CHECK_DEADLOCK FALSE
