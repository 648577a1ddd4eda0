SPECIFICATION FairSpec
CONSTANTS
    Tasks = {"bind", "receive", "enquire", "shutdown"}
    Conns = {c1, c2}
    Fragile = {c1}
    NoConn = NoConn
    NoTask = NoTask
    SmscPdus = {"bind_transceiver_resp"}
    MaxMessages = 0
    MaxQueue = 1
INVARIANTS
    SessionHasWriter
    BindComesFirst
PROPERTIES
    ShutdownIsFinal
    ShutdownEnds
    Reconnects
CHECK_DEADLOCK FALSE
