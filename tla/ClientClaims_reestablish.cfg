SPECIFICATION Spec
CONSTANTS
    Tasks = {"bind", "receive"}
    Conns = {c1, c2}
    Fragile = {c1, c2}
    NoConn = NoConn
    NoTask = NoTask
    SmscPdus = {"bind_transceiver_resp"}
    MaxMessages = 0
    MaxQueue = 1
INVARIANTS
    OnlyCalledWhenConnectionClosed
CHECK_DEADLOCK FALSE
