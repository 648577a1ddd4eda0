SPECIFICATION Spec
CONSTANTS
    Tasks = {"bind", "receive", "dequeue"}
    Conns = {c1, c2, c3}
    Fragile = {c1, c2, c3}
    NoConn = NoConn
    NoTask = NoTask
    SmscPdus = {"bind_transceiver_resp"}
    MaxMessages = 1
    MaxQueue = 1
PROPERTIES
    NoMessageWhileOpen
CHECK_DEADLOCK FALSE
