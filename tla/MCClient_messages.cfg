SPECIFICATION Spec
CONSTANTS
    Tasks = {"connect", "bind", "dequeue", "receive"}
    Conns = {c1, c2}
    Fragile = {c1, c2}
    NoConn = NoConn
    NoTask = NoTask
    SmscPdus = {"bind_transceiver_resp", "unbind", "enquire_link", "deliver_sm"}
    MaxMessages = 2
    MaxQueue = 1
SYMMETRY Symmetry
INVARIANTS
    TypeOK
    DrainExclusive
    SessionHasWriter
    BoundOnWriter
    AtMostOnceInOrder
PROPERTIES
    ImplementsChannel
CHECK_DEADLOCK FALSE
