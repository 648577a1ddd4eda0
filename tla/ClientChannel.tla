--------------------------- MODULE ClientChannel ---------------------------
(***************************************************************************)
(* Client implements Channel: its broker is the queue, the PDU that        *)
(* dequeue_messages has taken and not yet handed to the transport is the   *)
(* one in hand.                                                            *)
(***************************************************************************)
EXTENDS Client

\* What goes through the broker.
Queued(pdu) == pdu.kind \in {"submit_sm", "deliver_sm_resp", "enquire_link_resp"}

\* The PDU is in hand from broker.dequeue until writer.write, or until send_data gives
\* up on it; while a lost connection is re-established it is the last on the stack.
InHand ==
    LET kept == todo["dequeue"][Len(todo["dequeue"])] IN
    IF "dequeue" \notin Tasks THEN Idle
    ELSE IF Queued(cmd["dequeue"]) /\ pc["dequeue"] \in {"send", "write"} THEN cmd["dequeue"]
    ELSE IF todo["dequeue"] # <<>> /\ Queued(kept) THEN kept
    ELSE Idle

Healthy ==
    /\ current_session_state = "BOUND_TRX"
    /\ writer \notin finSent \cup {NoConn}
    /\ ~Closing(writer)

Path == INSTANCE Channel WITH
    Capacity <- MaxQueue,
    Answers <- {Of("deliver_sm_resp"), Of("enquire_link_resp")},
    Message <- SubmitSM,
    None <- Idle,
    queue <- broker,
    hand <- InHand,
    wire <- written,
    healthy <- Healthy

\* Every execution of the client is one of the channel: messages leave in the order they
\* were submitted and at most once, a lost connection costs no more than the PDU in hand,
\* and dequeue_messages drops that one only while the session is not bound or its
\* transport is gone or has written its eof.
ImplementsChannel == Path!Spec
=============================================================================
